------------------------ MODULE ConfigPipelineProofs ------------------------
(***************************************************************************)
(* Proofs about ConfigPipeline, for every set of parameters of the table   *)
(* and every file, pipe, set of flags and foreign write: what `set`        *)
(* accepts is written whole, what it does not mention reads as before, and *)
(* what `read` and `get` print is what the device holds.                   *)
(***************************************************************************)
EXTENDS ConfigPipeline, SelectionProofs

-----------------------------------------------------------------------------
(* The table, names and conversions. *)

\* A text is of one line, or holds a break and is long enough for it.
LEMMA TextShape ==
  /\ \A v : v \in Texts <=> /\ v = [sort |-> "text", n |-> v.n, form |-> v.form] /\ v.n \in Nat
                            /\ \/ v.form = "plain"
                               \/ v.form = "blank" /\ v.n # 0
                               \/ v.form \in DOMAIN Breaks /\ v.n >= Breaks[v.form].bytes
  /\ \A form \in DOMAIN Breaks :
       form \notin {"plain", "padded", "blank", "nul"} /\ Breaks[form].bytes \in Nat \ {0}
  /\ \A v : v \in Texts \ Broken <=> v \in OneLine
<1>1. \A form \in DOMAIN Breaks :
        form \notin {"plain", "padded", "blank", "nul"} /\ Breaks[form].bytes \in Nat \ {0}
  BY BreaksAssumption
<1>2. \A v : v \in OneLine <=> /\ v = [sort |-> "text", n |-> v.n, form |-> v.form] /\ v.n \in Nat
                              /\ (v.form = "plain" \/ (v.form = "blank" /\ v.n # 0))
  BY DEF OneLine
<1>3. \A v : v \in Broken <=> /\ v = [sort |-> "text", n |-> v.n, form |-> v.form] /\ v.n \in Nat
                             /\ v.form \in DOMAIN Breaks /\ v.n >= Breaks[v.form].bytes
  BY DEF Broken
<1>4. QED
  BY <1>1, <1>2, <1>3 DEF Texts

\* What may be typed as a number or an address.
LEMMA TypedShape ==
  ASSUME NEW v \in Typed
  PROVE  /\ v.sort = "text" => v \in Texts
         /\ v.sort # "text" => /\ v = [sort |-> v.sort, n |-> v.n, form |-> v.form]
                              /\ v.sort \in {"number", "address"} /\ v.n \in Int
                              /\ v.form \in {"plain", "padded"}
                              /\ (v.sort = "address" => v.n \in Nat)
<1>1. v \in Texts => v.sort = "text"
  BY TextShape
<1>2. QED
  BY <1>1 DEF Typed

\* Every row has a length and a default that is a field of its kind, printed
\* in the plain form.  No parameter has the name of an alias.
LEMMA TableRows ==
  ASSUME NEW p \in DOMAIN Table
  PROVE  /\ Table[p].length \in Nat \ {0}
         /\ SortOf(p) \in {"number", "address", "text"}
         /\ IsField(p, Table[p].default)
         /\ Table[p].default.form = "plain"
         /\ p \notin DOMAIN Aliases
<1>1. p \in {"interface", "bridging", "wireless_mode", "wireless_channel", "wireless_keylen",
             "server_address", "hostname", "wireless_SSID", "wireless_wep_key", "wireless_wpa_psk"}
  BY DEF Table
<1>2. /\ Table[p].length \in {1, 4, 33, 13, 64}
      /\ Table[p].default \in {Number(128), Number(0), Number(6), Address(0), Text(0)}
      /\ Table[p].default.sort = SortOf(p)
  BY <1>1 DEF Table, Row, SortOf, Number, Address, Text, Value
<1>3. Fits(p, Table[p].default)
  BY <1>2 DEF Fits, Number, Address, Text, Value
<1>4. Table[p].default \in Stored
  <2>1. Text(0) \in Texts
    BY TextShape DEF Text, Value
  <2>2. QED
    BY <1>2, <2>1 DEF Stored, Number, Address, Value
<1>5. p \notin DOMAIN Aliases
  BY <1>1 DEF Aliases
<1>6. SortOf(p) \in {"number", "address", "text"}
  BY <1>2 DEF SortOf
<1>7. Table[p].default.form = "plain"
  BY <1>2 DEF Number, Address, Text, Value
<1>8. Table[p].length \in Nat \ {0}
  BY <1>2
<1>9. QED
  BY <1>3, <1>4, <1>5, <1>6, <1>7, <1>8 DEF IsField

\* A known name stands for one parameter, itself unless it is an alias; only
\* the server's address has aliases.
LEMMA KnownName ==
  ASSUME NEW k, Known(k)
  PROVE  /\ Canonical(k) \in Params /\ Canonical(k) \in DOMAIN Table
         /\ k \in Params \cup DOMAIN Aliases
         /\ k \notin Extra
         /\ k \notin Params => Canonical(k) = "server_address" /\ Aliases[k] = Canonical(k)
BY ParamsAssumption, ExtraAssumption DEF Known, Canonical, Aliases

\* A field prints as what may be typed, of its own kind, and printing what is
\* printed changes nothing.
LEMMA FormatField ==
  ASSUME NEW p \in DOMAIN Table, NEW f, IsField(p, f)
  PROVE  /\ IsField(p, Format(f)) /\ Format(f) \in Typed
         /\ Format(Format(f)) = Format(f)
         /\ f.form = "plain" => Format(f) = f
         /\ f.sort # "text" => Format(f) = f
<1>1. f \in Stored /\ Fits(p, f) /\ Table[p].length \in Nat
  BY TableRows DEF IsField
<1>2. CASE f.form = "nul"
  <2>1. f.sort = "text" /\ f.n \in Nat \ {0, 1}
    BY <1>1, <1>2, TextShape DEF Stored
  <2>2. /\ Format(f) = Text(f.n - 2) /\ f.n - 2 \in Nat
        /\ f.n - 2 <= Table[p].length
    BY <1>1, <1>2, <2>1 DEF Format, Fits
  <2>3. /\ Format(f) \in Texts /\ Format(f).sort = "text" /\ Format(f).form = "plain"
        /\ Format(f).n = f.n - 2
    BY <2>2, TextShape DEF Text, Value
  <2>4. Format(f) \in Stored /\ Format(f) \in Typed
    BY <2>3 DEF Stored, Typed
  <2>5. Fits(p, Format(f))
    BY <1>1, <2>1, <2>2, <2>3 DEF Fits
  <2>6. Format(Format(f)) = Format(f)
    BY <2>3 DEF Format
  <2>7. QED
    BY <1>2, <2>1, <2>4, <2>5, <2>6 DEF IsField
<1>3. CASE f.form # "nul"
  <2>1. Format(f) = f
    BY <1>3 DEF Format
  <2>2. f \in Typed
    BY <1>1, <1>3 DEF Stored, Typed
  <2>3. QED
    BY <1>1, <2>1, <2>2 DEF IsField
<1>4. QED
  BY <1>2, <1>3

\* What is typed and fits is encoded into a field of its kind, whole.
LEMMA EncodeFits ==
  ASSUME NEW p \in DOMAIN Table, NEW v \in Typed, Fits(p, v)
  PROVE  /\ Encodable(p, v)
         /\ IsField(p, Encode(p, v))
         /\ Encode(p, v).n = v.n
         /\ v.form = "plain" => Encode(p, v) = v
         /\ v.sort = "text" => Encode(p, v) = v
         /\ Format(Encode(p, v)) = Encode(p, v)
<1>1. Table[p].length \in Nat /\ SortOf(p) = v.sort
  BY TableRows DEF Fits
<1>2. CASE v.sort = "text"
  <2>1. v \in Texts
    BY <1>2, TypedShape
  <2>2. v.n <= Table[p].length
    BY <1>2 DEF Fits
  <2>3. Encode(p, v) = v
    BY <1>1, <1>2, <2>2 DEF Encode
  <2>4. v \in Stored /\ v.form # "nul"
    BY <2>1, TextShape DEF Stored
  <2>5. Format(v) = v
    BY <2>4 DEF Format
  <2>6. QED
    BY <1>1, <1>2, <2>3, <2>4, <2>5 DEF Encodable, IsField
<1>3. CASE v.sort # "text"
  <2>1. Encode(p, v) = [v EXCEPT !.form = "plain"]
    BY <1>1, <1>3 DEF Encode
  <2>2. v.sort \in {"number", "address"} /\ v.n \in Int /\ (v.sort = "address" => v.n \in Nat)
    BY <1>3, TypedShape
  <2>3. v.n \in Nat
    BY <2>2 DEF Fits
  <2>4. v = [sort |-> v.sort, n |-> v.n, form |-> v.form]
    BY <1>3, TypedShape
  <2>5. Encode(p, v) = [sort |-> v.sort, n |-> v.n, form |-> "plain"]
    BY <2>1, <2>4
  <2>6. Encode(p, v) \in Stored
    BY <2>2, <2>3, <2>5 DEF Stored
  <2>7. Fits(p, Encode(p, v))
    BY <2>5, <1>3 DEF Fits
  <2>8. Format(Encode(p, v)) = Encode(p, v)
    BY <2>5 DEF Format
  <2>9. v.form = "plain" => Encode(p, v) = v
    BY <2>4, <2>5
  <2>10. QED
    BY <1>3, <2>5, <2>6, <2>7, <2>8, <2>9 DEF Encodable, IsField
<1>4. QED
  BY <1>2, <1>3

\* What a field prints as is encoded as it is: a set of what was read changes
\* nothing that can be printed.
LEMMA Rewritten ==
  ASSUME NEW p \in DOMAIN Table, NEW f, IsField(p, f)
  PROVE  Encode(p, Format(f)) = Format(f)
<1>1. IsField(p, Format(f)) /\ Format(f) \in Typed
  BY FormatField
<1>2. Format(f).form = "plain" \/ Format(f).sort = "text"
  BY <1>1, TextShape DEF IsField, Stored
<1>3. QED
  BY <1>1, <1>2, EncodeFits DEF IsField

\* What is trimmed may be typed, and all but what begins or ends in a blank is
\* trimmed as it is.
LEMMA TrimTyped ==
  ASSUME NEW v \in Typed
  PROVE  Trim(v) \in Typed /\ (v.form = "plain" => Trim(v) = v)
<1>1. CASE v.form = "blank"
  <2>1. v.n \in Nat \ {0}
    BY <1>1, TypedShape, TextShape
  <2>2. Trim(v) = [sort |-> "text", n |-> v.n - 1, form |-> "plain"] /\ v.n - 1 \in Nat
    BY <1>1, <2>1 DEF Trim, Text, Value
  <2>3. Trim(v) \in Texts
    BY <2>2, TextShape
  <2>4. QED
    BY <1>1, <2>3 DEF Typed
<1>2. CASE v.form # "blank"
  BY <1>2 DEF Trim
<1>3. QED
  BY <1>1, <1>2

\* What is printed of a value may be typed: its first line, and the lines of the
\* rest of it.  A value without a break is printed on one line.
LEMMA PrintedTyped ==
  ASSUME NEW v \in Typed
  PROVE  /\ FirstLine(v) \in Typed
         /\ Rest(v) \in Seq(ToSet(Rest(v)))
         /\ \A i \in DOMAIN Rest(v) : Rest(v)[i][2] \in Typed
         /\ v.form = "plain" => FirstLine(v) = v /\ Rest(v) = <<>>
<1>1. CASE v.form \in DOMAIN Breaks
  <2>1. v.form # "plain" /\ v.form # "padded"
    BY <1>1, TextShape
  <2>2. v \in Texts /\ v.n \in Nat /\ v.n >= Breaks[v.form].bytes /\ Breaks[v.form].bytes \in Nat
    BY <1>1, <2>1, TypedShape, TextShape
  <2>3. FirstLine(v) \in Texts
    <3>1. FirstLine(v) = [sort |-> "text", n |-> v.n - Breaks[v.form].bytes, form |-> "plain"]
      BY <1>1 DEF FirstLine, Text, Value
    <3>2. v.n - Breaks[v.form].bytes \in Nat
      BY <2>2
    <3>3. QED
      BY <3>1, <3>2, TextShape
  <2>4. Rest(v) = Breaks[v.form].lines
    BY <1>1 DEF Rest
  <2>5. QED
    BY <1>1, <2>1, <2>3, <2>4, BreaksAssumption DEF Typed
<1>2. CASE v.form \notin DOMAIN Breaks
  <2>1. FirstLine(v) = v /\ Rest(v) = <<>>
    BY <1>2 DEF FirstLine, Rest
  <2>2. <<>> \in Seq(ToSet(<<>>)) /\ DOMAIN <<>> = {}
    OBVIOUS
  <2>3. QED
    BY <2>1, <2>2
<1>3. QED
  BY <1>1, <1>2

-----------------------------------------------------------------------------
(* Files: the last line of a key, and output as lines. *)

\* A nonempty set of line numbers has a last one.
LEMMA LastOne ==
  ASSUME NEW n \in Nat, NEW I \in SUBSET (1..n), I # {}
  PROVE  Max(I) \in I /\ \A i \in I : i <= Max(I)
<1> DEFINE T == {n - i : i \in I}
<1>1. \A i \in I : i \in Int /\ n - i \in Nat /\ n - i \in T
  OBVIOUS
<1>2. T \subseteq Nat /\ T # {}
  BY <1>1
<1>3. IsWellFoundedOn(OpToRel(<, Nat), Nat)
  BY NatLessThanWellFounded
<1>4. PICK x \in T : \A y \in T : ~(<<y, x>> \in OpToRel(<, Nat))
  BY <1>2, <1>3, WFMin
<1>5. \A y \in T : ~(y < x)
  BY <1>2, <1>4 DEF OpToRel
<1>6. PICK i \in I : x = n - i
  OBVIOUS
<1>7. ASSUME NEW j \in I PROVE j <= i
  <2>1. ~(n - j < n - i)
    BY <1>1, <1>5, <1>6
  <2>2. QED
    BY <1>1, <2>1
<1>8. QED
  BY <1>7, <1>1 DEF Max

Lined(lines) == lines \in Seq(ToSet(lines)) /\ \A i \in DOMAIN lines : lines[i][2] \in Typed

\* The value of a key is that of a line of that key.
LEMMA ParsedLine ==
  ASSUME NEW lines, Lined(lines), NEW k \in DOMAIN Parsed(lines)
  PROVE  \E i \in DOMAIN lines : Key(lines[i]) = k /\ Parsed(lines)[k] = Trim(lines[i][2])
<1> DEFINE I == {i \in 1..Len(lines) : Key(lines[i]) = k}
<1>1. Len(lines) \in Nat /\ DOMAIN lines = 1..Len(lines)
  BY DEF Lined
<1>2. I # {}
  BY <1>1 DEF Parsed
<1>3. Max(I) \in I
  BY <1>1, <1>2, LastOne
<1>4. SelectLastInSeq(lines, LAMBDA line : Key(line) = k) = Max(I)
  BY <1>2 DEF SelectLastInSeq
<1>5. Parsed(lines)[k] = Trim(lines[Max(I)][2])
  BY <1>4 DEF Parsed
<1>6. QED
  BY <1>1, <1>3, <1>5

\* A known key of a file that ParseINI accepts has a value that may be typed,
\* fits its parameter and follows the rules of its name.
LEMMA ParsedValid ==
  ASSUME NEW lines, Lined(lines), Parses(lines), NEW k \in DOMAIN Parsed(lines)
  PROVE  Known(k) /\ Parsed(lines)[k] \in Typed /\ Valid(k, Parsed(lines)[k])
<1>1. PICK i \in DOMAIN lines : Key(lines[i]) = k /\ Parsed(lines)[k] = Trim(lines[i][2])
  BY ParsedLine
<1>2. lines[i][2] \in Typed
  BY DEF Lined
<1>3. Trim(lines[i][2]) \in Typed
  BY <1>2, TrimTyped
<1>4. Known(k) /\ Valid(k, Trim(lines[i][2]))
  BY <1>1 DEF Parses
<1>5. QED
  BY <1>1, <1>3, <1>4

\* The names are those of the table, in an order.
LEMMA AllByName ==
  /\ Len(ByName) = 10 /\ DOMAIN ByName = 1..10
  /\ \A i \in 1..10 : ByName[i] \in DOMAIN Table
  /\ \A p \in DOMAIN Table : \E i \in 1..10 : ByName[i] = p
BY DEF ByName, Table

\* A function on 1..n is a sequence.
LEMMA Listed ==
  ASSUME NEW T, NEW n \in Nat, NEW f \in [1..n -> T]
  PROVE  f \in Seq(T) /\ Len(f) = n
OBVIOUS

\* Output as lines: the first line of every parameter, the lines of the rest of
\* its value, and no other.
LEMMA LinesShape ==
  ASSUME NEW out, DOMAIN out \subseteq DOMAIN Table, \A k \in DOMAIN out : out[k] \in Typed
  PROVE  /\ Lined(Lines(out))
         /\ \A i \in DOMAIN Lines(out) : \E k \in DOMAIN out :
              \/ Lines(out)[i] = <<k, FirstLine(out[k])>>
              \/ \E j \in DOMAIN Rest(out[k]) : Lines(out)[i] = Rest(out[k])[j]
         /\ \A k \in DOMAIN out : \E i \in DOMAIN Lines(out) : Lines(out)[i] = <<k, FirstLine(out[k])>>
<1> DEFINE S == UNION {ToSet(Entry(out, k)) : k \in DOMAIN out}
           parts == [i \in DOMAIN ByName |-> Entry(out, ByName[i])]
<1>1. ASSUME NEW k \in DOMAIN out
      PROVE  /\ Entry(out, k) \in Seq(S) /\ Len(Entry(out, k)) \in Nat /\ Len(Entry(out, k)) # 0
             /\ Entry(out, k)[1] = <<k, FirstLine(out[k])>>
             /\ \A j \in 1..Len(Entry(out, k)) :
                  \/ Entry(out, k)[j] = <<k, FirstLine(out[k])>>
                  \/ \E l \in DOMAIN Rest(out[k]) : Entry(out, k)[j] = Rest(out[k])[l]
  <2> DEFINE line == <<k, FirstLine(out[k])>>
             rest == Rest(out[k])
             T == {line} \cup ToSet(rest)
  <2>1. rest \in Seq(T) /\ Len(rest) \in Nat /\ DOMAIN rest = 1..Len(rest)
    BY PrintedTyped
  <2>2. <<line>> \in Seq(T) /\ Len(<<line>>) = 1 /\ <<line>>[1] = line
    OBVIOUS
  <2>3. Entry(out, k) = <<line>> \o rest
    BY DEF Entry
  <2> HIDE DEF line, rest, T
  <2>4. /\ Entry(out, k) \in Seq(T) /\ Len(Entry(out, k)) = 1 + Len(rest)
        /\ Entry(out, k)[1] = line
        /\ \A j \in 1..Len(rest) : Entry(out, k)[1 + j] = rest[j]
    BY <2>1, <2>2, <2>3, ConcatProperties
  <2>5. ASSUME NEW j \in 1..Len(Entry(out, k))
        PROVE  Entry(out, k)[j] = line \/ \E l \in DOMAIN rest : Entry(out, k)[j] = rest[l]
    <3>1. CASE j = 1
      BY <2>4, <3>1
    <3>2. CASE j # 1
      <4>1. j - 1 \in 1..Len(rest) /\ j = 1 + (j - 1)
        BY <2>1, <2>4, <3>2
      <4>2. QED
        BY <2>1, <2>4, <4>1
    <3>3. QED
      BY <3>1, <3>2
  <2>6. Entry(out, k) \in Seq(S)
    <3>1. Len(Entry(out, k)) \in Nat /\ DOMAIN Entry(out, k) = 1..Len(Entry(out, k))
      BY <2>1, <2>4
    <3>2. \A j \in 1..Len(Entry(out, k)) : Entry(out, k)[j] \in S
      <4>1. ToSet(Entry(out, k)) \subseteq S
        OBVIOUS
      <4>2. \A j \in DOMAIN Entry(out, k) : Entry(out, k)[j] \in ToSet(Entry(out, k))
        BY DEF ToSet
      <4> HIDE DEF S
      <4>3. QED
        BY <3>1, <4>1, <4>2
    <3>3. Entry(out, k) = [j \in 1..Len(Entry(out, k)) |-> Entry(out, k)[j]]
      BY <2>4
    <3>4. QED
      BY <3>1, <3>2, <3>3
  <2>7. QED
    BY <2>1, <2>4, <2>5, <2>6 DEF line, rest
<1>2. \A k : k \notin DOMAIN out => Entry(out, k) = <<>>
  BY DEF Entry
<1>3. parts \in Seq(Seq(S)) /\ Len(parts) = 10 /\ \A i \in 1..10 : parts[i] = Entry(out, ByName[i])
  <2>1. \A i \in 1..10 : Entry(out, ByName[i]) \in Seq(S)
    <3>1. <<>> \in Seq(S)
      OBVIOUS
    <3>2. QED
      BY <1>1, <1>2, <3>1
  <2>2. parts \in [1..10 -> Seq(S)]
    BY <2>1, AllByName
  <2> HIDE DEF parts, S
  <2>3. parts \in Seq(Seq(S)) /\ Len(parts) = 10
    <3> DEFINE T == Seq(S)
    <3>1. parts \in [1..10 -> T]
      BY <2>2
    <3>2. PICK n \in Nat : n = 10
      OBVIOUS
    <3> HIDE DEF T
    <3>3. parts \in [1..n -> T]
      BY <3>1, <3>2
    <3>4. parts \in Seq(T) /\ Len(parts) = n
      BY ONLY <3>2, <3>3, Listed
    <3>5. QED
      BY <3>2, <3>4 DEF T
  <2>4. QED
    BY <2>3, AllByName DEF parts
<1>4. Lines(out) = FlattenSeq(parts)
  BY DEF Lines
<1> HIDE DEF parts, S
<1>5. Lines(out) \in Seq(S) /\ DOMAIN Lines(out) = 1..Len(Lines(out)) /\ Len(Lines(out)) \in Nat
  BY <1>3, <1>4, FlattenShape, LenProperties
<1>6. ASSUME NEW i \in DOMAIN Lines(out)
      PROVE  \E k \in DOMAIN out :
               \/ Lines(out)[i] = <<k, FirstLine(out[k])>>
               \/ \E j \in DOMAIN Rest(out[k]) : Lines(out)[i] = Rest(out[k])[j]
  <2>1. PICK n \in 1..10 : \E j \in 1..Len(parts[n]) : Lines(out)[i] = parts[n][j]
    <3>1. i \in 1..Len(FlattenSeq(parts))
      BY <1>4, <1>5
    <3>2. \E n \in 1..Len(parts) : \E j \in 1..Len(parts[n]) : FlattenSeq(parts)[i] = parts[n][j]
      BY <1>3, <3>1, FlattenPlace
    <3>3. QED
      BY <1>3, <1>4, <3>2
  <2>2. PICK j \in 1..Len(parts[n]) : Lines(out)[i] = parts[n][j]
    BY <2>1
  <2>3. ByName[n] \in DOMAIN out
    <3>1. ByName[n] \notin DOMAIN out => Len(parts[n]) = 0
      BY <1>2, <1>3
    <3>2. QED
      BY <3>1
  <2> DEFINE k == ByName[n]
  <2>4. k \in DOMAIN out /\ parts[n] = Entry(out, k)
    BY <1>3, <2>3
  <2> HIDE DEF k
  <2>5. j \in 1..Len(Entry(out, k)) /\ Lines(out)[i] = Entry(out, k)[j]
    BY <2>2, <2>4
  <2>6. \/ Lines(out)[i] = <<k, FirstLine(out[k])>>
        \/ \E l \in DOMAIN Rest(out[k]) : Lines(out)[i] = Rest(out[k])[l]
    BY <1>1, <2>4, <2>5
  <2>7. QED
    BY <2>4, <2>6
<1>7. ASSUME NEW k \in DOMAIN out
      PROVE  \E i \in DOMAIN Lines(out) : Lines(out)[i] = <<k, FirstLine(out[k])>>
  <2>1. PICK n \in 1..10 : ByName[n] = k
    BY AllByName
  <2>2. parts[n] = Entry(out, k) /\ 1 \in 1..Len(parts[n]) /\ parts[n][1] = <<k, FirstLine(out[k])>>
    BY <1>1, <1>3, <2>1
  <2>3. PICK i \in 1..Len(FlattenSeq(parts)) : FlattenSeq(parts)[i] = parts[n][1]
    <3>1. n \in 1..Len(parts)
      BY <1>3
    <3>2. PICK j \in 1..Len(parts[n]) : j = 1
      BY <2>2
    <3>3. \E i \in 1..Len(FlattenSeq(parts)) : FlattenSeq(parts)[i] = parts[n][j]
      <4>1. parts \in Seq(Seq(S))
        BY <1>3
      <4>2. QED
        BY <3>1, <4>1, FlattenHas, Zenon
    <3>4. QED
      BY <3>2, <3>3
  <2>4. QED
    BY <1>4, <1>5, <2>2, <2>3
<1>8. \A i \in DOMAIN Lines(out) : Lines(out)[i][2] \in Typed
  BY <1>6, PrintedTyped
<1>9. Lines(out) \in Seq(ToSet(Lines(out)))
  <2>1. \A i \in 1..Len(Lines(out)) : Lines(out)[i] \in ToSet(Lines(out))
    BY <1>5 DEF ToSet
  <2>2. Lines(out) = [i \in 1..Len(Lines(out)) |-> Lines(out)[i]]
    BY <1>5
  <2>3. QED
    BY <1>5, <2>1, <2>2
<1>10. QED
  BY <1>6, <1>7, <1>8, <1>9 DEF Lined

-----------------------------------------------------------------------------
(* What a `set` is given, completes and writes. *)

Inputs(a) ==
  /\ Lined(Source(a))
  /\ DOMAIN a.flags \subseteq Params
  /\ \A p \in DOMAIN a.flags : a.flags[p] \in Typed

\* Every value of an accepted command, from the file or from a flag, is one of
\* a known name that may be typed, fits and follows the rules.
LEMMA MergedSound ==
  ASSUME NEW a, Inputs(a), Accepted(a)
  PROVE  \A k \in DOMAIN Merged(a) :
           Known(k) /\ Merged(a)[k] \in Typed /\ Valid(k, Merged(a)[k])
<1>1. SUFFICES ASSUME NEW k \in DOMAIN Merged(a)
               PROVE  Known(k) /\ Merged(a)[k] \in Typed /\ Valid(k, Merged(a)[k])
  OBVIOUS
<1>2. k \in DOMAIN a.flags \/ k \in DOMAIN Parsed(Source(a))
  BY DEF Merged, Over
<1>3. CASE k \in DOMAIN a.flags
  <2>1. Merged(a)[k] = a.flags[k]
    BY <1>3 DEF Merged, Over
  <2>2. QED
    BY <1>3, <2>1 DEF Inputs, Accepted, FlagsValid, Known
<1>4. CASE k \notin DOMAIN a.flags
  <2>1. k \in DOMAIN Parsed(Source(a)) /\ Merged(a)[k] = Parsed(Source(a))[k]
    BY <1>2, <1>4 DEF Merged, Over
  <2>2. QED
    BY <2>1, ParsedValid DEF Inputs, Accepted
<1>5. QED
  BY <1>3, <1>4

\* Completing what was given with an interface keeps what was given, adds at
\* most an interface, and only to a device at the factory's 128.
LEMMA Completed ==
  ASSUME NEW a, NEW current
  PROVE  LET all   == WithInterface(Merged(a), current)
             added == /\ "interface" \in Params \ DOMAIN Merged(a)
                      /\ current["interface"] = Number(128)
             given == "wireless_SSID" \in DOMAIN Merged(a) /\ Merged(a)["wireless_SSID"].n > 0
         IN  /\ DOMAIN all = DOMAIN Merged(a) \cup (IF added THEN {"interface"} ELSE {})
             /\ \A k \in DOMAIN Merged(a) : all[k] = Merged(a)[k]
             /\ added => all["interface"] = Number(IF given THEN 0 ELSE 1)
<1> DEFINE added == /\ "interface" \in Params \ DOMAIN Merged(a)
                    /\ current["interface"] = Number(128)
<1>1. CASE ~added
  <2>1. WithInterface(Merged(a), current) = Merged(a)
    BY <1>1 DEF WithInterface
  <2>2. QED
    BY <1>1, <2>1
<1>2. CASE added
  <2> DEFINE given == "wireless_SSID" \in DOMAIN Merged(a) /\ Merged(a)["wireless_SSID"].n > 0
  <2>1. WithInterface(Merged(a), current)
          = Over([k \in {"interface"} |-> Number(IF given THEN 0 ELSE 1)], Merged(a))
    BY <1>2 DEF WithInterface
  <2>2. QED
    BY <1>2, <2>1 DEF Over
<1>3. QED
  BY <1>1, <1>2

\* What every reachable state keeps besides its types: the saved output is that
\* of the image, a `set` that has read the device holds what it read, and until
\* it ends nothing is shown.
Kept ==
  /\ saved = FilterReadOutput(ReadBack(image))
  /\ phase = "read" => cache = ReadBack(nvram)
  /\ phase # "idle" => shown = Empty /\ Inputs(args)

\* What a `set` is about to write: what it was given and the interface, and for
\* the rest what the device printed; every value of a known name fits.
LEMMA AllSound ==
  ASSUME TypeOK, Kept, phase = "read"
  PROVE  /\ Params \subseteq DOMAIN AllParams
         /\ \A k \in DOMAIN Merged(args) : k \in DOMAIN AllParams /\ AllParams[k] = Merged(args)[k]
         /\ \A k \in DOMAIN AllParams :
              Known(k) => /\ AllParams[k] \in Typed
                          /\ Fits(Canonical(k), AllParams[k])
                          /\ k \notin Params => k \in DOMAIN Merged(args)
         /\ \A p \in Params \ DOMAIN Merged(args) :
              IF p = "interface" /\ nvram[p] = Number(128)
              THEN AllParams[p] = Number(IF "wireless_SSID" \in DOMAIN Merged(args) THEN 0 ELSE 1)
              ELSE AllParams[p] = Format(nvram[p])
<1> DEFINE with == WithInterface(Merged(args), cache)
           added == /\ "interface" \in Params \ DOMAIN Merged(args)
                    /\ cache["interface"] = Number(128)
<1>1. Inputs(args) /\ Accepted(args) /\ cache = ReadBack(nvram)
  BY DEF Kept, TypeOK
<1>2. /\ DOMAIN cache = Params \cup Extra
      /\ \A p \in Params : cache[p] = Format(nvram[p])
  BY <1>1 DEF ReadBack
<1>3. \A k \in DOMAIN Merged(args) :
        Known(k) /\ Merged(args)[k] \in Typed /\ Valid(k, Merged(args)[k])
  BY <1>1, MergedSound
<1>4. \A p \in Params : p \in DOMAIN Table /\ IsField(p, nvram[p])
  BY ParamsAssumption DEF TypeOK
<1>5. /\ DOMAIN with = DOMAIN Merged(args) \cup (IF added THEN {"interface"} ELSE {})
      /\ \A k \in DOMAIN Merged(args) : with[k] = Merged(args)[k]
      /\ added => with["interface"] = Number(IF "wireless_SSID" \in DOMAIN Merged(args)
                                                /\ Merged(args)["wireless_SSID"].n > 0 THEN 0 ELSE 1)
  BY Completed
<1>6. /\ DOMAIN AllParams = DOMAIN with \cup DOMAIN cache
      /\ \A k \in DOMAIN with : AllParams[k] = with[k]
      /\ \A k \in DOMAIN cache \ DOMAIN with : AllParams[k] = cache[k]
  BY DEF AllParams, Over
<1>7. Params \subseteq DOMAIN AllParams
  BY <1>2, <1>6
<1>8. \A k \in DOMAIN Merged(args) : k \in DOMAIN AllParams /\ AllParams[k] = Merged(args)[k]
  BY <1>5, <1>6
<1>9. "interface" \in Params => (added <=> "interface" \notin DOMAIN Merged(args) /\ nvram["interface"] = Number(128))
  <2>1. SUFFICES ASSUME "interface" \in Params
                 PROVE  Format(nvram["interface"]) = Number(128) <=> nvram["interface"] = Number(128)
    BY <1>2
  <2>2. nvram["interface"].sort # "text"
    <3>1. SortOf("interface") = "number"
      BY DEF SortOf, Table, Row
    <3>2. QED
      BY <1>4, <2>1, <3>1 DEF IsField, Fits
  <2>3. QED
    BY <1>4, <2>1, <2>2, FormatField
<1>10. "wireless_SSID" \in DOMAIN Merged(args) => Merged(args)["wireless_SSID"].n > 0
  BY <1>3 DEF Valid, Rule
<1>11. ASSUME NEW p \in Params \ DOMAIN Merged(args)
       PROVE  IF p = "interface" /\ nvram[p] = Number(128)
              THEN AllParams[p] = Number(IF "wireless_SSID" \in DOMAIN Merged(args) THEN 0 ELSE 1)
              ELSE AllParams[p] = Format(nvram[p])
  <2>1. CASE p = "interface" /\ nvram[p] = Number(128)
    BY <1>5, <1>6, <1>9, <1>10, <1>11, <2>1
  <2>2. CASE ~(p = "interface" /\ nvram[p] = Number(128))
    <3>1. p \notin DOMAIN with
      BY <1>5, <1>9, <1>11, <2>2
    <3>2. QED
      BY <1>2, <1>6, <2>2, <3>1
  <2>3. QED
    BY <2>1, <2>2
<1>12. ASSUME NEW k \in DOMAIN AllParams, Known(k)
       PROVE  /\ AllParams[k] \in Typed
              /\ Fits(Canonical(k), AllParams[k])
              /\ k \notin Params => k \in DOMAIN Merged(args)
  <2>1. CASE k \in DOMAIN Merged(args)
    BY <1>3, <1>8, <2>1 DEF Valid
  <2>2. CASE k \notin DOMAIN Merged(args)
    <3>1. k \in Params
      <4>1. k \notin Extra
        BY <1>12, KnownName
      <4>2. QED
        BY <1>2, <1>5, <1>6, <1>12, <2>2, <4>1
    <3>2. Canonical(k) = k
      BY <3>1 DEF Canonical
    <3>3. CASE k = "interface" /\ nvram[k] = Number(128)
      <4>1. AllParams[k] \in {Number(0), Number(1)}
        BY <1>11, <2>2, <3>1, <3>3
      <4>2. AllParams[k] \in Typed
        BY <4>1 DEF Typed, Number, Value
      <4>3. SortOf("interface") = "number"
        BY DEF SortOf, Table, Row
      <4>4. Fits("interface", AllParams[k])
        BY <4>1, <4>3 DEF Fits, Number, Value
      <4>5. QED
        BY <3>1, <3>2, <3>3, <4>2, <4>4
    <3>4. CASE ~(k = "interface" /\ nvram[k] = Number(128))
      <4>1. AllParams[k] = Format(nvram[k])
        BY <1>11, <2>2, <3>1, <3>4
      <4>2. QED
        BY <1>4, <3>1, <3>2, <4>1, FormatField DEF IsField
    <3>5. QED
      BY <3>3, <3>4
  <2>3. QED
    BY <2>1, <2>2
<1>13. QED
  BY <1>7, <1>8, <1>11, <1>12

\* What a `set` writes into a parameter's field is encoded from its own entry,
\* or from that of an alias that comes late.
LEMMA WrittenField ==
  ASSUME TypeOK, Kept, phase = "read",
         NEW late \in SUBSET {k \in DOMAIN AllParams : Known(k) /\ k \notin Params},
         NEW p \in Params
  PROVE  \E k \in DOMAIN AllParams :
           /\ Known(k) /\ Canonical(k) = p
           /\ Written(AllParams, late)[p] = Encode(p, AllParams[k])
           /\ IsField(p, Encode(p, AllParams[k]))
           /\ k = p \/ (k \in DOMAIN Merged(args) /\ k \notin Params)
           /\ k = p \/ k \in late
<1> DEFINE names == {k \in late : Canonical(k) = p}
<1>1. Written(AllParams, late)[p] = Encode(p, IF names = {} THEN AllParams[p] ELSE AllParams[CHOOSE k \in names : TRUE])
  BY DEF Written
<1>2. ASSUME NEW k \in DOMAIN AllParams, Known(k), Canonical(k) = p
      PROVE  IsField(p, Encode(p, AllParams[k]))
  BY <1>2, AllSound, EncodeFits, ParamsAssumption
<1>3. CASE names = {}
  <2>1. p \in DOMAIN AllParams /\ Known(p) /\ Canonical(p) = p
    BY AllSound DEF Known, Canonical
  <2>2. QED
    BY <1>1, <1>2, <1>3, <2>1
<1>4. CASE names # {}
  <2>1. PICK k \in names : k = CHOOSE x \in names : TRUE
    BY <1>4
  <2>2. k \in DOMAIN AllParams /\ Known(k) /\ k \notin Params /\ Canonical(k) = p /\ k \in late
    BY <2>1
  <2>3. k \in DOMAIN Merged(args)
    BY <2>2, AllSound
  <2>4. QED
    BY <1>1, <1>2, <1>4, <2>1, <2>2, <2>3
<1>5. QED
  BY <1>3, <1>4

\* The packet of a `set` can be created: it writes, late or early.
LEMMA WritesAll ==
  ASSUME TypeOK, Kept, Writes
  PROVE  \E late \in SUBSET {k \in DOMAIN AllParams : Known(k) /\ k \notin Params} :
           nvram' = Written(AllParams, late)
<1>1. phase = "read"
  BY DEF Writes
<1>2. ASSUME NEW k \in DOMAIN AllParams, Known(k)
      PROVE  Encodable(Canonical(k), AllParams[k])
  BY <1>1, <1>2, AllSound, EncodeFits, KnownName
<1>3. QED
  BY <1>2 DEF Writes

\* A saved output holds what its image prints where that is not the default.
LEMMA SavedShape ==
  ASSUME TypeOK, Kept
  PROVE  /\ DOMAIN saved = {p \in Params : Format(image[p]) # Table[p].default}
         /\ \A p \in DOMAIN saved : saved[p] = Format(image[p]) /\ saved[p] \in Typed
<1>1. Params \cap Extra = {}
  BY ParamsAssumption, ExtraAssumption
<1>2. /\ DOMAIN ReadBack(image) = Params \cup Extra
      /\ \A p \in Params : ReadBack(image)[p] = Format(image[p])
  BY DEF ReadBack
<1>3. (Params \cup Extra) \ Extra = Params /\ \A p \in Params : Known(p)
  BY <1>1 DEF Known
<1>4. /\ DOMAIN saved = {p \in Params : ReadBack(image)[p] # Table[p].default}
      /\ \A p \in DOMAIN saved : saved[p] = ReadBack(image)[p]
  BY <1>2, <1>3 DEF Kept, FilterReadOutput
<1>5. \A p \in Params : Format(image[p]) \in Typed
  BY ParamsAssumption, FormatField DEF TypeOK
<1>6. QED
  BY <1>2, <1>4, <1>5

\* A saved output is a file `set` may be given.
LEMMA SavedLines ==
  ASSUME TypeOK, Kept
  PROVE  /\ Lined(Lines(saved))
         /\ \A i \in DOMAIN Lines(saved) : \E p \in DOMAIN saved :
              \/ Lines(saved)[i] = <<p, FirstLine(saved[p])>>
              \/ \E j \in DOMAIN Rest(saved[p]) : Lines(saved)[i] = Rest(saved[p])[j]
         /\ \A p \in DOMAIN saved :
              \E i \in DOMAIN Lines(saved) : Lines(saved)[i] = <<p, FirstLine(saved[p])>>
<1>1. DOMAIN saved \subseteq DOMAIN Table
  BY ParamsAssumption DEF TypeOK
<1>2. QED
  BY <1>1, SavedShape, LinesShape

-----------------------------------------------------------------------------
(* The inductive invariant. *)

IInv == TypeOK /\ Kept

\* Files, pipes and flags of the assumptions are inputs, and so is a backup.
LEMMA GivenInputs ==
  ASSUME TypeOK, Kept, NEW given \in Given
  PROVE  Inputs(given)
<1>1. /\ given.flags \in FlagSets
      /\ Source(given) \in Files \cup Stdins \cup {<<>>, Lines(saved)}
  BY DEF Given, Source
<1>2. Lined(<<>>)
  BY DEF Lined, ToSet
<1>3. Lined(Source(given))
  BY <1>1, <1>2, SavedLines, InputAssumption DEF Lined
<1>4. QED
  BY <1>1, <1>3, InputAssumption DEF Inputs

\* A device fresh from the factory prints nothing `read` would keep.
LEMMA FactoryShape ==
  /\ DOMAIN Factory = Params
  /\ \A p \in Params : IsField(p, Factory[p]) /\ Format(Factory[p]) = Table[p].default
  /\ FilterReadOutput(ReadBack(Factory)) = Empty
<1>1. DOMAIN Factory = Params
  BY DEF Factory
<1>2. \A p \in Params : IsField(p, Factory[p]) /\ Format(Factory[p]) = Table[p].default
  BY TableRows, FormatField, ParamsAssumption DEF Factory
<1>3. (Params \cup Extra) \ Extra = Params /\ \A p \in Params : Known(p)
  BY ParamsAssumption, ExtraAssumption DEF Known
<1>4. /\ DOMAIN ReadBack(Factory) = Params \cup Extra
      /\ \A p \in Params : ReadBack(Factory)[p] = Table[p].default
  BY <1>2 DEF ReadBack
<1>5. DOMAIN FilterReadOutput(ReadBack(Factory)) = {}
  BY <1>3, <1>4 DEF FilterReadOutput
<1>6. FilterReadOutput(ReadBack(Factory)) = [k \in {} |-> Text(0)]
  BY <1>5 DEF FilterReadOutput
<1>7. QED
  BY <1>1, <1>2, <1>6 DEF Empty

LEMMA Starts == Init => IInv
<1>1. SUFFICES ASSUME Init PROVE IInv
  OBVIOUS
<1>2. DOMAIN Empty = {}
  BY DEF Empty
<1>3. TypeOK
  BY <1>1, <1>2, FactoryShape DEF Init, TypeOK
<1>4. Kept
  BY <1>1, FactoryShape DEF Init, Kept
<1>5. QED
  BY <1>3, <1>4 DEF IInv

LEMMA Keeps == IInv /\ [Next]_vars => IInv'
<1>1. SUFFICES ASSUME TypeOK, Kept, [Next]_vars PROVE TypeOK' /\ Kept'
  BY DEF IInv
<1>2. CASE Read
  <2>1. saved' = FilterReadOutput(ReadBack(image')) /\ image' = nvram /\ phase = "idle"
        /\ UNCHANGED <<nvram, phase, args, cache>>
    BY <1>2 DEF Read
  <2>2. Kept'
    BY <1>1, <2>1 DEF Kept
  <2>3. DOMAIN saved' \subseteq Params
    <3>1. DOMAIN ReadBack(nvram) = Params \cup Extra
      BY DEF ReadBack
    <3>2. QED
      BY <2>1, <3>1 DEF FilterReadOutput
  <2>4. TypeOK'
    BY <1>1, <2>1, <2>3 DEF TypeOK
  <2>5. QED
    BY <2>2, <2>4
<1>3. CASE \E names \in Requests : Get(names)
  <2>1. phase = "idle" /\ UNCHANGED <<nvram, phase, args, cache, saved, image>>
    BY <1>3 DEF Get
  <2>2. QED
    BY <1>1, <2>1 DEF TypeOK, Kept
<1>4. CASE \E given \in Given : Invoke(given)
  <2>1. PICK given \in Given : Invoke(given)
    BY <1>4
  <2>2. /\ phase = "idle" /\ Accepted(given) /\ phase' = "parsed" /\ args' = given
        /\ shown' = Empty /\ UNCHANGED <<nvram, cache>>
    BY <2>1 DEF Invoke
  <2>3. Inputs(given)
    BY <1>1, GivenInputs
  <2>4. (saved' = saved /\ image' = image) \/ (saved' = Empty /\ image' = Factory)
    BY <2>1 DEF Invoke
  <2>5. Kept'
    BY <1>1, <2>2, <2>3, <2>4, FactoryShape DEF Kept
  <2>6. /\ DOMAIN image' = Params /\ \A p \in Params : IsField(p, image'[p])
        /\ DOMAIN saved' \subseteq Params
    BY <1>1, <2>4, FactoryShape DEF TypeOK, Empty
  <2>7. TypeOK'
    BY <1>1, <2>2, <2>6 DEF TypeOK
  <2>8. QED
    BY <2>5, <2>7
<1>5. CASE ReadsDevice
  <2>1. /\ phase = "parsed" /\ phase' = "read" /\ cache' = ReadBack(nvram)
        /\ UNCHANGED <<nvram, args, saved, image, shown>>
    BY <1>5 DEF ReadsDevice
  <2>2. Kept'
    BY <1>1, <2>1 DEF Kept
  <2>3. ReadBack(nvram) # Empty
    <3>1. Inputs(args) /\ Accepted(args)
      BY <1>1, <2>1 DEF Kept, TypeOK
    <3>2. PICK k \in DOMAIN Merged(args) : TRUE
      <4>1. DOMAIN Merged(args) = {} => Merged(args) = [k \in {} |-> Text(0)]
        BY DEF Merged, Over
      <4>2. QED
        BY <3>1, <4>1 DEF Accepted, Empty
    <3>3. Params # {}
      BY <3>1, <3>2, MergedSound, KnownName
    <3>4. QED
      BY <3>3 DEF ReadBack, Empty
  <2>4. TypeOK'
    BY <1>1, <2>1, <2>3 DEF TypeOK
  <2>5. QED
    BY <2>2, <2>4
<1>6. CASE Writes
  <2>1. /\ phase = "read" /\ phase' = "idle" /\ cache' = Empty
        /\ UNCHANGED <<saved, image, shown>>
    BY <1>6 DEF Writes
  <2>2. Kept'
    BY <1>1, <2>1 DEF Kept
  <2>3. PICK late \in SUBSET {k \in DOMAIN AllParams : Known(k) /\ k \notin Params} :
          nvram' = Written(AllParams, late)
    BY <1>1, <1>6, WritesAll
  <2>4. DOMAIN nvram' = Params
    BY <2>3 DEF Written
  <2>5. \A p \in Params : IsField(p, nvram'[p])
    BY <1>1, <2>1, <2>3, WrittenField
  <2>6. TypeOK'
    BY <1>1, <2>1, <2>4, <2>5 DEF TypeOK
  <2>7. QED
    BY <2>2, <2>6
<1>7. CASE FactoryReset
  <2>1. phase = "idle" /\ nvram' = Factory /\ UNCHANGED <<phase, args, cache, saved, image>>
    BY <1>7 DEF FactoryReset
  <2>2. QED
    BY <1>1, <2>1, FactoryShape DEF TypeOK, Kept
<1>8. CASE \E w \in Foreign : ForeignWrite(w[1], w[2])
  <2>1. PICK w \in Foreign : ForeignWrite(w[1], w[2])
    BY <1>8
  <2>2. /\ phase = "idle" /\ nvram' = [nvram EXCEPT ![w[1]] = w[2]]
        /\ UNCHANGED <<phase, args, cache, saved, image>>
    BY <2>1 DEF ForeignWrite
  <2>3. DOMAIN nvram' = Params /\ \A p \in Params : IsField(p, nvram'[p])
    BY <1>1, <2>2, ForeignAssumption DEF TypeOK
  <2>4. QED
    BY <1>1, <2>2, <2>3 DEF TypeOK, Kept
<1>9. CASE UNCHANGED vars
  <2>1. UNCHANGED <<nvram, phase, args, cache, saved, image, shown>>
    BY <1>9 DEF vars
  <2>2. QED
    BY <1>1, <2>1 DEF TypeOK, Kept
<1>10. QED
  BY <1>1, <1>2, <1>3, <1>4, <1>5, <1>6, <1>7, <1>8, <1>9 DEF Next

LEMMA Holds == Spec => []IInv
BY Starts, Keeps, PTL DEF Spec

-----------------------------------------------------------------------------
(* Invariants. *)

\* Every field holds bytes of its own kind and length, whatever is set, reset
\* and written by others, and a process keeps only what it read.
THEOREM TypeCorrect == Spec => []TypeOK
<1>1. IInv => TypeOK
  BY DEF IInv
<1>2. QED
  BY <1>1, Holds, PTL

\* What `set` accepted is written whole: CreateSetDataPacket cannot fail on it
\* and Encode cuts nothing off.
THEOREM SetIsWhole == Spec => []ValidatedFits
<1>1. IInv => ValidatedFits
  BY AllSound DEF IInv, ValidatedFits
<1>2. QED
  BY <1>1, Holds, PTL

\* `get` shows, under every name and alias, what the device holds for it.
THEOREM ShownTruly == Spec => []ShownIsStored
<1>1. Init => ShownIsStored
  BY DEF Init, ShownIsStored, Empty
<1>2. IInv /\ ShownIsStored /\ [Next]_vars => ShownIsStored'
  <2>1. SUFFICES ASSUME Kept, ShownIsStored, [Next]_vars PROVE ShownIsStored'
    BY DEF IInv
  <2>2. shown' = Empty => ShownIsStored'
    BY DEF ShownIsStored, Empty
  <2>3. CASE Read \/ FactoryReset
    BY <2>2, <2>3 DEF Read, FactoryReset
  <2>4. CASE \E names \in Requests : Get(names)
    <3>1. PICK names \in Requests : Get(names)
      BY <2>4
    <3>2. Requestable(names) /\ shown' = Got(names, ReadBack(nvram)) /\ nvram' = nvram
      BY <3>1 DEF Get
    <3>3. DOMAIN shown' = ToSet(names)
      BY <3>2 DEF Got
    <3>4. ASSUME NEW k \in ToSet(names)
          PROVE  shown'[k] = Format(nvram'[Canonical(k)])
      <4>1. Known(k)
        BY <3>2 DEF Requestable, ToSet
      <4>2. Canonical(k) \in Params
        BY <4>1, KnownName
      <4>3. shown'[k] = ReadBack(nvram)[Canonical(k)]
        BY <3>2, <3>4 DEF Got
      <4>4. QED
        BY <3>2, <4>2, <4>3 DEF ReadBack
    <3>5. QED
      BY <3>3, <3>4 DEF ShownIsStored
  <2>5. CASE \E given \in Given : Invoke(given)
    BY <2>2, <2>5 DEF Invoke
  <2>6. CASE ReadsDevice \/ Writes
    <3>1. shown = Empty /\ shown' = shown
      BY <2>1, <2>6 DEF ReadsDevice, Writes, Kept
    <3>2. QED
      BY <2>2, <3>1
  <2>7. CASE \E w \in Foreign : ForeignWrite(w[1], w[2])
    BY <2>2, <2>7 DEF ForeignWrite
  <2>8. CASE UNCHANGED vars
    BY <2>1, <2>8 DEF vars, ShownIsStored
  <2>9. QED
    BY <2>1, <2>3, <2>4, <2>5, <2>6, <2>7, <2>8 DEF Next
<1>3. QED
  BY <1>1, <1>2, Holds, PTL DEF Spec

-----------------------------------------------------------------------------
(* What one `set` changes. *)

\* Once a `set` has read the device, only its write can follow.
LEMMA OnlyWrites ==
  ASSUME Next, phase = "read"
  PROVE  Writes
BY DEF Next, Read, Get, Invoke, ReadsDevice, FactoryReset, ForeignWrite

\* A parameter none of whose aliases is mentioned is written from its own
\* entry.
LEMMA OwnEntry ==
  ASSUME IInv, Next, phase = "read", NEW p \in Params,
         Names(p) \cap DOMAIN Merged(args) \subseteq {p}
  PROVE  /\ p \in DOMAIN AllParams /\ AllParams[p] \in Typed /\ Fits(p, AllParams[p])
         /\ nvram'[p] = Encode(p, AllParams[p])
<1>1. TypeOK /\ Kept /\ Writes
  BY OnlyWrites DEF IInv
<1>2. PICK late \in SUBSET {k \in DOMAIN AllParams : Known(k) /\ k \notin Params} :
        nvram' = Written(AllParams, late)
  BY <1>1, WritesAll
<1>3. PICK k \in DOMAIN AllParams :
        /\ Known(k) /\ Canonical(k) = p
        /\ Written(AllParams, late)[p] = Encode(p, AllParams[k])
        /\ k = p \/ (k \in DOMAIN Merged(args) /\ k \notin Params)
  BY <1>1, WrittenField
<1>4. k = p
  <2>1. SUFFICES ASSUME k \in DOMAIN Merged(args), k \notin Params
                 PROVE  FALSE
    BY <1>3
  <2>2. k \in DOMAIN Aliases /\ Aliases[k] = p
    BY <1>3, <2>1, KnownName
  <2>3. QED
    BY <2>1, <2>2 DEF Names
<1>5. QED
  BY <1>1, <1>2, <1>3, <1>4, AllSound

\* A `set` rewrites the whole NVRAM from text, and every parameter it does not
\* mention reads as it did before, a factory-fresh interface excepted.
THEOREM OthersKept == Spec => OthersReadTheSame
<1> DEFINE Step ==
      phase = "read" =>
        \A p \in Params :
          \/ Mentioned(p)
          \/ Format(nvram'[p]) = Format(nvram[p])
          \/ p = "interface" /\ nvram[p] = Number(128)
<1>1. IInv /\ [Next]_vars => [Step]_vars
  <2>1. SUFFICES ASSUME IInv, Next, phase = "read", NEW p \in Params, ~Mentioned(p),
                        ~(p = "interface" /\ nvram[p] = Number(128))
                 PROVE  Format(nvram'[p]) = Format(nvram[p])
    OBVIOUS
  <2>2. Names(p) \cap DOMAIN Merged(args) = {} /\ p \notin DOMAIN Merged(args)
    BY <2>1 DEF Mentioned, Names
  <2>3. nvram'[p] = Encode(p, AllParams[p])
    BY <2>1, <2>2, OwnEntry
  <2>4. AllParams[p] = Format(nvram[p])
    BY <2>1, <2>2, AllSound DEF IInv
  <2>5. p \in DOMAIN Table /\ IsField(p, nvram[p])
    BY <2>1, ParamsAssumption DEF IInv, TypeOK
  <2>6. QED
    BY <2>3, <2>4, <2>5, Rewritten, FormatField
<1>2. QED
  BY <1>1, Holds, PTL DEF Spec, OthersReadTheSame

\* A parameter named by its own name only ends up with the value of the last
\* layer that names it, flags above the file.
THEOREM LayersInOrder == Spec => LastLayerWins
<1> DEFINE Step ==
      phase = "read" =>
        \A p \in Params :
          Names(p) \cap DOMAIN Merged(args) = {p} =>
            nvram'[p] = Encode(p, IF p \in DOMAIN args.flags THEN args.flags[p] ELSE Parsed(Source(args))[p])
<1>1. IInv /\ [Next]_vars => [Step]_vars
  <2>1. SUFFICES ASSUME IInv, Next, phase = "read", NEW p \in Params,
                        Names(p) \cap DOMAIN Merged(args) = {p}
                 PROVE  nvram'[p] = Encode(p, IF p \in DOMAIN args.flags THEN args.flags[p]
                                              ELSE Parsed(Source(args))[p])
    OBVIOUS
  <2>2. nvram'[p] = Encode(p, AllParams[p])
    BY <2>1, OwnEntry
  <2>3. AllParams[p] = Merged(args)[p] /\ p \in DOMAIN Merged(args)
    BY <2>1, AllSound DEF IInv
  <2>4. Merged(args)[p] = IF p \in DOMAIN args.flags THEN args.flags[p] ELSE Parsed(Source(args))[p]
    BY <2>3 DEF Merged, Over
  <2>5. QED
    BY <2>2, <2>3, <2>4
<1>2. QED
  BY <1>1, Holds, PTL DEF Spec, LastLayerWins

\* After a `set` the interface is one the firmware can bring up, unless the
\* user asked for another: wireless with a network name, else wired.
THEOREM InterfaceComesUp == Spec => InterfaceUsable
<1> DEFINE Step ==
      phase = "read" /\ "interface" \in Params /\ ~Mentioned("interface")
      => /\ nvram'["interface"] # Number(128)
         /\ nvram["interface"] = Number(128) =>
              nvram'["interface"] = Number(IF "wireless_SSID" \in Params /\ Mentioned("wireless_SSID") THEN 0 ELSE 1)
<1>1. IInv /\ [Next]_vars => [Step]_vars
  <2>1. SUFFICES ASSUME IInv, Next, phase = "read", "interface" \in Params, ~Mentioned("interface")
                 PROVE  /\ nvram'["interface"] # Number(128)
                        /\ nvram["interface"] = Number(128) =>
                             nvram'["interface"]
                               = Number(IF "wireless_SSID" \in Params /\ Mentioned("wireless_SSID") THEN 0 ELSE 1)
    OBVIOUS
  <2>2. /\ Names("interface") \cap DOMAIN Merged(args) = {}
        /\ "interface" \notin DOMAIN Merged(args)
    BY <2>1 DEF Mentioned, Names
  <2>3. /\ AllParams["interface"] \in Typed /\ Fits("interface", AllParams["interface"])
        /\ nvram'["interface"] = Encode("interface", AllParams["interface"])
    BY <2>1, <2>2, OwnEntry
  <2>4. "interface" \in DOMAIN Table /\ IsField("interface", nvram["interface"])
    BY <2>1, ParamsAssumption DEF IInv, TypeOK
  <2>5. CASE nvram["interface"] = Number(128)
    <3>1. AllParams["interface"] = Number(IF "wireless_SSID" \in DOMAIN Merged(args) THEN 0 ELSE 1)
      BY <2>1, <2>2, <2>5, AllSound DEF IInv
    <3>2. Encode("interface", AllParams["interface"]) = AllParams["interface"]
      BY <2>3, <2>4, <3>1, EncodeFits DEF Number, Value
    <3>3. "wireless_SSID" \in DOMAIN Merged(args)
            <=> "wireless_SSID" \in Params /\ Mentioned("wireless_SSID")
      <4>1. Names("wireless_SSID") = {"wireless_SSID"}
        BY DEF Names, Aliases
      <4>2. "wireless_SSID" \in DOMAIN Merged(args) => "wireless_SSID" \in Params
        <5>1. SUFFICES ASSUME "wireless_SSID" \in DOMAIN Merged(args) PROVE "wireless_SSID" \in Params
          OBVIOUS
        <5>2. Known("wireless_SSID")
          BY <2>1, <5>1, MergedSound DEF IInv, TypeOK, Kept
        <5>3. QED
          BY <5>2 DEF Known, Aliases
      <4>3. QED
        BY <4>1, <4>2 DEF Mentioned
    <3>4. QED
      BY <2>3, <3>1, <3>2, <3>3 DEF Number, Value
  <2>6. CASE nvram["interface"] # Number(128)
    <3>1. AllParams["interface"] = Format(nvram["interface"])
      BY <2>1, <2>2, <2>6, AllSound DEF IInv
    <3>2. nvram["interface"].sort # "text"
      BY <2>4 DEF IsField, Fits, SortOf, Table, Row
    <3>3. Format(nvram["interface"]) = nvram["interface"]
      BY <2>4, <3>2, FormatField
    <3>4. QED
      BY <2>3, <2>4, <2>6, <3>1, <3>3, Rewritten
  <2>7. QED
    BY <2>5, <2>6
<1>2. QED
  BY <1>1, Holds, PTL DEF Spec, InterfaceUsable

-----------------------------------------------------------------------------
(* A backup. *)

\* The file of a saved output parses into what was saved, and into what lines
\* in the texts of the device name: one entry for every parameter saved, its
\* first line trimmed unless such a line names it too.
LEMMA ParsedBackup ==
  ASSUME TypeOK, Kept
  PROVE  /\ DOMAIN saved \subseteq DOMAIN Parsed(Lines(saved))
         /\ DOMAIN Parsed(Lines(saved)) \subseteq DOMAIN saved \cup Overruled(image)
         /\ \A p \in DOMAIN saved \ Overruled(image) : Parsed(Lines(saved))[p] = Trim(FirstLine(saved[p]))
<1>1. /\ Lined(Lines(saved))
      /\ \A p \in DOMAIN saved : \E i \in DOMAIN Lines(saved) : Lines(saved)[i] = <<p, FirstLine(saved[p])>>
  BY SavedLines
<1>2. DOMAIN Parsed(Lines(saved)) = {Key(Lines(saved)[i]) : i \in DOMAIN Lines(saved)}
  BY DEF Parsed
<1>3. ASSUME NEW i \in DOMAIN Lines(saved), Key(Lines(saved)[i]) \notin Overruled(image)
      PROVE  \E p \in DOMAIN saved : Lines(saved)[i] = <<p, FirstLine(saved[p])>>
  <2>1. PICK p \in DOMAIN saved :
          \/ Lines(saved)[i] = <<p, FirstLine(saved[p])>>
          \/ \E j \in DOMAIN Rest(saved[p]) : Lines(saved)[i] = Rest(saved[p])[j]
    BY SavedLines
  <2>2. ASSUME NEW j \in DOMAIN Rest(saved[p]), Lines(saved)[i] = Rest(saved[p])[j]
        PROVE  FALSE
    <3>1. p \in Params /\ saved[p] = Format(image[p])
      BY SavedShape
    <3>2. Key(Rest(saved[p])[j]) \in Overruled(image)
      BY <3>1 DEF Overruled
    <3>3. QED
      BY <1>3, <2>2, <3>2
  <2>3. QED
    BY <2>1, <2>2
<1>4. DOMAIN saved \subseteq DOMAIN Parsed(Lines(saved))
  BY <1>1, <1>2 DEF Key
<1>5. DOMAIN Parsed(Lines(saved)) \subseteq DOMAIN saved \cup Overruled(image)
  BY <1>2, <1>3 DEF Key
<1>6. ASSUME NEW p \in DOMAIN saved \ Overruled(image)
      PROVE  Parsed(Lines(saved))[p] = Trim(FirstLine(saved[p]))
  <2>1. PICK i \in DOMAIN Lines(saved) :
          Key(Lines(saved)[i]) = p /\ Parsed(Lines(saved))[p] = Trim(Lines(saved)[i][2])
    BY <1>1, <1>4, ParsedLine
  <2>2. Lines(saved)[i] = <<p, FirstLine(saved[p])>>
    BY <1>3, <2>1 DEF Key
  <2>3. QED
    BY <2>1, <2>2
<1>7. QED
  BY <1>4, <1>5, <1>6

\* Given to `set` on a device fresh from a factory reset, a backup rebuilds
\* every field that holds a plain value, unless a line in another text of the
\* device names that parameter, and a factory-fresh interface excepted.
THEOREM BackupRestores == Spec => RestoreRebuilds
<1> DEFINE Step ==
      phase = "read" /\ args = [NoArgs EXCEPT !.config = TRUE, !.file = Lines(saved)] /\ nvram = Factory
      => \A p \in Printable(image) :
           \/ nvram'[p] = image[p]
           \/ p = "interface" /\ image[p] = Number(128)
           \/ Names(p) \cap Overruled(image) # {}
<1>1. IInv /\ [Next]_vars => [Step]_vars
  <2>1. SUFFICES ASSUME IInv, Next, phase = "read", nvram = Factory,
                        args = [NoArgs EXCEPT !.config = TRUE, !.file = Lines(saved)],
                        NEW p \in Printable(image),
                        ~(p = "interface" /\ image[p] = Number(128)),
                        Names(p) \cap Overruled(image) = {}
                 PROVE  nvram'[p] = image[p]
    OBVIOUS
  <2>2. TypeOK /\ Kept
    BY <2>1 DEF IInv
  <2>3. p \in Params /\ image[p].form = "plain" /\ p \in DOMAIN Table /\ IsField(p, image[p])
    BY <2>1, <2>2, ParamsAssumption DEF Printable, TypeOK
  <2>4. /\ Format(image[p]) = image[p] /\ image[p] \in Typed
        /\ Encode(p, image[p]) = image[p]
    <3>1. Format(image[p]) = image[p] /\ Format(image[p]) \in Typed
      BY <2>3, FormatField
    <3>2. Encode(p, Format(image[p])) = Format(image[p])
      BY <2>3, Rewritten
    <3>3. QED
      BY <3>1, <3>2
  <2>5. /\ Source(args) = Lines(saved)
        /\ DOMAIN args.flags = {}
    BY <2>1 DEF NoArgs, Source, Empty
  <2>6. /\ DOMAIN saved \subseteq DOMAIN Merged(args)
        /\ DOMAIN Merged(args) \subseteq DOMAIN saved \cup Overruled(image)
        /\ \A k \in DOMAIN saved \ Overruled(image) : Merged(args)[k] = Trim(FirstLine(saved[k]))
    BY <2>2, <2>5, ParsedBackup DEF Merged, Over
  <2>7. Names(p) \cap DOMAIN Merged(args) \subseteq {p}
    BY <2>1, <2>2, <2>6, TableRows, ParamsAssumption DEF Names, TypeOK
  <2>8. nvram'[p] = Encode(p, AllParams[p])
    BY <2>1, <2>3, <2>7, OwnEntry
  <2>9. CASE p \in DOMAIN saved
    <3>1. AllParams[p] = Trim(FirstLine(saved[p]))
      BY <2>1, <2>2, <2>6, <2>9, AllSound DEF Names
    <3>2. saved[p] = image[p]
      BY <2>2, <2>4, <2>9, SavedShape
    <3>3. Trim(FirstLine(image[p])) = image[p]
      BY <2>3, <2>4, TrimTyped, PrintedTyped
    <3>4. QED
      BY <2>4, <2>8, <3>1, <3>2, <3>3
  <2>10. CASE p \notin DOMAIN saved
    <3>1. image[p] = Table[p].default
      BY <2>2, <2>3, <2>4, <2>10, SavedShape
    <3>2. nvram[p] = image[p] /\ Format(nvram[p]) = image[p]
      BY <2>1, <2>3, <2>4, <3>1 DEF Factory
    <3>3. AllParams[p] = image[p]
      BY <2>1, <2>2, <2>3, <2>6, <2>10, <3>2, AllSound DEF Names
    <3>4. QED
      BY <2>4, <2>8, <3>3
  <2>11. QED
    BY <2>9, <2>10
<1>2. QED
  BY <1>1, Holds, PTL DEF Spec, RestoreRebuilds

\* Where others write only what prints as a default or within the rules, every
\* field does: the rules `set` validates survive the encoding.
Sensible ==
  /\ \A p \in Params : Obeys(p, nvram[p])
  /\ \A p \in Params : Obeys(p, image[p])

\* An encoded value follows the rules of its name when the value does.
LEMMA EncodedRule ==
  ASSUME NEW p \in DOMAIN Table, NEW v \in Typed, Fits(p, v), Rule(p, v)
  PROVE  Obeys(p, Encode(p, v))
<1>1. /\ Encode(p, v).n = v.n
      /\ v.form = "plain" => Encode(p, v) = v
      /\ Format(Encode(p, v)) = Encode(p, v)
  BY EncodeFits
<1>2. Rule(p, Encode(p, v))
  BY <1>1 DEF Rule
<1>3. QED
  BY <1>1, <1>2 DEF Obeys

LEMMA FactoryObeys == \A p \in Params : Obeys(p, Factory[p])
BY FactoryShape DEF Obeys

\* A `set` leaves every field a default or within the rules.
LEMMA WritesSensibly ==
  ASSUME IInv, Sensible, Writes, NEW p \in Params
  PROVE  Obeys(p, nvram'[p])
<1>1. TypeOK /\ Kept /\ phase = "read" /\ p \in DOMAIN Table
  BY ParamsAssumption DEF IInv, Writes
<1>2. PICK late \in SUBSET {k \in DOMAIN AllParams : Known(k) /\ k \notin Params} :
        nvram' = Written(AllParams, late)
  BY <1>1, WritesAll
<1>3. PICK k \in DOMAIN AllParams :
        /\ Known(k) /\ Canonical(k) = p
        /\ Written(AllParams, late)[p] = Encode(p, AllParams[k])
        /\ k = p \/ (k \in DOMAIN Merged(args) /\ k \notin Params)
  BY <1>1, <1>2, WrittenField
<1>4. nvram'[p] = Encode(p, AllParams[k]) /\ AllParams[k] \in Typed /\ Fits(p, AllParams[k])
  BY <1>1, <1>2, <1>3, AllSound
<1>5. CASE k \in DOMAIN Merged(args)
  <2>1. Rule(k, AllParams[k])
    BY <1>1, <1>5, AllSound, MergedSound DEF TypeOK, Kept, Valid
  <2>2. Rule(p, AllParams[k])
    <3>1. CASE k = p
      BY <2>1, <3>1
    <3>2. CASE k # p
      <4>1. p = "server_address"
        BY <1>3, <3>2, KnownName
      <4>2. QED
        BY <4>1 DEF Rule
    <3>3. QED
      BY <3>1, <3>2
  <2>3. QED
    BY <1>1, <1>4, <2>2, EncodedRule
<1>6. CASE k \notin DOMAIN Merged(args)
  <2>1. k = p
    BY <1>3, <1>6
  <2>2. CASE p = "interface"
    <3>1. Rule(p, AllParams[k])
      BY <2>2 DEF Rule
    <3>2. QED
      BY <1>1, <1>4, <3>1, EncodedRule
  <2>3. CASE p # "interface"
    <3>1. AllParams[k] = Format(nvram[p])
      BY <1>1, <1>6, <2>1, <2>3, AllSound
    <3>2. nvram'[p] = Format(nvram[p]) /\ Format(nvram'[p]) = Format(nvram[p])
      BY <1>1, <1>4, <3>1, Rewritten, FormatField DEF TypeOK
    <3>3. QED
      BY <3>2 DEF Sensible, Obeys
  <2>4. QED
    BY <2>2, <2>3
<1>7. QED
  BY <1>5, <1>6

LEMMA KeepsSensible ==
  ASSUME ForeignSensible, IInv, Sensible, [Next]_vars
  PROVE  Sensible'
<1> USE DEF Sensible
<1>1. CASE Read
  BY <1>1 DEF Read
<1>2. CASE \E names \in Requests : Get(names)
  BY <1>2 DEF Get
<1>3. CASE \E given \in Given : Invoke(given)
  BY <1>3, FactoryObeys DEF Invoke
<1>4. CASE ReadsDevice
  BY <1>4 DEF ReadsDevice
<1>5. CASE Writes
  <2>1. image' = image
    BY <1>5 DEF Writes
  <2>2. QED
    BY <1>5, <2>1, WritesSensibly
<1>6. CASE FactoryReset
  BY <1>6, FactoryObeys DEF FactoryReset
<1>7. CASE \E w \in Foreign : ForeignWrite(w[1], w[2])
  BY <1>7 DEF ForeignWrite, ForeignSensible, IInv, TypeOK
<1>8. CASE UNCHANGED vars
  BY <1>8 DEF vars
<1>9. QED
  BY <1>1, <1>2, <1>3, <1>4, <1>5, <1>6, <1>7, <1>8 DEF Next

\* If others write only what prints as a default or within the rules, the file a
\* `read` wrote is accepted by `set`, whatever the device went through, unless a
\* text of it begins or ends with a blank, holds a line break or goes on after a
\* zero byte.
THEOREM BackupParses == Spec => []BackupAccepted
<1> DEFINE Ruled == ForeignSensible => Sensible
<1>1. Init => Ruled
  BY FactoryObeys DEF Init, Sensible
<1>2. IInv /\ Ruled /\ [Next]_vars => Ruled'
  BY KeepsSensible
<1>3. IInv /\ Ruled => BackupAccepted
  <2>1. SUFFICES ASSUME TypeOK, Kept, Sensible, Printable(image) = Params
                 PROVE  Parses(Lines(saved))
    BY DEF IInv, BackupAccepted
  <2>2. DOMAIN saved \subseteq Params
    BY <2>1 DEF TypeOK
  <2>3. ASSUME NEW p \in DOMAIN saved
        PROVE  /\ Valid(p, Trim(FirstLine(saved[p]))) /\ Known(p) /\ Canonical(p) = p
               /\ Rest(saved[p]) = <<>>
    <3>1. p \in Params /\ p \in DOMAIN Table /\ IsField(p, image[p]) /\ image[p].form = "plain"
      BY <2>1, <2>2, ParamsAssumption DEF TypeOK, Printable
    <3>2. saved[p] = image[p] /\ image[p] \in Typed /\ Format(image[p]) = image[p]
      BY <2>1, <2>3, <3>1, SavedShape, FormatField
    <3>3. Format(image[p]) # Table[p].default
      BY <2>1, <2>3, SavedShape
    <3>4. Rule(p, image[p])
      BY <2>1, <3>1, <3>2, <3>3 DEF Sensible, Obeys
    <3>5. Trim(FirstLine(saved[p])) = image[p] /\ Rest(saved[p]) = <<>>
      BY <3>1, <3>2, TrimTyped, PrintedTyped
    <3>6. QED
      BY <3>1, <3>4, <3>5 DEF Valid, IsField, Known, Canonical
  <2>4. \A i \in DOMAIN Lines(saved) :
          \E p \in DOMAIN saved : Lines(saved)[i] = <<p, FirstLine(saved[p])>>
    BY <2>1, <2>3, SavedLines
  <2>5. QED
    BY <2>3, <2>4 DEF Parses, Key
<1> HIDE DEF Ruled
<1>4. QED
  BY <1>1, <1>2, <1>3, Holds, PTL DEF Spec
=============================================================================
