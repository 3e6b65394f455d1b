-------------------------- MODULE MCConfigPipeline --------------------------
EXTENDS ConfigPipeline

NetworkParams == {"interface", "wireless_keylen", "server_address", "wireless_SSID", "wireless_wep_key"}

Padded(n)  == Value("number", n, "padded")
Mapped(n)  == Value("address", n, "padded")
Blank(n)   == Value("text", n, "blank")

\* Texts with a break: before a byte of another line, and before a line that
\* looks like one of a file.
Torn(n)   == Value("text", n, "torn")
LineBreaks ==
  [ torn   |-> [bytes |-> 2,  lines |-> <<NoPair>>],
    naming |-> [bytes |-> 12, lines |-> <<<<"interface", Number(1)>>>>] ]
NoBreaks == [form \in {} |-> 0]

\* One line each: good and bad values for every kind of field and rule.
Single ==
  { <<"interface", Padded(1)>>, <<"interface", Number(128)>>, <<"interface", Number(256)>>,
    <<"wireless_keylen", Number(5)>>, <<"wireless_keylen", Number(0)>>,
    <<"server_address", Address(1)>>, <<"slimserver_address", Mapped(2)>>,
    <<"wireless_SSID", Blank(33)>>, <<"wireless_SSID", Text(33)>>,
    <<"wireless_wep_key", Text(13)>>, <<"wireless_wep_key", Text(14)>>,
    <<"offset_300", Text(4)>>, NoPair }

SomeFiles == {<<l>> : l \in Single}
  \cup { <<<<"server_address", Address(1)>>, <<"slimserver_address", Address(2)>>>>,
         <<<<"squeezecenter_address", Address(2)>>, <<"squeezecenter_address", Address(1)>>>>,
         <<<<"wireless_keylen", Number(13)>>, <<"wireless_keylen", Number(5)>>>> }

SomeStdins == {<<<<"wireless_SSID", Text(32)>>>>, <<<<"slimserver_address", Address(1)>>>>}

Flag(p, v) == [k \in {p} |-> v]
SomeFlags == { Empty, Flag("server_address", Address(2)), Flag("wireless_SSID", Blank(1)),
               Flag("interface", Number(0)), Flag("wireless_keylen", Padded(5)),
               Flag("wireless_SSID", Torn(3)) }

SomeRequests == { <<"slimserver_address">>, <<"wireless_SSID", "squeezecenter_address">>,
                  <<"server_address", "slimserver_address">>, <<"interface", "hostname">> }

SomeForeign == { <<"wireless_wep_key", Value("text", 13, "nul")>>,
                 <<"wireless_SSID", Value("text", 20, "naming")>> }

UnknownOffsets == {"offset_300"}

\* For the run about aliases: one file, nothing else.
AliasFile == {<<<<"slimserver_address", Address(1)>>>>}
NoFlags == {Empty}
=============================================================================
