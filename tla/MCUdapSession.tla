--------------------------- MODULE MCUdapSession ---------------------------
(* Instances of UdapSession for TLC. *)
EXTENDS UdapSessionInv, TLC

FindScripts == {s \in CliScripts : s[1] = "find"}
DiscoverInfo == { <<"discover", "getuuid", "getip">> }
TwoSets == { <<"set", "set">> }
SetOnly == { <<"find", "getall", "set">> }
(* What a library user may ask of one client and one Device, in any order. *)
LibraryScripts ==
  { <<"set", "getall">>, <<"get", "set">>, <<"set", "set">>, <<"getall", "reset", "getall">>,
    <<"discover", "set", "discover">>, <<"reset", "discover", "set">> }
Refusing == {"AdvDisc", "GetData"}
SomeReject == {"SetData"}
Acting == {"GetData", "SetData", "Reset"}

=============================================================================
