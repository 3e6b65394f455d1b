-------------------------- MODULE MCWireExchange ---------------------------
(* An instance of WireExchange for TLC: a byte counts to 16. *)
EXTENDS WireExchange

(* lan_ip_mode, lan_network_address and a hostname of three letters. *)
MCTable == 4 :> 1 @@ 5 :> 4 @@ 17 :> 3
MCUnknown == 40 :> <<0, 9>>
MCDiscovery == << <<12, <<1>>>>, <<2, [i \in 1..17 |-> i % 16]>>, <<13, <<1, 2, 3>>>> >>
MCNetwork == << <<5, <<1, 0, 0, 9>>>>, <<6, <<15, 15, 15, 0>>>>, <<7, <<0, 0, 0, 0>>>> >>
MCUUID == <<13, <<1, 2, 3>>>>
MCMessage == <<3, <<8, 8>>>>

MCMemories ==
  {4 :> m @@ 5 :> <<1, 0, 0, 9>> @@ 17 :> h : m \in {<<>>, <<1>>}, h \in {<<>>, <<5>>, <<5, 6, 7>>}}

Values ==
  UNION {[named -> {<<0>>, <<2, 0, 0, 0>>, <<6>>, <<6, 6, 6>>, <<6, 0, 6>>, <<>>}] : named \in SUBSET DOMAIN Table}
Fitting == {v \in Values : \A o \in DOMAIN v :
              IF o = 17 THEN Len(v[o]) < 4 /\ v[o] # <<0>> ELSE Len(v[o]) = Table[o]}
MCExchanges ==
  {e \in [op : Operations, asked : SUBSET DOMAIN Table, values : Fitting, stranger : BOOLEAN,
          refused : BOOLEAN, fault : Faults] :
     /\ e.op # "get" => e.asked = {}
     /\ e.op # "set" => e.values = <<>>
     /\ e.op = "discover" => ~e.refused
     /\ e.op # "get" => e.fault \in {"none", "cut"}
     /\ e.stranger => e.op \in {"get", "set"} /\ e.fault = "none"}

=============================================================================
