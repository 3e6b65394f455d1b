---------------------------- MODULE MCCliProcess ----------------------------
(* Instances of CliProcess for TLC. *)
EXTENDS CliProcess

Sound(i) ==
  /\ i.parses /\ (WritesResult(i.cmd) \/ i.format = "default") /\ i.format # "both"
  /\ i.iface \notin {"both", "unnamed"} /\ (i.iface = "named" => i.usable)

(* Every ill-formed invocation, and every sound one: of those that go to    *)
(* the network, one per choice of flags that the rest of the run can tell.  *)
Considered ==
  {i \in AllInvocations :
     /\ i.cmd \notin {"set", "set --reboot"} => ~i.piped /\ i.wrong # "source"
     /\ "input" \notin {Plan(i.cmd)[k] : k \in 1..Len(Plan(i.cmd))} => i.wrong = "nothing"
     /\ Sound(i) /\ Plan(i.cmd) # <<>> =>
          /\ i.format = "default" /\ i.usable /\ i.iface \in {"default", "named"}
          /\ i.iface = "named" => i.cmd \in {"reboot", "interfaces"}}

=============================================================================
