---------------------------- MODULE DeviceCalls ----------------------------
(***************************************************************************)
(* What the calls of a client on one device promise its user, without any  *)
(* packet: each is carried out at most once, between its start and its     *)
(* return, and its verdict says whether it was.  A call that runs out of   *)
(* time says nothing, and a set may then still be carried out; that is all *)
(* that is left open.  Only sets change the parameters, and only those     *)
(* they name; another controller may write some as well, and a set may     *)
(* undo what that one wrote before.                                        *)
(***************************************************************************)
CONSTANTS
  Params, Vals, \* parameter names and values
  Calls,      \* the operations
  Blind,      \* those that return a success whether the device heard or not
  Foreign     \* the parameters another controller may write

VARIABLES
  call,     \* the call in progress, or "none"
  config,   \* what the latest set gives
  done,     \* the call in progress has been carried out
  verdict,  \* how the latest call returned, or "none"
  late,     \* a set whose call is over may still be carried out
  mem,      \* the device's parameters
  touched   \* those another controller has written

vars == <<call, config, done, verdict, late, mem, touched>>

Configs == UNION {[S -> Vals] : S \in SUBSET Params}

Init ==
  /\ call = "none" /\ config \in Configs /\ done = FALSE /\ verdict = "none" /\ late = FALSE
  /\ mem \in [Params -> Vals] /\ touched = {}

Starts ==
  /\ call = "none" /\ ~late
  /\ call' \in Calls /\ config' \in Configs /\ (call' # "set" => config' = config)
  /\ done' = FALSE /\ verdict' = "none"
  /\ UNCHANGED <<late, mem, touched>>

SetsMemory ==
  mem' \in {new \in [Params -> Vals] :
              \A p \in Params : IF p \in DOMAIN config THEN new[p] = config[p]
                                ELSE new[p] = mem[p] \/ p \in touched}

CarriedOut ==
  /\ call # "none" /\ ~done /\ done' = TRUE
  /\ IF call = "set" THEN SetsMemory ELSE UNCHANGED mem
  /\ UNCHANGED <<call, config, verdict, late, touched>>

Returns(v) == call' = "none" /\ done' = FALSE /\ verdict' = v /\ UNCHANGED <<config, mem, touched>>

Succeeds == call # "none" /\ (done \/ call \in Blind) /\ Returns("ok") /\ UNCHANGED late

Fails == call # "none" /\ ~done /\ Returns("error") /\ UNCHANGED late

(* The deadline, or a broken socket. *)
GivesUp ==
  /\ call # "none" /\ \E v \in {"unknown", "assumed", "broken"} :
       (v = "assumed" => call = "reset") /\ Returns(v)
  /\ late' \in {FALSE, call = "set" /\ ~done}

(* A call that could not be made. *)
NotSent == call = "none" /\ ~late /\ Returns("error") /\ UNCHANGED late

ComesLate == late /\ SetsMemory /\ late' = FALSE /\ UNCHANGED <<call, config, done, verdict, touched>>

NeverComes == late /\ late' = FALSE /\ UNCHANGED <<call, config, done, verdict, mem, touched>>

ElseWritten ==
  /\ \E p \in Foreign \ touched, v \in Vals :
       mem' = [mem EXCEPT ![p] = v] /\ touched' = touched \cup {p}
  /\ UNCHANGED <<call, config, done, verdict, late>>

Next ==
  \/ Starts \/ CarriedOut \/ Succeeds \/ Fails \/ GivesUp \/ NotSent
  \/ ComesLate \/ NeverComes \/ ElseWritten

Spec == Init /\ [][Next]_vars

=============================================================================
