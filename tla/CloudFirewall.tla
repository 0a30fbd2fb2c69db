--------------------------- MODULE CloudFirewall ----------------------------
(***************************************************************************)
(* manage-hetzner-firewall.py: the SSH rule of the cloud firewall follows  *)
(* the network's state.  The rule is open or not; all other rules stay.    *)
(* A failed call of the cloud ends the process, which is then restarted.   *)
(***************************************************************************)
EXTENDS Integers, Sequences

CONSTANTS
  MaxOrders,   (* bound: changes of the network's state                    *)
  MaxFailures  (* bound: failed calls of the cloud                         *)

VARIABLES
  state,     (* key network:state                                          *)
  script,    (* the process: step and the state it works with              *)
  ssh,       (* the cloud's SSH rule: present, or absent                   *)
  messages,  (* messages of network:state for the process                  *)
  orders,    (* changes so far                                             *)
  failures,  (* failed calls so far                                        *)
  missed     (* history: an order fell between the reading of the key and  *)
             (* the subscription                                           *)

fvars == <<state, script, ssh, messages, orders, failures, missed>>

VpnStatus == {"on", "team", "team-no-vulnbox", "off"}

TypeOK == /\ state \in VpnStatus \cup {"unset"} /\ ssh \in BOOLEAN
          /\ script.pc \in {"start", "first", "subscribe", "listen", "update"}

Init ==
  /\ state \in VpnStatus \cup {"unset"} /\ ssh \in BOOLEAN
  /\ script = [pc |-> "start", state |-> "off"] /\ messages = <<>>
  /\ orders = 0 /\ failures = 0 /\ missed = FALSE

(* External: VPNControl.set_state of the control server.                   *)
SetState(s) ==
  /\ orders < MaxOrders /\ orders' = orders + 1
  /\ state' = s
  /\ messages' = IF script.pc \in {"listen", "update"} THEN Append(messages, s) ELSE messages
  /\ missed' = (missed \/ script.pc \in {"first", "subscribe"})
  /\ UNCHANGED <<script, ssh, failures>>

(* main                                                                    *)
ReadState ==
  /\ script.pc = "start"
  /\ state' = IF state = "unset" THEN "off" ELSE state
  /\ script' = [pc |-> "first", state |-> state']
  /\ missed' = FALSE
  /\ UNCHANGED <<ssh, messages, orders, failures>>

Subscribe ==
  /\ script.pc = "subscribe"
  /\ script' = [script EXCEPT !.pc = "listen"]
  /\ UNCHANGED <<state, ssh, messages, orders, failures, missed>>

Listen ==
  /\ script.pc = "listen" /\ messages # <<>>
  /\ script' = [pc |-> "update", state |-> Head(messages)]
  /\ messages' = Tail(messages)
  /\ UNCHANGED <<state, ssh, orders, failures, missed>>

(* Mutant: the rule is only ever added.                                    *)
SshRuleAdd == ssh \/ script.state \in {"on", "team"}

SshRule == IF (script.state \in {"on", "team"}) = ssh THEN ssh ELSE ~ssh

update_state ==
  /\ script.pc \in {"first", "update"}
  /\ ssh' = SshRule
  /\ script' = [script EXCEPT !.pc = IF @ = "first" THEN "subscribe" ELSE "listen"]
  /\ UNCHANGED <<state, messages, orders, failures, missed>>

UpdateFails ==
  /\ script.pc \in {"first", "update"} /\ failures < MaxFailures
  /\ failures' = failures + 1
  /\ script' = [script EXCEPT !.pc = "start"] /\ messages' = <<>>
  /\ UNCHANGED <<state, ssh, orders, missed>>

Next ==
  \/ \E s \in VpnStatus : SetState(s)
  \/ ReadState \/ Subscribe \/ Listen \/ update_state \/ UpdateFails
Spec == Init /\ [][Next]_fvars

-----------------------------------------------------------------------------
(* When all messages are heard, SSH is open in the cloud exactly if teams  *)
(* may reach their vulnboxes, after any sequence of orders, failures and   *)
(* restarts, unless an order fell between the reading of the key and the   *)
(* subscription (main).                                                    *)
CloudFollows ==
  script.pc = "listen" /\ messages = <<>> /\ ~missed => (ssh <=> state \in {"on", "team"})
=============================================================================
