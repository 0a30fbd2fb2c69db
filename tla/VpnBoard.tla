------------------------------ MODULE VpnBoard ------------------------------
(***************************************************************************)
(* The daemon that reads the WireGuard status of the teams, writes it into *)
(* the database and creates the VPN board (vpnboard/*.py), with its thread *)
(* that follows the network state and the bans in Redis.                   *)
(*                                                                         *)
(* mode "single" is --check-wg --complete on one router; in mode "split"   *)
(* the router runs --check-wg and another host runs --complete.            *)
(***************************************************************************)
EXTENDS Integers, FiniteSets, Sequences

CONSTANTS
  Teams,       (* team ids                                                 *)
  MaxEvents    (* bound: changes of peers, network state and bans, other   *)
               (* writers, failed transactions, lost Redis connections     *)

VARIABLES
  mode,
  wg,      (* peers of the interface of a team, None if it has none        *)
  row,     (* the WireGuard columns of table teams                         *)
  d,       (* the daemons: step, rows they loaded, network open at start   *)
  board,   (* files of the board: the HTML page and two lists of teams     *)
  net,     (* keys network:state and network:banned                        *)
  thr,     (* VpnStatusThread                                              *)
  queue,   (* messages for it                                              *)
  count,   (* bounded events so far                                        *)
  calm     (* history: nothing changed since a daemon loaded the rows; no  *)
           (* order was missed                                             *)

vars == <<mode, wg, row, d, board, net, thr, queue, count, calm>>

Daemons == {"wg", "main"}
Boxes == {"vulnbox", "testbox"}   (* the router counts like the testbox *)
Peers == Boxes \cup {"player"}
None == <<>>
Peer == {"absent", "old", "fresh"}  (* old: no recent handshake, or none *)
NoRow == [vulnbox |-> FALSE, boxes |-> FALSE, count |-> 0, ever |-> FALSE]
Idle == [pc |-> "idle", rows |-> [t \in Teams |-> NoRow], open |-> FALSE]
Row == [vulnbox: BOOLEAN, boxes: BOOLEAN, count: 0..Cardinality(Peers), ever: BOOLEAN]

(* What the daemon does: --check-wg, --complete.                           *)
ChecksWg(x) == x = "wg" \/ mode = "single"
Complete(x) == x = "main"
Runs(x) == x = "main" \/ mode = "split"

TypeOK ==
  /\ \A t \in Teams : wg[t] = None \/ wg[t] \in [Peers -> Peer]
  /\ row \in [Teams -> Row]
  /\ \A x \in Daemons : d[x].pc \in {"idle", "loaded", "committed"}
  /\ thr.pc \in {"connect", "subscribe", "listen"} /\ thr.banned \subseteq Teams

Init ==
  /\ mode \in {"single", "split"}
  /\ wg = [t \in Teams |-> None]
  /\ row = [t \in Teams |-> NoRow]
  /\ d = [x \in Daemons |-> Idle]
  /\ board = [online |-> {}, banned |-> {}, pinged |-> {}, available |-> {}]
  /\ net \in [state: {"unset", "off"}, banned: {{}}]
  /\ thr = [pc |-> "connect", open |-> FALSE, banned |-> {}] /\ queue = <<>>
  /\ count = 0
  /\ calm = [rows |-> {}, orders |-> TRUE]

Happens == count < MaxEvents /\ count' = count + 1

-----------------------------------------------------------------------------
(* External: the router's interfaces, peers that come and go, OpenVPN      *)
(* hooks and reset-connection-status.py, which write the same table.       *)

Interface(t) ==
  /\ Happens
  /\ wg' = [wg EXCEPT ![t] = IF @ = None THEN [p \in Peers |-> "old"] ELSE None]
  /\ calm' = [calm EXCEPT !.rows = {}]
  /\ UNCHANGED <<mode, row, d, board, net, thr, queue>>

PeerChanges(t, p, s) ==
  /\ wg[t] # None /\ Happens
  /\ wg' = [wg EXCEPT ![t][p] = s]
  /\ calm' = [calm EXCEPT !.rows = {}]
  /\ UNCHANGED <<mode, row, d, board, net, thr, queue>>

ResetStatus(t) ==
  /\ row[t].vulnbox \/ row[t].boxes
  /\ Happens
  /\ row' = [row EXCEPT ![t].vulnbox = FALSE, ![t].boxes = FALSE]
  /\ calm' = [calm EXCEPT !.rows = {}]
  /\ UNCHANGED <<mode, wg, d, board, net, thr, queue>>

-----------------------------------------------------------------------------
(* update_status: the teams are loaded, the interfaces are read, and the   *)
(* columns that changed are written when the transaction ends.             *)

Load(x) ==
  /\ Runs(x) /\ d[x].pc = "idle"
  /\ d' = [d EXCEPT ![x] = [pc |-> "loaded", rows |-> row, open |-> thr.open]]
  /\ calm' = [calm EXCEPT !.rows = @ \cup {x}]
  /\ UNCHANGED <<mode, wg, row, board, net, thr, queue, count>>

(* get_wireguard_status: a peer is connected if its last handshake is      *)
(* recent.                                                                 *)
IsConnected(s) == s = "fresh"
connection_count(peers) == Cardinality({p \in Peers : IsConnected(peers[p])})

(* Mutant: a peer that was removed stays connected.                        *)
VulnboxStatusKeep(r, s) == IF s = "absent" THEN r.vulnbox ELSE IsConnected(s)

VulnboxStatus(r, s) ==
  CASE s # "absent" /\ ~r.vulnbox /\ IsConnected(s) -> TRUE
    [] s # "absent" /\ r.vulnbox /\ ~IsConnected(s) -> FALSE
    [] s = "absent" /\ r.vulnbox -> FALSE
    [] OTHER -> r.vulnbox

update_team_wireguard_status(x, r, peers) ==
  IF peers = None
    THEN IF Complete(x) /\ (r.boxes \/ r.vulnbox)
           THEN [r EXCEPT !.boxes = FALSE, !.vulnbox = FALSE, !.count = 0] ELSE r
    ELSE [vulnbox |-> VulnboxStatus(r, peers["vulnbox"]),
          ever |-> r.ever \/ (~r.vulnbox /\ IsConnected(peers["vulnbox"])),
          boxes |-> \E p \in Boxes : IsConnected(peers[p]),
          count |-> connection_count(peers)]

(* A value that is what was loaded is not written.                         *)
Written(old, new, now) == [f \in DOMAIN now |-> IF new[f] = old[f] THEN now[f] ELSE new[f]]
Fetched(x) == [t \in Teams |-> IF ChecksWg(x) THEN update_team_wireguard_status(x, d[x].rows[t], wg[t]) ELSE d[x].rows[t]]

Commit(x) ==
  /\ d[x].pc = "loaded"
  /\ row' = [t \in Teams |-> Written(d[x].rows[t], Fetched(x)[t], row[t])]
  /\ d' = [d EXCEPT ![x].pc = "committed", ![x].rows = Fetched(x)]
  /\ calm' = [calm EXCEPT !.rows = IF row' = row THEN @ ELSE @ \cap {x}]
  /\ UNCHANGED <<mode, wg, board, net, thr, queue, count>>

(* The transaction fails and is tried again, or the round ends with        *)
(* another exception.                                                      *)
RoundFails(x) ==
  /\ d[x].pc # "idle" /\ Happens
  /\ d' = [d EXCEPT ![x] = Idle]
  /\ UNCHANGED <<mode, wg, row, board, net, thr, queue, calm>>

(* The connected teams are pinged, the vulnboxes only while the network is *)
(* open.  build_vpn_json goes twice through what is an iterator.           *)
Online(r) == r.boxes
build_vpn_board(x) ==
  [online |-> {t \in Teams : Online(d[x].rows[t])},
   banned |-> thr.banned,
   pinged |-> IF d[x].open THEN {t \in Teams : Online(d[x].rows[t])} ELSE {},
   available |-> {}]

EndRound(x) ==
  /\ d[x].pc = "committed"
  /\ board' = IF Complete(x) THEN build_vpn_board(x) ELSE board
  /\ d' = [d EXCEPT ![x] = Idle]
  /\ UNCHANGED <<mode, wg, row, net, thr, queue, count, calm>>

-----------------------------------------------------------------------------
(* The network's state and bans, written by the control server.            *)

Send(m) == queue' = IF thr.pc = "listen" THEN Append(queue, m) ELSE queue
Missed == [calm EXCEPT !.orders = @ /\ thr.pc \in {"connect", "listen"}]

SetState(s) ==
  /\ s # net.state /\ Happens
  /\ net' = [net EXCEPT !.state = s]
  /\ Send(<<"state", s>>) /\ calm' = Missed
  /\ UNCHANGED <<mode, wg, row, d, board, thr>>

SetBan(t) ==
  /\ Happens
  /\ net' = [net EXCEPT !.banned = IF t \in @ THEN @ \ {t} ELSE @ \cup {t}]
  /\ Send(<<IF t \in net.banned THEN "unban" ELSE "ban", t>>)
  /\ calm' = [Missed EXCEPT !.orders = @ /\ (t \in net.banned => thr.pc = "listen")]
  /\ UNCHANGED <<mode, wg, row, d, board, thr>>

(* VpnStatusThread: the keys are read first, then it subscribes.  Bans are *)
(* added to those it already knows; a state that is not set is set.        *)
Opened(s) == s \in {"on", "team"}
WatchRedis ==
  /\ thr.pc = "connect"
  /\ thr' = [pc |-> "subscribe", open |-> Opened(net.state), banned |-> thr.banned \cup net.banned]
  /\ net' = IF net.state = "unset" THEN [net EXCEPT !.state = "off"] ELSE net
  /\ UNCHANGED <<mode, wg, row, d, board, queue, count, calm>>

Subscribe ==
  /\ thr.pc = "subscribe" /\ thr' = [thr EXCEPT !.pc = "listen"]
  /\ UNCHANGED <<mode, wg, row, d, board, net, queue, count, calm>>

OnMessage(m) ==
  CASE m[1] = "state" -> [thr EXCEPT !.open = Opened(m[2])]
    [] m[1] = "ban" -> [thr EXCEPT !.banned = @ \cup {m[2]}]
    [] OTHER -> [thr EXCEPT !.banned = @ \ {m[2]}]

Hear ==
  /\ queue # <<>>
  /\ thr' = OnMessage(Head(queue))
  /\ queue' = Tail(queue)
  /\ UNCHANGED <<mode, wg, row, d, board, net, count, calm>>

LoseRedis ==
  /\ thr.pc # "connect" /\ Happens
  /\ thr' = [thr EXCEPT !.pc = "connect"]
  /\ queue' = <<>>
  /\ calm' = [calm EXCEPT !.orders = @ /\ \A i \in DOMAIN queue : queue[i][1] # "unban"]
  /\ UNCHANGED <<mode, wg, row, d, board, net>>

Next ==
  \/ \E t \in Teams : Interface(t) \/ ResetStatus(t) \/ SetBan(t)
  \/ \E t \in Teams, p \in Peers, s \in Peer : PeerChanges(t, p, s)
  \/ \E x \in Daemons : Load(x) \/ Commit(x) \/ RoundFails(x) \/ EndRound(x)
  \/ \E s \in {"off", "team", "on"} : SetState(s)
  \/ WatchRedis \/ Subscribe \/ Hear \/ LoseRedis

Spec == Init /\ [][Next]_vars

-----------------------------------------------------------------------------
(* Properties.                                                             *)

(* After a round in which nothing else changed, the table has the status   *)
(* of every interface of the router, whatever was written by others, lost  *)
(* or left half done before (update_team_wireguard_status).                *)
StatusSettles ==
  \A x \in calm.rows : d[x].pc = "committed" /\ ChecksWg(x) => \A t \in Teams :
    wg[t] # None =>
      /\ row[t].vulnbox <=> wg[t]["vulnbox"] = "fresh"
      /\ row[t].boxes <=> \E p \in Boxes : wg[t][p] = "fresh"
      /\ row[t].count = Cardinality({p \in Peers : wg[t][p] = "fresh"})

(* The thread knows the network state and the bans that are in Redis once  *)
(* it has heard all messages, also after a lost connection, unless an      *)
(* order fell between its reading and its subscription or a ban was lifted *)
(* while it was away (VpnStatusThread).                                    *)
OrdersKnown ==
  thr.pc = "listen" /\ queue = <<>> /\ calm.orders =>
    thr.open = Opened(net.state) /\ thr.banned = net.banned

(* What the board is made from is right: the table, and what its thread    *)
(* knows of the network (vpn_status_daemon.py).                            *)
BoardFollows == StatusSettles /\ OrdersKnown
=============================================================================
