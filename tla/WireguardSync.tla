--------------------------- MODULE WireguardSync ----------------------------
(***************************************************************************)
(* wireguard-sync: keeps the WireGuard interfaces of a router like the     *)
(* registration server describes them, and the key pairs in a file.        *)
(*                                                                         *)
(* The API server is external: it counts the versions of an interface,     *)
(* stores the version that was acknowledged last and lists an interface    *)
(* as long as the two differ.  So is the kernel: an address belongs to one *)
(* peer, and the peer that is set last has it.  A call that fails is       *)
(* repeated with a delay; CallFails is the last attempt that fails.        *)
(***************************************************************************)
EXTENDS Integers, FiniteSets

CONSTANTS
  Teams,        (* interfaces                                              *)
  PeerSets,     (* descriptions of an interface: sets of <<key, address>>  *)
  MaxVersion,   (* bound: versions of an interface                         *)
  MaxErrors,    (* bound: calls that fail for good                         *)
  MaxCrashes,   (* bound: crashes of the process                           *)
  MaxTasks      (* bound: tasks at a time                                  *)

VARIABLES
  api,      (* the server: version, acknowledged version, peers, public key *)
  dev,      (* the kernel: peers and key of an interface, None if missing  *)
  file,     (* keystore.json: teams with a key; None if missing            *)
  tmp,      (* keystore.tmp                                                *)
  proc,     (* the process: "off", "start", "init", "loop"                 *)
  keys,     (* KeyStore._keys                                              *)
  tasks,    (* fetch_and_sync: team, step, what was fetched, whether the   *)
            (* current gather() waits for it                               *)
  errors, crashes,
  past      (* history: two tasks worked on one interface; the file was    *)
            (* removed when the process died; the process gave up          *)

vars == <<api, dev, file, tmp, proc, keys, tasks, errors, crashes, past>>

None == <<>>
Steps == {"fetch", "keys", "write", "remove", "replace", "publish", "sync", "create", "hooks", "again", "ack"}

TypeOK ==
  /\ \A t \in Teams : api[t].version \in 1..MaxVersion /\ api[t].synced \in 0..MaxVersion /\ api[t].pub \in BOOLEAN
  /\ file = None \/ file.teams \subseteq Teams
  /\ proc \in {"off", "start", "init", "loop"}
  /\ \A x \in tasks : x.step \in Steps /\ x.team \in Teams

Init ==
  /\ api \in [Teams -> [version: {1}, synced: {0}, peers: PeerSets, pub: {FALSE}]]
  /\ dev = [t \in Teams |-> None] /\ file = None /\ tmp = None
  /\ proc = "off" /\ keys = {} /\ tasks = {} /\ errors = 0 /\ crashes = 0
  /\ past = [overlap |-> FALSE, removed |-> FALSE, failed |-> FALSE]

(* External: the description of an interface changes.                      *)
Change(t, P) ==
  /\ api[t].version < MaxVersion /\ P # api[t].peers
  /\ api' = [api EXCEPT ![t].version = @ + 1, ![t].peers = P]
  /\ UNCHANGED <<dev, file, tmp, proc, keys, tasks, errors, crashes, past>>

-----------------------------------------------------------------------------
(* The process: KeyStore(), initialize_all(), loop().                      *)

Start ==
  /\ proc = "off" /\ proc' = "start"
  /\ keys' = IF file = None THEN {} ELSE file.teams
  /\ UNCHANGED <<api, dev, file, tmp, tasks, errors, crashes, past>>

Waited == {x \in tasks : x.waited}
Task(t) == [team |-> t, step |-> "fetch", iface |-> None, waited |-> TRUE]

(* Writing the key store is not interrupted by other tasks.                *)
Writing == {x \in tasks : x.step \in {"write", "remove", "replace"}}

get_interfaces_to_update(all) == IF all THEN Teams ELSE {t \in Teams : api[t].version # api[t].synced}

(* A task for each interface in the answer.                                *)
Round ==
  /\ proc = "start" \/ (proc = "loop" /\ Waited = {} /\ Writing = {})
  /\ LET todo == get_interfaces_to_update(proc = "start")
     IN /\ tasks' = tasks \cup {Task(t) : t \in todo}
        /\ past' = [past EXCEPT !.overlap = @ \/ \E x \in tasks : x.team \in todo]
  /\ proc' = IF proc = "start" THEN "init" ELSE proc
  /\ Cardinality(tasks') <= MaxTasks
  /\ UNCHANGED <<api, dev, file, tmp, keys, errors, crashes>>

(* gather() has all its results.                                           *)
RoundEnds ==
  /\ proc = "init" /\ Waited = {} /\ proc' = "loop"
  /\ UNCHANGED <<api, dev, file, tmp, keys, tasks, errors, crashes, past>>

Step(x, s) == tasks' = (tasks \ {x}) \cup {[x EXCEPT !.step = s]}

(* The process ends; what it had in memory is gone.                        *)
Ends ==
  /\ proc' = "off" /\ keys' = {} /\ tasks' = {}

(* An error ends its task, and the process if gather() waits for the task. *)
Raises(x) ==
  IF x.waited THEN Ends ELSE tasks' = tasks \ {x} /\ UNCHANGED <<proc, keys>>

(* The answers of the server that are raised as ApiError and repeated.     *)
reraise_api_errors(status) == status # "4xx"

(* A call fails for good.  gather() raises the error at once: the loop     *)
(* goes on with a new round after an ApiError while the other tasks keep   *)
(* running; in initialize_all any error ends the process.                  *)
CallFails(x, status) ==
  /\ x.step \in {"fetch", "publish", "ack"} /\ Writing = {} /\ errors < MaxErrors /\ errors' = errors + 1
  /\ IF proc = "init" \/ ~reraise_api_errors(status) THEN Raises(x)
     ELSE /\ tasks' = {IF x.waited THEN [y EXCEPT !.waited = FALSE] ELSE y : y \in tasks \ {x}}
          /\ UNCHANGED <<proc, keys>>
  /\ UNCHANGED <<api, dev, file, tmp, crashes, past>>

Crash ==
  /\ proc # "off" /\ crashes < MaxCrashes /\ crashes' = crashes + 1
  /\ Ends
  /\ past' = [past EXCEPT !.removed = @ \/ (file = None /\ tmp # None)]
  /\ UNCHANGED <<api, dev, file, tmp, errors>>

-----------------------------------------------------------------------------
(* fetch_and_sync.                                                         *)

Runs(x, s) == x.step = s /\ (Writing = {} \/ x \in Writing)

get_interface(x) ==
  /\ Runs(x, "fetch")
  /\ tasks' = (tasks \ {x}) \cup {[x EXCEPT !.step = "keys", !.iface = api[x.team]]}
  /\ UNCHANGED <<api, dev, file, tmp, proc, keys, errors, crashes, past>>

(* A public key without its private key is an error.                       *)
CheckKeys(x) ==
  /\ Runs(x, "keys")
  /\ IF x.iface.pub /\ x.team \notin keys
       THEN Raises(x) /\ past' = [past EXCEPT !.failed = TRUE]
       ELSE /\ Step(x, CASE x.team \notin keys -> "write" [] x.iface.pub -> "sync" [] OTHER -> "publish")
            /\ UNCHANGED <<proc, keys, past>>
  /\ UNCHANGED <<api, dev, file, tmp, errors, crashes>>

(* put_keys: a temporary file replaces the file, which is removed first.   *)
WriteTmp(x) ==
  /\ Runs(x, "write")
  /\ keys' = keys \cup {x.team} /\ tmp' = [teams |-> keys']
  /\ Step(x, IF file = None THEN "replace" ELSE "remove")
  /\ UNCHANGED <<api, dev, file, proc, errors, crashes, past>>

RemoveFile(x) ==
  /\ Runs(x, "remove") /\ file' = None /\ Step(x, "replace")
  /\ UNCHANGED <<api, dev, tmp, proc, keys, errors, crashes, past>>

(* Mutant: the file is not put into place.                                 *)
ReplaceFileNot(x) ==
  /\ Runs(x, "replace") /\ tmp' = None /\ Step(x, "publish")
  /\ UNCHANGED <<api, dev, file, proc, keys, errors, crashes, past>>

ReplaceFile(x) ==
  /\ Runs(x, "replace") /\ file' = tmp /\ tmp' = None /\ Step(x, "publish")
  /\ UNCHANGED <<api, dev, proc, keys, errors, crashes, past>>

set_pubk(x) ==
  /\ Runs(x, "publish")
  /\ api' = [api EXCEPT ![x.team].pub = TRUE] /\ Step(x, "sync")
  /\ UNCHANGED <<dev, file, tmp, proc, keys, errors, crashes, past>>

(* sync_peers: surplus peers are removed, then the missing ones are added. *)
RemovePeers(have, P) == {p \in have : \A q \in P : p[1] # q[1]}
AddPeers(have, P) == {p \in have : \A q \in P : p[2] # q[2] /\ p[1] # q[1]} \cup P
sync_peers(have, want) == AddPeers(RemovePeers(have, have \ want), want \ have)

sync(x) ==
  /\ Runs(x, "sync") \/ Runs(x, "again")
  /\ IF dev[x.team] = None THEN Step(x, "create") /\ UNCHANGED dev
     ELSE /\ dev' = [dev EXCEPT ![x.team].peers = sync_peers(@, x.iface.peers)]
          /\ Step(x, "ack")
  /\ UNCHANGED <<api, file, tmp, proc, keys, errors, crashes, past>>

(* initialize_interface creates only what is missing.                      *)
initialize_interface(x) ==
  /\ Runs(x, "create")
  /\ dev' = IF dev[x.team] = None THEN [dev EXCEPT ![x.team] = [peers |-> {}]] ELSE dev
  /\ Step(x, "hooks")
  /\ UNCHANGED <<api, file, tmp, proc, keys, errors, crashes, past>>

run_interface_up_hooks(x) ==
  /\ Runs(x, "hooks") /\ Step(x, "again")
  /\ UNCHANGED <<api, dev, file, tmp, proc, keys, errors, crashes, past>>

(* Mutant: the version the server has now is acknowledged.                 *)
AckedLatest(x) == api[x.team].version
Acked(x) == x.iface.version

ack_interface(x) ==
  /\ Runs(x, "ack")
  /\ api' = [api EXCEPT ![x.team].synced = Acked(x)]
  /\ tasks' = tasks \ {x}
  /\ UNCHANGED <<dev, file, tmp, proc, keys, errors, crashes, past>>

Next ==
  \/ \E t \in Teams, P \in PeerSets : Change(t, P)
  \/ Start \/ Round \/ RoundEnds \/ Crash
  \/ \E x \in tasks :
       \/ \E status \in {"4xx", "5xx"} : CallFails(x, status)
       \/ get_interface(x) \/ CheckKeys(x) \/ WriteTmp(x) \/ RemoveFile(x) \/ ReplaceFile(x)
       \/ set_pubk(x) \/ sync(x) \/ initialize_interface(x) \/ run_interface_up_hooks(x) \/ ack_interface(x)

Spec == Init /\ [][Next]_vars

-----------------------------------------------------------------------------
(* Properties.                                                             *)

(* An interface the server takes for synchronized has the peers of its     *)
(* description, also when the description, the addresses of peers or the   *)
(* process changed in the middle of a round, if no two tasks worked on it  *)
(* at the same time (fetch_and_sync).                                      *)
SyncedIsApplied ==
  ~past.overlap => \A t \in Teams :
    api[t].synced = api[t].version => dev[t] # None /\ dev[t].peers = api[t].peers

(* A public key is published only when its private key is in the file, and *)
(* the process never finds a public key without a private one, unless it   *)
(* died between the removal of the old file and its replacement            *)
(* (KeyStore.put_keys, fetch_and_sync).                                    *)
KeysSaved ==
  ~past.removed =>
    /\ ~past.failed
    /\ \A t \in Teams : api[t].pub => \E f \in {file, tmp} : f # None /\ t \in f.teams
=============================================================================
