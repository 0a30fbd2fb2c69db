---------------------------- MODULE ServiceRepo -----------------------------
(***************************************************************************)
(* A service's repository, its working copy on the control server and its  *)
(* row in the database (ServiceRepoManager).  A configuration is a name    *)
(* and data (interface, payloads, flag ids, ports).  Git is external.      *)
(***************************************************************************)
EXTENDS Integers

CONSTANTS
  Configs,     (* configurations: records with name and data               *)
  MaxPushes,   (* bound: commits pushed to the remote                      *)
  MaxEdits,    (* bound: edits of a row in the control panel               *)
  MaxFailures  (* bound: failed git commands and crashes                   *)

VARIABLES
  remote,   (* configuration at the remote                                 *)
  disk,     (* configuration in the working copy, or None                  *)
  services, (* the row of every name, or None                              *)
  mgr,      (* the manager: step, rows it loaded, configuration before     *)
  limit,    (* bounded events so far                                       *)
  edited,   (* history: rows an administrator edited, unless the working   *)
            (* copy has the same since then                                *)
  parted    (* history: a pull was not followed by its commit, or was a    *)
            (* change of name                                              *)

rvars == <<remote, disk, services, mgr, limit, edited, parted>>

None == <<>>
Names == {c.name : c \in Configs}
NoRows == [n \in Names |-> None]
Idle == [pc |-> "idle", rows |-> NoRows, before |-> None]

TypeOK == /\ remote \in Configs /\ (disk = None \/ disk \in Configs)
          /\ \A n \in Names : services[n] = None \/ (services[n] \in Configs /\ services[n].name = n)
          /\ mgr.pc \in {"idle", "clone", "add", "pull", "compare"}

Init ==
  /\ remote \in Configs /\ disk = None /\ services = NoRows
  /\ mgr = Idle /\ edited = NoRows /\ parted = FALSE
  /\ limit = [pushes |-> 0, edits |-> 0, failures |-> 0]

(* External: a commit to the remote.                                       *)
Push(c) ==
  /\ limit.pushes < MaxPushes /\ c # remote
  /\ remote' = c /\ limit' = [limit EXCEPT !.pushes = @ + 1]
  /\ UNCHANGED <<disk, services, mgr, edited, parted>>

(* External: the service's form in the control panel, between two updates. *)
Edit(c) ==
  /\ limit.edits < MaxEdits /\ mgr.pc = "idle"
  /\ services[c.name] # None /\ c # services[c.name] /\ c # disk
  /\ services' = [services EXCEPT ![c.name] = c]
  /\ edited' = [edited EXCEPT ![c.name] = c]
  /\ limit' = [limit EXCEPT !.edits = @ + 1]
  /\ UNCHANGED <<remote, disk, mgr, parted>>

-----------------------------------------------------------------------------
(* update_all_services: one remote after the other, here there is one.     *)

update_service ==
  /\ mgr.pc = "idle"
  /\ mgr' = [pc |-> IF disk = None THEN "clone" ELSE "pull", rows |-> services, before |-> disk]
  /\ UNCHANGED <<remote, disk, services, limit, edited, parted>>

git_checkout_service ==
  /\ mgr.pc = "clone"
  /\ disk' = remote /\ mgr' = [mgr EXCEPT !.pc = "add"]
  /\ UNCHANGED <<remote, services, limit, edited, parted>>

_cfg_to_db(cfg) == [services EXCEPT ![cfg.name] = cfg]

AddService ==
  /\ mgr.pc = "add"
  /\ services' = _cfg_to_db(disk) /\ mgr' = Idle
  /\ UNCHANGED <<remote, disk, limit, edited, parted>>

git_pull_service ==
  /\ mgr.pc = "pull"
  /\ disk' = remote /\ mgr' = [mgr EXCEPT !.pc = "compare"]
  /\ edited' = [edited EXCEPT ![remote.name] = IF @ = remote THEN None ELSE @]
  /\ UNCHANGED <<remote, services, limit, parted>>

_cfg_equals_db(cfg, row) == row = cfg
_update_db_from_cfg(cfg) == [services EXCEPT ![cfg.name] = cfg]

(* Mutant: the row is compared with the configuration that was pulled.     *)
IsFollowedNew ==
  mgr.rows[disk.name] # None /\ mgr.before # disk /\ _cfg_equals_db(disk, mgr.rows[disk.name])

(* The row is as the configuration was before the pull: nobody altered it. *)
IsFollowed ==
  mgr.rows[disk.name] # None /\ mgr.before # disk /\ _cfg_equals_db(mgr.before, mgr.rows[disk.name])

CommitUpdate ==
  /\ mgr.pc = "compare"
  /\ services' = IF IsFollowed THEN _update_db_from_cfg(disk) ELSE services
  /\ mgr' = Idle
  /\ parted' = (parted \/ mgr.before.name # disk.name)
  /\ UNCHANGED <<remote, disk, limit, edited>>

(* A git command fails, the configuration cannot be read, or the process   *)
(* ends.                                                                   *)
Abort ==
  /\ mgr.pc # "idle" /\ limit.failures < MaxFailures
  /\ limit' = [limit EXCEPT !.failures = @ + 1]
  /\ parted' = (parted \/ (mgr.pc = "compare" /\ mgr.before # disk))
  /\ mgr' = Idle
  /\ UNCHANGED <<remote, disk, services, edited>>

find_services == IF disk = None THEN {} ELSE {disk}

(* import_services adds what was found if there is no row of its name.     *)
import_services ==
  /\ mgr.pc = "idle"
  /\ \E cfg \in find_services : services[cfg.name] = None /\ services' = _cfg_to_db(cfg)
  /\ UNCHANGED <<remote, disk, mgr, limit, edited, parted>>

Next ==
  \/ \E c \in Configs : Push(c) \/ Edit(c)
  \/ update_service \/ git_checkout_service \/ AddService \/ git_pull_service \/ CommitUpdate
  \/ Abort \/ import_services

Spec == Init /\ [][Next]_rvars

-----------------------------------------------------------------------------
(* When no update is running, a row that an administrator edited is as he  *)
(* left it, and any other has the configuration of the working copy,       *)
(* however many updates ran, failed and were repeated (update_service:     *)
(* "write to DB if service exists and wasn't altered manually"), unless a  *)
(* pull was not followed by its commit or changed the service's name.      *)
RowFollows ==
  mgr.pc = "idle" /\ disk # None /\ ~parted => \A n \in Names : services[n] # None =>
    services[n] = IF edited[n] # None THEN edited[n] ELSE disk
=============================================================================
