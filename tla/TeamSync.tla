------------------------------ MODULE TeamSync ------------------------------
(***************************************************************************)
(* sync_teams_http.py: the teams of the website are copied into the        *)
(* database.  A team has a version (name, affiliation, website) and a logo *)
(* (version of the picture; 0 is the dummy, None none yet).  The session's *)
(* changes reach the table with a commit.                                  *)
(***************************************************************************)
EXTENDS Integers, Sequences

CONSTANTS
  Ids,        (* team ids                                                  *)
  NopTeam,    (* config.SCORING.nop_team_id                                *)
  Versions,   (* versions of a team on the website                         *)
  Plain,      (* those without a picture                                   *)
  MaxSyncs    (* bound: runs of the script                                 *)

VARIABLES
  website,    (* version of every team, None if it is not registered       *)
  table,      (* table teams as committed: [v, logo] or None               *)
  logos,      (* pictures in table team_logos                              *)
  session,    (* the same with the uncommitted changes                     *)
  sync,       (* the script: step, --delete, the answer of the website,    *)
              (* teams not found there so far                              *)
  syncs,      (* runs so far                                               *)
  before      (* history: the table when the last run began                *)

tvars == <<website, table, logos, session, sync, syncs, before>>

None == -1
Dummy == 0
NoTeam == [v |-> None, logo |-> None]
Rest == [pc |-> "idle", delete |-> FALSE, list |-> {}, remote |-> [i \in Ids |-> None], rest |-> {}]
Present(db) == {i \in Ids : db[i].v # None}

TypeOK ==
  /\ website \in [Ids -> Versions \cup {None}]
  /\ \A i \in Ids : /\ table[i].v \in Versions \cup {None, Dummy} /\ session[i].v \in Versions \cup {None, Dummy}
                    /\ table[i].logo # None => table[i].v # None
  /\ sync.pc \in {"idle", "teams", "logo", "done", "failed"}

Init ==
  /\ website \in [Ids -> Versions \cup {None}]
  /\ table = [i \in Ids |-> NoTeam] /\ logos = {} /\ session = table /\ before = table
  /\ sync = Rest /\ syncs = 0

(* External: the website changes between two runs.                         *)
WebsiteChanges(i, v) ==
  /\ sync.pc \in {"idle", "done", "failed"} /\ syncs < MaxSyncs /\ website[i] # v
  /\ website' = [website EXCEPT ![i] = v]
  /\ sync' = Rest
  /\ UNCHANGED <<table, logos, session, syncs, before>>

(* main: the teams and the website are read; the NOP team is created.      *)
Start(delete) ==
  /\ sync.pc \in {"idle", "done", "failed"} /\ syncs < MaxSyncs
  /\ syncs' = syncs + 1 /\ before' = table
  /\ session' = IF table[NopTeam].v = None THEN [table EXCEPT ![NopTeam].v = Dummy] ELSE table
  /\ sync' = [pc |-> "teams", delete |-> delete, remote |-> website,
              list |-> {i \in Ids : website[i] # None}, rest |-> Present(session')]
  /\ UNCHANGED <<website, table, logos>>

(* TeamLogo.store_logo_bytes: a picture the database does not have yet is  *)
(* stored with a commit of all that the session holds so far, db.          *)
store_logo(p, db) ==
  IF p \in logos THEN UNCHANGED <<logos, table>> ELSE logos' = logos \cup {p} /\ table' = db

import_logo(i, db) ==
  /\ store_logo(Dummy, db)
  /\ session' = [db EXCEPT ![i].logo = Dummy]

(* A picture that is there is not fetched again; one that cannot be        *)
(* fetched (an HTTP error) leaves the old one.                             *)
import_logo_from_url(i, v, db, found) ==
  CASE v \in Plain -> import_logo(i, db)
    [] v \notin Plain /\ found /\ db[i].logo # v ->
         store_logo(v, db) /\ session' = [db EXCEPT ![i].logo = v]
    [] OTHER -> session' = db /\ UNCHANGED <<logos, table>>

(* Mutant: a team that was found is not taken from the rest.               *)
FoundKeep(i) == [sync EXCEPT !.list = @ \ {i}]

Found(i) == [sync EXCEPT !.list = @ \ {i}, !.rest = @ \ {i}]

update_team(i, found) ==
  /\ sync.pc = "teams" /\ i \in sync.list /\ i \in sync.rest
  /\ import_logo_from_url(i, sync.remote[i], [session EXCEPT ![i].v = sync.remote[i]], found)
  /\ sync' = Found(i)
  /\ UNCHANGED <<website, syncs, before>>

(* add_team: committed before its logo is fetched.                         *)
add_team(i) ==
  /\ sync.pc = "teams" /\ i \in sync.list /\ i \notin sync.rest
  /\ session' = [session EXCEPT ![i] = [v |-> sync.remote[i], logo |-> None]]
  /\ table' = session'
  /\ sync' = [sync EXCEPT !.pc = "logo"]
  /\ UNCHANGED <<website, logos, syncs, before>>

AddLogo(i, found) ==
  /\ sync.pc = "logo" /\ i \in sync.list \ sync.rest /\ session[i].v # None
  /\ import_logo_from_url(i, sync.remote[i], session, found)
  /\ sync' = [Found(i) EXCEPT !.pc = "teams"]
  /\ UNCHANGED <<website, syncs, before>>

(* A team that is not on the website.                                      *)
Absent(i) ==
  /\ sync.pc = "teams" /\ sync.list = {} /\ i \in sync.rest
  /\ IF i # NopTeam /\ sync.delete
       THEN session' = [session EXCEPT ![i] = NoTeam] /\ UNCHANGED <<logos, table>>
       ELSE import_logo(i, session)
  /\ sync' = [sync EXCEPT !.rest = @ \ {i}]
  /\ UNCHANGED <<website, syncs, before>>

Finish ==
  /\ sync.pc = "teams" /\ sync.list = {} /\ sync.rest = {}
  /\ table' = session
  /\ sync' = [sync EXCEPT !.pc = "done"]
  /\ UNCHANGED <<website, session, logos, syncs, before>>

(* A request times out, the database fails or the script is interrupted.   *)
Fails ==
  /\ sync.pc \in {"teams", "logo"}
  /\ session' = table
  /\ sync' = [sync EXCEPT !.pc = "failed"]
  /\ UNCHANGED <<website, table, logos, syncs, before>>

Next ==
  \/ \E i \in Ids, v \in Versions \cup {None} : WebsiteChanges(i, v)
  \/ \E delete \in BOOLEAN : Start(delete)
  \/ \E i \in Ids, found \in BOOLEAN : update_team(i, found) \/ AddLogo(i, found)
  \/ \E i \in Ids : add_team(i) \/ Absent(i)
  \/ Finish \/ Fails

Spec == Init /\ [][Next]_tvars

-----------------------------------------------------------------------------
Target(i) ==
  CASE sync.remote[i] # None -> sync.remote[i]
    [] sync.remote[i] = None /\ i = NopTeam -> IF before[i].v = None THEN Dummy ELSE before[i].v
    [] OTHER -> IF sync.delete THEN None ELSE before[i].v

(* A run that ends has brought every registered team to its version, kept  *)
(* the NOP team and, with --delete, left no other; a run that fails, after *)
(* a new team or a new picture committed what was done before it, leaves   *)
(* every team as it was or as the run would have left it, or a new NOP     *)
(* team with its first name (main, add_team, store_logo_bytes).            *)
SyncExact ==
  /\ sync.pc = "done" => \A i \in Ids : table[i].v = Target(i)
  /\ sync.pc = "failed" => \A i \in Ids :
       \/ table[i].v \in {before[i].v, Target(i)}
       \/ i = NopTeam /\ table[i].v = Dummy
=============================================================================
