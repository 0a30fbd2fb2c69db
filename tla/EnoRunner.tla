----------------------------- MODULE EnoRunner ------------------------------
(***************************************************************************)
(* EnoCheckerRunner (checker_runner/runners/eno.py): one run of a checker  *)
(* against one team sends many requests to a checker service: flags and    *)
(* noise are put and got, flags of past ticks are got, havoc is called.    *)
(* The starts are spread over the tick; the answers come in any order and  *)
(* are folded into one status.                                             *)
(*                                                                         *)
(* Time counts in units of five seconds.  When a tick is cut into n slots  *)
(* the clock of the run counts n-th parts of a unit, so that the slots     *)
(* start at integers.  The checker service is external: it answers what it *)
(* wants, within the time limit of a request.                              *)
(***************************************************************************)
EXTENDS Integers, FiniteSets, Functions

CONSTANTS
  Jobs,              (* [tick, len, flag, noise, havoc]: len = 0: unknown  *)
  check_past_ticks,  (* config.RUNNER.eno.check_past_ticks                 *)
  QueryTimeout       (* config.RUNNER.eno.timeout and one second, in units *)

VARIABLES
  eno,       (* "idle", "swap", "run", "failed", "done"                    *)
  job,       (* what is run                                                *)
  slot,      (* offset of <<kind, number>>, in slots                       *)
  begins,    (* start of each request                                      *)
  state,     (* of each request: "wait", "run", or its result              *)
  clock, slow, early,
  status, messages, recovery,
  data       (* custom_results, and the flag ids in Redis                  *)

evars == <<eno, job, slot, begins, state, clock, slow, early, status, messages, recovery, data>>

TIME_BUFFER == 1
TaskTimeout == 3
DefaultTick == 12
Results == {"OK", "MUMBLE", "OFFLINE", "ERROR", "TIMEOUT"}

-----------------------------------------------------------------------------
(* Requests.                                                               *)

(* execute_checker_async: flags are also got for up to check_past_ticks    *)
(* past ticks, of which the first is 1.                                    *)
Pairs(j, put, get, n) ==
  {[method |-> m, variant |-> v, of |-> j.tick] : m \in {put, get}, v \in 1..n}
Past(j) ==
  [method: {"getflag"}, variant: 1..j.flag, of: {j.tick - i : i \in {i \in 1..check_past_ticks : j.tick - i > 0}}]
Free(j) == Past(j) \cup [method: {"havoc"}, variant: 1..j.havoc, of: {j.tick}]
Requests(j) == Pairs(j, "putflag", "getflag", j.flag) \cup Pairs(j, "putnoise", "getnoise", j.noise) \cup Free(j)

Puts == {"putflag", "putnoise"}
Get(x) == [x EXCEPT !.method = IF x.method = "putflag" THEN "getflag" ELSE "getnoise"]
chain(x) == <<IF x.method \in {"putflag", "getflag"} THEN "flag" ELSE IF x.method = "havoc" THEN "havoc" ELSE "noise",
              x.of, x.variant>>

-----------------------------------------------------------------------------
(* gen_timeslots_flat.                                                     *)

Constrained(j) == j.flag + j.noise
Unconstrained(j) == check_past_ticks * j.flag + j.havoc
Total(j) == 2 * Constrained(j) + Unconstrained(j)
Length(j) == IF j.len = 0 THEN DefaultTick ELSE j.len
LastStart(j) == Length(j) - TIME_BUFFER - TaskTimeout

Entries(j) == ({"early", "late"} \X (1..Constrained(j))) \cup ({"free"} \X (1..Unconstrained(j)))
FirstOf(j, kind) ==
  CASE kind = "early" -> 0 [] kind = "free" -> Constrained(j) [] OTHER -> Constrained(j) + Unconstrained(j)
Offsets(j) == [e \in Entries(j) |-> FirstOf(j, e[1]) + e[2] - 1]

(* Two offsets are a time limit and a slot apart.                          *)
_valid_clearance(j, a, b) == (b - a) * LastStart(j) >= TaskTimeout * Total(j) + LastStart(j)

(* The assertions of gen_timeslots_flat.                                   *)
Fits(j) ==
  /\ LastStart(j) * (Total(j) - 2) - TaskTimeout * Total(j) >= LastStart(j) * (Constrained(j) - 1)
  /\ _valid_clearance(j, 0, Total(j) - Constrained(j))

Swapped(e, f) == [slot EXCEPT ![e] = slot[f], ![f] = slot[e]]

(* Mutant: the clearance of the pair swapped with is not looked at.        *)
_try_perform_swapBlind(j, e, f) == slot' = Swapped(e, f)
_try_perform_swap(j, e, f) ==
  slot' = IF \/ f[1] = "free"
             \/ f[1] = "early" /\ _valid_clearance(j, slot[e], slot[<<"late", f[2]>>])
             \/ f[1] = "late" /\ _valid_clearance(j, slot[<<"early", f[2]>>], slot[e])
          THEN Swapped(e, f) ELSE slot

(* A step of the loop: a late or an early entry and a random one.          *)
Swap(n, f) ==
  /\ eno = "swap"
  /\ \/ /\ _valid_clearance(job, slot[<<"early", n>>], slot[f])
        /\ _try_perform_swap(job, <<"late", n>>, f)
     \/ /\ _valid_clearance(job, slot[f], slot[<<"late", n>>])
        /\ _try_perform_swap(job, <<"early", n>>, f)
  /\ UNCHANGED <<eno, job, begins, state, clock, slow, early, status, messages, recovery, data>>

-----------------------------------------------------------------------------
(* The run.                                                                *)

Init ==
  /\ eno = "idle" /\ job \in Jobs /\ slot = <<>> /\ begins = <<>> /\ state = <<>>
  /\ clock = 0 /\ slow = {} /\ early = {} /\ status = "SUCCESS" /\ messages = <<>> /\ recovery = <<>>
  /\ data = [results |-> {}, flag_ids |-> {}]

(* reset, get_service_info, gen_timeslots: without a flag and without      *)
(* noise the list of early slots has no last element, which is an error    *)
(* that nobody catches.                                                    *)
Begin ==
  /\ eno = "idle"
  /\ IF Constrained(job) = 0 THEN eno' = "failed" /\ UNCHANGED slot
     ELSE eno' = "swap" /\ slot' = IF Fits(job) THEN Offsets(job) ELSE <<>>
  /\ UNCHANGED <<job, begins, state, clock, slow, early, status, messages, recovery, data>>

(* get_service_info fails.                                                 *)
NoInfo ==
  /\ eno = "idle" /\ eno' = "failed"
  /\ UNCHANGED <<job, slot, begins, state, clock, slow, early, status, messages, recovery, data>>

Plan(b) ==
  /\ eno' = "run"
  /\ begins' = b
  /\ state' = [x \in Requests(job) |-> "wait"]
  /\ UNCHANGED <<job, slot, clock, slow, early, status, messages, recovery, data>>

Chains == {x \in Requests(job) : x.method \in Puts}

(* The jitter moves a start within its slot.  Bound: to its begin or to    *)
(* its end, to the end for no request, for those that put, or for all.     *)
Jitters == {{}, Chains, Requests(job)}
Jitter(J, x, first, length) == first + IF x \in J THEN length - 1 ELSE 0

(* The shuffled slots: a pair of slots for a chain, and a free slot for    *)
(* each other request.                                                     *)
PlanFlat ==
  /\ eno = "swap" /\ slot # <<>>
  /\ \E p \in Bijection(Chains, 1..Constrained(job)), q \in Injection(Free(job), 1..Unconstrained(job)) :
       LET e(x) == IF x \in Chains THEN <<"early", p[x]>>
                   ELSE IF x \in Free(job) THEN <<"free", q[x]>>
                   ELSE <<"late", p[CHOOSE c \in Chains : Get(c) = x]>>
       IN \E J \in Jitters :
            Plan([x \in Requests(job) |-> Jitter(J, x, slot[e(x)] * LastStart(job), LastStart(job))])

(* gen_timeslots_fallback.                                                 *)
PlanFallback ==
  /\ eno = "swap" /\ slot = <<>>
  /\ LET n == Total(job)
         first(x) == IF x \in Free(job) \/ x.method \in Puts THEN 0 ELSE 6 * n
         length(x) == CASE x \in Free(job) -> 8 * n [] x.method \in Puts -> 3 * n [] OTHER -> 2 * n
     IN \E J \in Jitters : Plan([x \in Requests(job) |-> Jitter(J, x, first(x), length(x))])

Waiting == {x \in DOMAIN state : state[x] = "wait"}
Running == {x \in DOMAIN state : state[x] = "run"}

(* _process_message_with_jitter sleeps until the start of the request.     *)
(* Every request that must have been answered by then is.                  *)
Start(x) ==
  /\ eno = "run" /\ x \in Waiting /\ \A y \in Waiting : begins[x] <= begins[y]
  /\ \A y \in Running : begins[y] + QueryTimeout * Total(job) >= begins[x]
  /\ clock' = begins[x] /\ state' = [state EXCEPT ![x] = "run"]
  /\ slow' = slow \cup {y \in Running : begins[y] + TaskTimeout * Total(job) < begins[x]}
  /\ early' = early \cup {y \in Running : y.method \in Puts /\ x = Get(y)}
  /\ UNCHANGED <<eno, job, slot, begins, status, messages, recovery, data>>

Current(x) == x.of = job.tick

(* _task_chain_msg_write                                                   *)
Write(ms, x, r) ==
  IF r = "OFFLINE" \/ chain(x) \notin DOMAIN ms
    THEN [c \in DOMAIN ms \cup {chain(x)} |-> IF c = chain(x) THEN r ELSE ms[c]]
    ELSE ms

(* _handle_result.  (Mutant: only the first failure of a run counts.)      *)
StatusFirst(s, x, r) ==
  IF r \in {"ERROR", "TIMEOUT"} THEN IF r = "ERROR" THEN "CRASHED" ELSE "TIMEOUT"
  ELSE IF s = "SUCCESS" /\ r # "OK" THEN IF Current(x) THEN r ELSE "RECOVERING"
  ELSE s
Status(s, x, r) ==
  IF r \in {"ERROR", "TIMEOUT"} THEN IF r = "ERROR" THEN "CRASHED" ELSE "TIMEOUT"
  ELSE IF s \in {"SUCCESS", "RECOVERING"} /\ r # "OK" /\ ~Current(x) THEN "RECOVERING"
  ELSE IF s \in {"SUCCESS", "RECOVERING"} /\ r = "MUMBLE" THEN "MUMBLE"
  ELSE IF s \in {"SUCCESS", "RECOVERING", "MUMBLE"} /\ r = "OFFLINE" THEN "OFFLINE"
  ELSE s

(* _query and _handle_result.  An answer that is not OK has a message,     *)
(* except an exception of the request; an answer to a put flag has the     *)
(* attack info when it is OK.                                              *)
Answer(x, r) ==
  /\ eno = "run" /\ x \in Running
  /\ state' = [state EXCEPT ![x] = r]
  /\ status' = Status(status, x, r)
  /\ messages' = IF r \notin {"OK", "ERROR"} /\ Current(x) THEN Write(messages, x, r) ELSE messages
  /\ recovery' = IF r \notin {"OK", "ERROR"} /\ ~Current(x) THEN Write(recovery, x, r) ELSE recovery
  /\ data' = CASE x.method = "getflag" /\ r \notin {"ERROR", "TIMEOUT"} ->
                    [data EXCEPT !.results = @ \cup {<<x.of, x.variant, r>>}]
               [] x.method = "putflag" /\ r = "OK" -> [data EXCEPT !.flag_ids = @ \cup {<<x.of, x.variant>>}]
               [] OTHER -> data
  /\ UNCHANGED <<eno, job, slot, begins, clock, slow, early>>

Finish ==
  /\ eno = "run" /\ Waiting \cup Running = {} /\ eno' = "done"
  /\ UNCHANGED <<job, slot, begins, state, clock, slow, early, status, messages, recovery, data>>

Shown == IF messages # <<>> THEN messages ELSE recovery

Next ==
  \/ Begin \/ NoInfo \/ PlanFlat \/ PlanFallback \/ Finish
  \/ eno = "swap" /\ slot # <<>> /\ \E n \in 1..Constrained(job), f \in Entries(job) : Swap(n, f)
  \/ \E x \in DOMAIN state : Start(x) \/ (\E r \in Results : Answer(x, r))

Spec == Init /\ [][Next]_evars

-----------------------------------------------------------------------------
(* Properties.                                                             *)

TypeOK ==
  /\ eno \in {"idle", "swap", "run", "failed", "done"}
  /\ slot # <<>> => slot \in [Entries(job) -> 0..(Total(job) - 1)]
  /\ \A x \in DOMAIN state : state[x] \in Results \cup {"wait", "run"}
  /\ status \in {"SUCCESS", "RECOVERING", "MUMBLE", "OFFLINE", "CRASHED", "TIMEOUT"}

(* Whatever the loop swaps, a flag or a noise is got only after the        *)
(* request that puts it was answered, unless it took longer than the time  *)
(* the slots leave for it, and no request starts so late that its time     *)
(* limit passes the end of the tick (gen_timeslots_flat).                  *)
GetAfterPut ==
  /\ early \subseteq slow
  /\ slot # <<>> /\ eno = "run" => \A x \in DOMAIN begins : begins[x] < LastStart(job) * Total(job)

Res(current) == {state[x] : x \in {x \in DOMAIN state : Current(x) = current}}

(* The status of a finished run depends on the answers, not on their       *)
(* order, except between two internal errors and for an OFFLINE of a past  *)
(* tick next to a MUMBLE; the messages shown are those of this tick, if    *)
(* this tick has any (_handle_result).                                     *)
Verdict ==
  eno = "done" =>
    LET now == Res(TRUE) then == Res(FALSE) all == now \cup then
    IN /\ status = "SUCCESS" <=> all = {"OK"}
       /\ status \in {"CRASHED", "TIMEOUT"} <=> all \cap {"ERROR", "TIMEOUT"} # {}
       /\ status = "RECOVERING" <=> now = {"OK"} /\ then \cap {"MUMBLE", "OFFLINE"} # {} /\ all \cap {"ERROR", "TIMEOUT"} = {}
       /\ status = "MUMBLE" => "MUMBLE" \in now /\ "OFFLINE" \notin now
       /\ status = "OFFLINE" => "OFFLINE" \in now \/ ("MUMBLE" \in now /\ "OFFLINE" \in then)
       /\ status \in {"MUMBLE", "OFFLINE"} => Shown = messages /\ messages # <<>>
       /\ status = "RECOVERING" => Shown = recovery /\ recovery # <<>>
=============================================================================
