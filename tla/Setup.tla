------------------------------- MODULE Setup -------------------------------
(***************************************************************************)
(* MovieService: the initialization job, which fills the prices and the    *)
(* links from movie types to screen types.  It is a process started by an  *)
(* operator, and may be started again, or twice.                           *)
(*                                                                         *)
(* Each table is filled by one statement, on a connection of its own.      *)
(***************************************************************************)
EXTENDS Prices

CONSTANT Jobs   \* runs of the job

VARIABLES
  filled,       \* the tables that hold their rows
  job           \* [step, left]: where a run is, and the tables still to do

setupVars == <<filled, job>>

Tables == {"price", "link"}
JobStep == {"idle", "counting", "inserting", "skipped", "done", "failed"}

SetupTypeOK ==
  /\ filled \subseteq Tables
  /\ job \in [Jobs -> [step : JobStep, left : SUBSET Tables]]

(* An earlier run may have filled them. *)
SetupInit ==
  /\ filled \in {{}, Tables}
  /\ job = [j \in Jobs |-> [step |-> "idle", left |-> {}]]

(* What the tables hold. *)
priceRows == IF "price" \in filled THEN DefaultPrices ELSE [k \in {} |-> NoPrice]
linkRows == IF "link" \in filled THEN DefaultLinks ELSE {}

JobTo(j, step, left) ==
  job' = [job EXCEPT ![j] = [step |-> step, left |-> left]]

StartJob(j) ==
  /\ job[j].step = "idle"
  /\ JobTo(j, "counting", Tables)
  /\ UNCHANGED filled

(* Both tables are counted at the same time; rows in one are enough to skip. *)
CountEmpty(j, t) ==
  /\ job[j].step = "counting"
  /\ t \in job[j].left \ filled
  /\ IF job[j].left = {t} THEN JobTo(j, "inserting", Tables)
     ELSE JobTo(j, "counting", job[j].left \ {t})
  /\ UNCHANGED filled

CountFilled(j, t) ==
  /\ job[j].step = "counting"
  /\ t \in job[j].left \intersect filled
  /\ JobTo(j, "skipped", {})
  /\ UNCHANGED filled

(* Both tables are filled at the same time, each with all its rows.  When    *)
(* one insert has failed the process ends, but the other was sent as well.   *)
Inserting(j, t) ==
  /\ job[j].step \in {"inserting", "failed"}
  /\ t \in job[j].left

(* Mutant: the job returns after its first insert. *)
InsertFirstDefaults(j, t) ==
  /\ Inserting(j, t)
  /\ t \notin filled
  /\ filled' = filled \union {t}
  /\ JobTo(j, "done", {})

InsertDefaults(j, t) ==
  LET rest == job[j].left \ {t} IN
  /\ Inserting(j, t)
  /\ t \notin filled
  /\ filled' = filled \union {t}
  /\ JobTo(j, IF job[j].step = "inserting" /\ rest = {} THEN "done"
              ELSE job[j].step, rest)

(* The unique index of the table: the rows are there. *)
InsertRefused(j, t) ==
  /\ Inserting(j, t)
  /\ t \in filled
  /\ JobTo(j, "failed", job[j].left \ {t})
  /\ UNCHANGED filled

(* A statement that fails, with the other one sent or lost with the process. *)
JobFails(j, t) ==
  /\ job[j].step \in {"counting", "inserting"}
  /\ t \in job[j].left
  /\ \/ job[j].step = "inserting" /\ JobTo(j, "failed", job[j].left \ {t})
     \/ JobTo(j, "failed", {})
  /\ UNCHANGED filled
============================================================================
