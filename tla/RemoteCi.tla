------------------------------ MODULE RemoteCi ------------------------------
(***************************************************************************)
(* One call of RemoteCiService against a provider that goes on working     *)
(* meanwhile: the repository is resolved, the decision recorded, the       *)
(* credential taken from gh, the provider asked within a budget, the       *)
(* result cut to size, the outcome recorded.  ci.status may look again     *)
(* while it waits; ci.rerun, ci.cancel and ci.dispatch change the provider.*)
(* A run stands for its job and its check as well.                         *)
(***************************************************************************)
EXTENDS Naturals, Sequences, FiniteSets, FiniteSetsExt

CONSTANTS
  CiRuns,           \* workflow runs of the commit that is asked about
  PageLimit,        \* MAX_CI_STATUS_SUMMARIES, MAX_CI_RUNS_LIMIT, MAX_CI_RUN_JOBS
  MaxObservations,  \* MAX_CI_STATUS_OBSERVATIONS
  MaxMoves          \* bound: what happens at the provider by itself

VARIABLES
  provider,  \* the state of each run there
  moves,     \* how often the provider moved
  call,      \* the call
  since      \* history: the states each run has had since the call began

ciVars == <<provider, moves, call, since>>

Mutations == {"ci.rerun", "ci.cancel", "ci.dispatch"}
Ops == {"ci.repository", "ci.status", "ci.runs", "ci.run", "ci.failure"} \union Mutations

(* What each operation asks, in order; a set is asked side by side.        *)
Plan(op) ==
  CASE op = "ci.repository" -> <<{"repository"}>>
    [] op = "ci.status"     -> <<{"commit"}, {"checks", "runs"}>>
    [] op = "ci.runs"       -> <<{"runs"}>>
    [] op = "ci.run"        -> <<{"run"}, {"jobs"}>>
    [] op = "ci.failure"    -> <<{"run"}, {"jobs"}, {"log"}>>    \* the annotations, if any, come with the jobs
    [] OTHER                -> <<{"mutation"}>>

(* What is left of a plan when one of its next questions has been asked.   *)
Rest(left, what) == IF left[1] = {what} THEN Tail(left) ELSE [left EXCEPT ![1] = @ \ {what}]

(* stateForRun, deriveState: what a run or its check counts as.            *)
StateOf(s) ==
  CASE s \in {"queued", "in_progress"} -> "PENDING"
    [] s = "failure"                   -> "FAIL"
    [] s = "cancelled"                 -> "CANCELLED"
    [] s = "success"                   -> "PASS"
    [] OTHER                           -> "UNKNOWN"

Rank == [PASS |-> 0, UNKNOWN |-> 1, CANCELLED |-> 2, PENDING |-> 3, FAIL |-> 4]
AggregateState(states) ==
  IF states = {} THEN "UNKNOWN" ELSE CHOOSE s \in states : \A t \in states : Rank[t] <= Rank[s]
IsWaiting(state) == state \in {"PENDING", "UNKNOWN"}

NoCall == [at |-> "idle", op |-> "none", run |-> "none", wait |-> FALSE, left |-> <<>>, seen |-> {},
           observation |-> 0, requests |-> 0, limited |-> FALSE, effects |-> 0, log |-> <<>>, answer |-> "none",
           state |-> "none"]

CiInit ==
  /\ provider \in [CiRuns -> {"absent", "queued"}]
  /\ moves = 0
  /\ call = NoCall
  /\ since = [r \in CiRuns |-> {}]

Become(r, s) ==
  /\ provider' = [provider EXCEPT ![r] = s]
  /\ since' = [since EXCEPT ![r] = @ \union {s}]

(* The provider's own doing: runs are triggered, run, end, are rerun.      *)
ProviderMoves(r) ==
  /\ moves < MaxMoves /\ moves' = moves + 1
  /\ \E s \in CASE provider[r] = "absent"      -> {"queued"}
                [] provider[r] = "queued"      -> {"in_progress"}
                [] provider[r] = "in_progress" -> {"success", "failure", "cancelled"}
                [] OTHER                       -> {"queued"} : Become(r, s)
  /\ UNCHANGED call

(* The repository is resolved: the workspace named, or the only READY one. *)
Begin ==
  /\ call.at = "idle"
  /\ \E op \in Ops, r \in CiRuns, w \in BOOLEAN :
       /\ w => op = "ci.status"
       /\ op \in {"ci.repository", "ci.status", "ci.runs"} => r = CHOOSE any \in CiRuns : TRUE
       /\ call' = [NoCall EXCEPT !.at = "resolved", !.op = op, !.run = r, !.wait = w]
  /\ since' = [r \in CiRuns |-> {provider[r]}]
  /\ UNCHANGED <<provider, moves>>

Answer(log, answer) == call' = [call EXCEPT !.at = "answered", !.log = log, !.answer = answer]
Decided(ok) == IF ok THEN <<"decision">> ELSE <<>>

(* #decision: nothing is asked when it cannot be recorded.                 *)
Decide ==
  /\ call.at = "resolved"
  /\ \/ call' = [call EXCEPT !.at = "asking", !.log = <<"decision">>, !.left = Plan(call.op), !.observation = 1]
     \/ Answer(<<>>, "CI_AUDIT_UNAVAILABLE")
  /\ UNCHANGED <<provider, moves, since>>

(* #success and #failed: an outcome that cannot be recorded is the answer. *)
Fail(code) == \/ Answer(Append(call.log, "failed"), code)
              \/ Answer(call.log, "CI_AUDIT_UNAVAILABLE")

(* gh gives no token: ci.repository says so and succeeds, all others fail. *)
NoCredential ==
  /\ call.at = "asking" /\ call.requests = 0
  /\ IF call.op = "ci.repository"
       THEN call' = [call EXCEPT !.at = "fitting", !.state = "REQUIRED", !.left = <<>>]
       ELSE Fail("CI_AUTH_REQUIRED")
  /\ UNCHANGED <<provider, moves, since>>

(* selectFailureJob: only a run with a failed job has a failure to show.   *)
FailedJob == call.seen = {"FAIL"}
AnyJob    == TRUE    \* mutant: the first job will do
SelectsJob == FailedJob

(* One GET.  A page shows at most PageLimit runs and says how many there   *)
(* are.                                                                    *)
Existing == {r \in CiRuns : provider[r] # "absent"}
PageHidesSome(page)  == page # Existing
PageHidesNone(page)  == FALSE    \* mutant: total_count is not compared with what came
PageLimited(page) == PageHidesSome(page)

Ask(what) ==
  /\ call.at = "asking" /\ call.left # <<>> /\ what \in call.left[1] /\ what # "mutation"
  /\ what \in {"run", "jobs", "log"} => provider[call.run] # "absent"
  /\ what = "log" => SelectsJob
  /\ \E page \in SUBSET Existing :
       /\ Cardinality(page) = Min({PageLimit, Cardinality(Existing)})
       /\ call' = [call EXCEPT
            !.requests = @ + 1,
            !.left = Rest(@, what),
            !.seen = CASE what \in {"checks", "runs"} -> @ \union {StateOf(provider[r]) : r \in page}
                       [] what = "jobs"               -> {StateOf(provider[call.run])}
                       [] OTHER                       -> @,
            !.limited = @ \/ (what \in {"checks", "runs"} /\ PageLimited(page))]
  /\ UNCHANGED <<provider, moves, since>>

NothingFailed ==
  /\ call.at = "asking" /\ call.op = "ci.failure" /\ call.left = <<{"log"}>> /\ ~SelectsJob
  /\ Fail("CI_NOT_FOUND")
  /\ UNCHANGED <<provider, moves, since>>

(* The provider refuses, answers nonsense or cannot be reached.            *)
AskFails ==
  /\ call.at = "asking" /\ call.left # <<>> /\ call.left[1] # {"mutation"}
  /\ \E code \in {"CI_AUTH_FAILED", "CI_RATE_LIMITED", "CI_NOT_FOUND", "CI_PROVIDER_UNAVAILABLE",
                  "CI_RESPONSE_INVALID"} : Fail(code)
  /\ UNCHANGED <<provider, moves, since>>

(* postMutation: one POST, never repeated; what the answer to it means.    *)
RefusalOf(status) ==
  CASE status = "thrown"  -> "CI_MUTATION_OUTCOME_UNKNOWN"
    [] status = "401"     -> "CI_AUTH_FAILED"
    [] status = "429"     -> "CI_RATE_LIMITED"
    [] status = "running" -> "CI_MUTATION_STATE_CONFLICT"
    [] status = "403"     -> "CI_PERMISSION_DENIED"
    [] status = "404"     -> "CI_NOT_FOUND"
    [] status = "5xx"     -> "CI_PROVIDER_UNAVAILABLE"
    [] OTHER              -> "CI_RESPONSE_INVALID"

Changed(op) == IF op = "ci.cancel" THEN "cancelled" ELSE "queued"

(* The change is made, and the answer may still be lost or a strange one.  *)
Post ==
  /\ call.at = "asking" /\ call.left = <<{"mutation"}>>
  /\ Become(call.run, Changed(call.op))
  /\ LET sent == [call EXCEPT !.left = <<>>, !.requests = 1, !.effects = @ + 1]
     IN \/ call' = [sent EXCEPT !.at = "fitting", !.state = "accepted"]
        \/ \E status \in {"thrown", "5xx", "other"}, lost \in BOOLEAN :
             call' = [sent EXCEPT !.at = "answered", !.log = IF lost THEN @ ELSE Append(@, "failed"),
                                  !.answer = IF lost THEN "CI_AUDIT_UNAVAILABLE" ELSE RefusalOf(status)]
  /\ UNCHANGED moves

PostRefused ==
  /\ call.at = "asking" /\ call.left = <<{"mutation"}>>
  /\ \E status \in {"thrown", "401", "429", "running", "403", "404", "5xx", "other"} : Fail(RefusalOf(status))
  /\ UNCHANGED <<provider, moves, since>>

(* The evidence of an observation is complete; ci.status looks again while *)
(* nothing is settled and there is time.                                   *)
Observed ==
  /\ call.at = "asking" /\ call.left = <<>>
  /\ LET state == IF call.op = "ci.status" THEN AggregateState(call.seen) ELSE "observed"
     IN \/ call' = [call EXCEPT !.at = "fitting", !.state = state]
        \/ /\ call.wait /\ IsWaiting(state) /\ call.observation < MaxObservations
           /\ call' = [call EXCEPT !.left = Plan(call.op), !.seen = {}, !.limited = FALSE, !.requests = 0,
                                   !.observation = @ + 1]
  /\ UNCHANGED <<provider, moves, since>>

(* fitCiResult drops what does not fit and says so, or gives up.           *)
Fit ==
  /\ call.at = "fitting"
  /\ \/ call' = [call EXCEPT !.at = "recording"]
     \/ call.op \notin Mutations /\ call' = [call EXCEPT !.at = "recording", !.limited = TRUE]
     \/ call.op \notin Mutations /\ Fail("CI_RESPONSE_LIMIT_EXCEEDED")
  /\ UNCHANGED <<provider, moves, since>>

RecordSuccess ==
  /\ call.at = "recording"
  /\ \/ Answer(Append(call.log, "success"), "ok")
     \/ Answer(call.log, "CI_AUDIT_UNAVAILABLE")
  /\ UNCHANGED <<provider, moves, since>>

Finished ==
  /\ call.at = "answered"
  /\ call' = NoCall
  /\ since' = [r \in CiRuns |-> {}]
  /\ UNCHANGED <<provider, moves>>

CiStep ==
  \/ Begin \/ Decide \/ NoCredential \/ NothingFailed \/ AskFails \/ Post \/ PostRefused
  \/ Observed \/ Fit \/ RecordSuccess \/ Finished
  \/ \E what \in {"repository", "commit", "checks", "runs", "run", "jobs", "log"} : Ask(what)

CiNext == CiStep \/ \E r \in CiRuns : ProviderMoves(r)

CiSpec == CiInit /\ [][CiNext]_ciVars

-----------------------------------------------------------------------------
Told(answers) == call.at = "answered" /\ call.answer \in answers

(* An untruncated PASS is about every run there was when the call began:   *)
(* each of them has been successful during it.  A failure that is shown    *)
(* was one.  The log has the decision of every call that reached the       *)
(* provider and the outcome the caller is told; a change that was made is  *)
(* never told as one that the provider turned down.                        *)
CiTellsTheTruth ==
  /\ (Told({"ok"}) /\ call.state = "PASS" /\ ~call.limited) =>
       \A r \in CiRuns : "absent" \in since[r] \/ "success" \in since[r]
  /\ (Told({"ok"}) /\ call.op = "ci.failure") => "failure" \in since[call.run]
  /\ call.requests > 0 => call.log # <<>> /\ call.log[1] = "decision"
  /\ Told({"ok"}) => call.log = <<"decision", "success">>
  /\ call.at = "answered" /\ ~Told({"ok", "CI_AUDIT_UNAVAILABLE"}) => call.log = <<"decision", "failed">>
  /\ call.at = "answered" /\ call.effects > 0 =>
       ~Told({"CI_AUTH_FAILED", "CI_RATE_LIMITED", "CI_MUTATION_STATE_CONFLICT", "CI_PERMISSION_DENIED", "CI_NOT_FOUND"})
=============================================================================
