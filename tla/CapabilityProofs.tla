-------------------------- MODULE CapabilityProofs --------------------------
(***************************************************************************)
(* What a session is told of remote CI and of its connection to a provider,*)
(* for any number of workflow runs and of operators, however the provider  *)
(* moves meanwhile; what its calls leave in the maps of previews, browsers *)
(* and registrations; and what a resumed session is told of its checkpoint.*)
(***************************************************************************)
EXTENDS RemoteCi, ProviderGateway, PreviewBrowser, Registries, ResumeContext,
        SequenceTheorems, FunctionTheorems, FiniteSetTheorems, TLAPS

RunStates == {"absent", "queued", "in_progress", "success", "failure", "cancelled"}
States    == {"PASS", "UNKNOWN", "CANCELLED", "PENDING", "FAIL"}
Idle      == {"idle", "resolved"}
Settled   == {"fitting", "recording"}

(* What may still have to be asked.                                        *)
Lefts(op) ==
  CASE op = "ci.repository" -> {<<{"repository"}>>, <<>>}
    [] op = "ci.status"     -> {<<{"commit"}, {"checks", "runs"}>>, <<{"checks", "runs"}>>,
                                <<{"checks"}>>, <<{"runs"}>>, <<>>}
    [] op = "ci.runs"       -> {<<{"runs"}>>, <<>>}
    [] op = "ci.run"        -> {<<{"run"}, {"jobs"}>>, <<{"jobs"}>>, <<>>}
    [] op = "ci.failure"    -> {<<{"run"}, {"jobs"}, {"log"}>>, <<{"jobs"}, {"log"}>>, <<{"log"}>>, <<>>}
    [] OTHER                -> {<<{"mutation"}>>, <<>>}

AnyLeft  == UNION {Lefts(op) : op \in Ops}
Outcomes == {"decision", "failed", "success"}
Answers  == {"none", "ok", "CI_AUDIT_UNAVAILABLE", "CI_AUTH_REQUIRED", "CI_AUTH_FAILED", "CI_RATE_LIMITED",
             "CI_NOT_FOUND", "CI_PROVIDER_UNAVAILABLE", "CI_RESPONSE_INVALID", "CI_RESPONSE_LIMIT_EXCEEDED",
             "CI_MUTATION_OUTCOME_UNKNOWN", "CI_MUTATION_STATE_CONFLICT", "CI_PERMISSION_DENIED"}
Shown    == States \union {"none", "REQUIRED", "accepted", "observed"}

CallTypes ==
  [at : Idle \union Settled \union {"asking", "answered"}, op : Ops \union {"none"},
   run : CiRuns \union {"none"}, wait : BOOLEAN, left : AnyLeft, seen : SUBSET States,
   observation : Nat, requests : Nat, limited : BOOLEAN, effects : Nat,
   log : Seq(Outcomes), answer : Answers, state : Shown]

CiTypeOK ==
  /\ provider \in [CiRuns -> RunStates]
  /\ since \in [CiRuns -> SUBSET RunStates]
  /\ call \in CallTypes

(* A call is about a run, whose states are being noted.                    *)
NotedInv ==
  call.at # "idle" => /\ call.op \in Ops /\ call.run \in CiRuns
                      /\ \A r \in CiRuns : provider[r] \in since[r]

PlanInv == call.at = "asking" => call.left \in Lefts(call.op)

(* What an observation has seen of the runs when all that it saw passed,   *)
(* and of the run when it failed.                                          *)
AllPassed == \A r \in CiRuns : "absent" \in since[r] \/ "success" \in since[r]
SeenInv ==
  /\ call.at = "asking" /\ call.op = "ci.status" /\ ~call.limited /\ call.seen \subseteq {"PASS"}
       /\ call.left \in {<<{"checks"}>>, <<{"runs"}>>, <<>>} => AllPassed
  /\ call.at = "asking" /\ call.op = "ci.failure" /\ call.left \in {<<{"log"}>>, <<>>} /\ call.seen = {"FAIL"}
       => "failure" \in since[call.run]
  /\ call.at = "asking" /\ call.op = "ci.failure" /\ call.left = <<>> => call.seen = {"FAIL"}

(* What is about to be told, or has been.                                  *)
ToldInv ==
  call.at \in Settled \/ Told({"ok"}) =>
    /\ call.state = "PASS" /\ ~call.limited => AllPassed
    /\ call.op = "ci.failure" => "failure" \in since[call.run]

LogInv ==
  /\ call.at \in Idle => call.log = <<>> /\ call.requests = 0
  /\ call.at \in {"asking"} \union Settled => call.log = <<"decision">>
  /\ call.at = "answered" =>
       \/ call.answer = "ok" /\ call.log = <<"decision", "success">>
       \/ call.answer = "CI_AUDIT_UNAVAILABLE" /\ (call.log = <<"decision">> \/ call.requests = 0)
       \/ call.answer \notin {"ok", "CI_AUDIT_UNAVAILABLE"} /\ call.log = <<"decision", "failed">>

(* A change that was made is settled, or answered as made or unknown.      *)
EffectInv ==
  call.effects > 0 =>
    /\ call.op \in Mutations
    /\ \/ call.at \in Settled
       \/ Told({"ok", "CI_AUDIT_UNAVAILABLE", "CI_MUTATION_OUTCOME_UNKNOWN", "CI_PROVIDER_UNAVAILABLE",
                "CI_RESPONSE_INVALID"})

CallInv == NotedInv /\ PlanInv /\ SeenInv /\ ToldInv /\ LogInv /\ EffectInv
CiInv   == CiTypeOK /\ CallInv

-----------------------------------------------------------------------------
(* Rest, of the plans there are.                                           *)
LEMMA RestOf ==
  ASSUME NEW a, NEW b, NEW c, NEW what
  PROVE  /\ Rest(<<{a}>>, a) = <<>> /\ Rest(<<{a}, b>>, a) = <<b>> /\ Rest(<<{a}, b, c>>, a) = <<b, c>>
         /\ a # what => Rest(<<{a, what}>>, a) = <<{what}>> /\ Rest(<<{a, what}>>, what) = <<{a}>>
         /\ <<a>>[1] = a /\ <<a, b>>[1] = a /\ <<a, b, c>>[1] = a
  BY DEF Rest

(* The plans are followed in order.                                        *)
LEMMA RestIsPlanned ==
  ASSUME NEW op \in Ops, NEW left \in Lefts(op), left # <<>>, NEW what \in left[1], what # "mutation"
  PROVE  /\ Rest(left, what) \in Lefts(op)
         /\ op = "ci.status" /\ Rest(left, what) \in {<<{"checks"}>>, <<{"runs"}>>, <<>>} =>
              what \in {"checks", "runs"}
         /\ op = "ci.failure" => /\ Rest(left, what) = <<{"log"}>> => what = "jobs"
                                 /\ Rest(left, what) = <<>> => left = <<{"log"}>> /\ what = "log"
<1>1. CASE op = "ci.repository"
  <2>1. left = <<{"repository"}>> /\ Lefts(op) = {<<{"repository"}>>, <<>>}
    BY <1>1 DEF Lefts
  <2> QED BY <1>1, <2>1, RestOf
<1>2. CASE op = "ci.status"
  <2>0. Lefts(op) = {<<{"commit"}, {"checks", "runs"}>>, <<{"checks", "runs"}>>, <<{"checks"}>>, <<{"runs"}>>, <<>>}
    BY <1>2 DEF Lefts
  <2>1. CASE left = <<{"commit"}, {"checks", "runs"}>>
    <3>1. what = "commit" /\ Rest(left, what) = <<{"checks", "runs"}>>
      BY <2>1 DEF Rest
    <3>2. <<{"checks", "runs"}>> \notin {<<{"checks"}>>, <<{"runs"}>>, <<>>}
      <4>1. {"checks", "runs"} # {"checks"} /\ {"checks", "runs"} # {"runs"}
        OBVIOUS
      <4> QED BY <4>1
    <3> QED BY <1>2, <2>0, <3>1, <3>2
  <2>2. CASE left = <<{"checks", "runs"}>>
    <3>1. what = "checks" \/ what = "runs"
      BY <2>2
    <3>2. CASE what = "checks"
      BY <1>2, <2>0, <2>2, <3>2, RestOf
    <3>3. CASE what = "runs"
      BY <1>2, <2>0, <2>2, <3>3, RestOf
    <3> QED BY <3>1, <3>2, <3>3
  <2>3. CASE left = <<{"checks"}>>
    BY <1>2, <2>0, <2>3, RestOf
  <2>4. CASE left = <<{"runs"}>>
    BY <1>2, <2>0, <2>4, RestOf
  <2> QED BY <2>0, <2>1, <2>2, <2>3, <2>4
<1>3. CASE op = "ci.runs"
  <2>1. left = <<{"runs"}>> /\ Lefts(op) = {<<{"runs"}>>, <<>>}
    BY <1>3 DEF Lefts
  <2> QED BY <1>3, <2>1, RestOf
<1>4. CASE op = "ci.run"
  <2>0. Lefts(op) = {<<{"run"}, {"jobs"}>>, <<{"jobs"}>>, <<>>}
    BY <1>4 DEF Lefts
  <2>1. CASE left = <<{"run"}, {"jobs"}>>
    <3>1. what = "run" /\ Rest(left, what) = <<{"jobs"}>>
      BY <2>1 DEF Rest
    <3> QED BY <1>4, <2>0, <3>1
  <2>2. CASE left = <<{"jobs"}>>
    BY <1>4, <2>0, <2>2, RestOf
  <2> QED BY <2>0, <2>1, <2>2
<1>5. CASE op = "ci.failure"
  <2>0. Lefts(op) = {<<{"run"}, {"jobs"}, {"log"}>>, <<{"jobs"}, {"log"}>>, <<{"log"}>>, <<>>}
    BY <1>5 DEF Lefts
  <2>1. CASE left = <<{"run"}, {"jobs"}, {"log"}>>
    <3>1. what = "run" /\ Rest(left, what) = <<{"jobs"}, {"log"}>>
      BY <2>1 DEF Rest
    <3> QED BY <1>5, <2>0, <3>1
  <2>2. CASE left = <<{"jobs"}, {"log"}>>
    <3>1. what = "jobs" /\ Rest(left, what) = <<{"log"}>>
      BY <2>2 DEF Rest
    <3> QED BY <1>5, <2>0, <3>1
  <2>3. CASE left = <<{"log"}>>
    <3>1. what = "log" /\ Rest(left, what) = <<>>
      BY <2>3, RestOf
    <3> QED BY <1>5, <2>0, <2>3, <3>1
  <2> QED BY <2>0, <2>1, <2>2, <2>3
<1>6. CASE op \in Mutations
  <2>1. left = <<{"mutation"}>>
    BY <1>6 DEF Lefts, Mutations
  <2> QED BY <2>1
<1> QED BY <1>1, <1>2, <1>3, <1>4, <1>5, <1>6 DEF Ops

(* A plan starts with everything left, and only changes change.            *)
LEMMA PlanIsLeft ==
  ASSUME NEW op \in Ops
  PROVE  /\ Plan(op) \in Lefts(op)
         /\ op = "ci.status" => Plan(op) \notin {<<{"checks"}>>, <<{"runs"}>>, <<>>}
         /\ op = "ci.failure" => Plan(op) \notin {<<{"log"}>>, <<>>}
         /\ <<{"mutation"}>> \in Lefts(op) => op \in Mutations
  BY DEF Plan, Lefts, Ops, Mutations

(* A PASS is of nothing but passes, and only a success passes.             *)
LEMMA PassIsUnanimous ==
  ASSUME NEW states \in SUBSET States
  PROVE  /\ AggregateState(states) \in States
         /\ AggregateState(states) = "PASS" => states \subseteq {"PASS"}
<1>1. /\ Rank["PASS"] = 0 /\ Rank["UNKNOWN"] = 1 /\ Rank["CANCELLED"] = 2 /\ Rank["PENDING"] = 3
      /\ Rank["FAIL"] = 4
  BY DEF Rank
<1>2. SUFFICES ASSUME states # {}
               PROVE  /\ AggregateState(states) \in States
                      /\ AggregateState(states) = "PASS" => \A t \in states : t = "PASS"
  BY DEF AggregateState, States
<1>3. \E s \in states : \A t \in states : Rank[t] <= Rank[s]
  <2>1. \A t \in states : t \in {"PASS", "UNKNOWN", "CANCELLED", "PENDING", "FAIL"}
    BY DEF States
  <2>2. CASE "FAIL" \in states
    BY <1>1, <2>1, <2>2
  <2>3. CASE "FAIL" \notin states /\ "PENDING" \in states
    BY <1>1, <2>1, <2>3
  <2>4. CASE "FAIL" \notin states /\ "PENDING" \notin states /\ "CANCELLED" \in states
    BY <1>1, <2>1, <2>4
  <2>5. CASE "FAIL" \notin states /\ "PENDING" \notin states /\ "CANCELLED" \notin states /\ "UNKNOWN" \in states
    BY <1>1, <2>1, <2>5
  <2>6. CASE states \subseteq {"PASS"}
    <3>1. "PASS" \in states
      BY <1>2, <2>6
    <3>2. \A t \in states : t = "PASS"
      BY <2>6
    <3> QED BY <1>1, <3>1, <3>2
  <2> QED BY <2>1, <2>2, <2>3, <2>4, <2>5, <2>6
<1>4. AggregateState(states) \in states /\ \A t \in states : Rank[t] <= Rank[AggregateState(states)]
  BY <1>2, <1>3 DEF AggregateState
<1>5. ASSUME AggregateState(states) = "PASS", NEW t \in states PROVE t = "PASS"
  BY <1>1, <1>4, <1>5 DEF States
<1> QED BY <1>4, <1>5

(* What a run counts as.                                                   *)
LEMMA StatesOfRuns ==
  ASSUME NEW s \in RunStates
  PROVE  /\ StateOf(s) \in States
         /\ StateOf(s) = "PASS" => s = "success"
         /\ StateOf(s) = "FAIL" => s = "failure"
  BY DEF StateOf, RunStates, States

(* Plans and what is left of them.                                         *)
LEMMA LeftTypes == <<>> \in AnyLeft /\ \A op \in Ops : Lefts(op) \subseteq AnyLeft /\ Plan(op) \in AnyLeft
<1>1. "ci.runs" \in Ops /\ <<>> \in Lefts("ci.runs")
  BY DEF Ops, Lefts
<1> QED BY <1>1, PlanIsLeft DEF AnyLeft

(* Nothing has been asked.                                                 *)
LEMMA CiStarts == CiInit => CiInv
<1> SUFFICES ASSUME CiInit PROVE CiInv
  OBVIOUS
<1>1. CiTypeOK
  BY LeftTypes DEF CiInit, NoCall, CiTypeOK, CallTypes, RunStates, Idle, Settled, Answers, Shown
<1> QED
  BY <1>1 DEF CiInit, NoCall, CiInv, CallInv, NotedInv, PlanInv, SeenInv, ToldInv, LogInv, EffectInv, Told, Idle, Settled

(* What is answered, and how it is logged.                                 *)
LEMMA AnswerTypes ==
  ASSUME CiTypeOK
  PROVE  /\ Append(call.log, "failed") \in Seq(Outcomes) /\ Append(call.log, "success") \in Seq(Outcomes)
         /\ \A log \in Seq(Outcomes), answer \in Answers : Answer(log, answer) => call' \in CallTypes
         /\ \A code \in Answers : Fail(code) => call' \in CallTypes
<1>1. call.log \in Seq(Outcomes)
  BY DEF CiTypeOK, CallTypes
<1>2. Append(call.log, "failed") \in Seq(Outcomes) /\ Append(call.log, "success") \in Seq(Outcomes)
  BY <1>1, AppendProperties DEF Outcomes
<1>3. ASSUME NEW log \in Seq(Outcomes), NEW answer \in Answers, Answer(log, answer) PROVE call' \in CallTypes
  BY <1>3 DEF Answer, CiTypeOK, CallTypes
<1>4. "CI_AUDIT_UNAVAILABLE" \in Answers
  BY DEF Answers
<1> QED BY <1>1, <1>2, <1>3, <1>4 DEF Fail

(* The call keeps its type.                                                *)
LEMMA CiTypeStep == CiTypeOK /\ NotedInv /\ PlanInv /\ [CiNext]_ciVars => CiTypeOK'
<1> SUFFICES ASSUME CiTypeOK, NotedInv, PlanInv, [CiNext]_ciVars PROVE CiTypeOK'
  OBVIOUS
<1>1. provider \in [CiRuns -> RunStates] /\ since \in [CiRuns -> SUBSET RunStates] /\ call \in CallTypes
  BY DEF CiTypeOK
<1>0. call.requests + 1 \in Nat /\ call.effects + 1 \in Nat /\ call.observation + 1 \in Nat
  BY <1>1 DEF CallTypes
<1>2. ASSUME NEW r \in CiRuns, ProviderMoves(r) PROVE CiTypeOK'
  <2>1. PICK s \in RunStates : Become(r, s)
    BY <1>2 DEF ProviderMoves, RunStates
  <2> QED BY <1>1, <1>2, <2>1 DEF ProviderMoves, Become, CiTypeOK
<1>3. ASSUME Begin PROVE CiTypeOK'
  <2>1. PICK op \in Ops, r \in CiRuns, w \in BOOLEAN :
          call' = [NoCall EXCEPT !.at = "resolved", !.op = op, !.run = r, !.wait = w]
    BY <1>3 DEF Begin
  <2>2. NoCall \in CallTypes
    BY LeftTypes DEF NoCall, CallTypes, Idle, Answers, Shown
  <2>3. call' \in CallTypes
    BY <2>1, <2>2 DEF CallTypes, Idle
  <2> QED BY <1>1, <1>3, <2>3 DEF Begin, CiTypeOK
<1>4. ASSUME Decide PROVE CiTypeOK'
  <2>1. <<>> \in Seq(Outcomes) /\ <<"decision">> \in Seq(Outcomes) /\ "CI_AUDIT_UNAVAILABLE" \in Answers
    BY DEF Outcomes, Answers
  <2>2. call.at = "resolved" /\ call.op \in Ops
    BY <1>4 DEF Decide, NotedInv
  <2>3. Plan(call.op) \in AnyLeft
    BY <2>2, LeftTypes
  <2>4. ASSUME call' = [call EXCEPT !.at = "asking", !.log = <<"decision">>, !.left = Plan(call.op),
                                    !.observation = 1]
        PROVE  call' \in CallTypes
    BY <1>1, <2>1, <2>3, <2>4 DEF CallTypes
  <2>5. call' \in CallTypes
    BY <1>4, <2>1, <2>4, AnswerTypes DEF Decide
  <2> QED BY <1>1, <1>4, <2>5 DEF Decide, CiTypeOK
<1>5. ASSUME NoCredential PROVE CiTypeOK'
  <2>1. "CI_AUTH_REQUIRED" \in Answers /\ "REQUIRED" \in Shown
    BY DEF Answers, Shown
  <2>2. call' \in CallTypes
    BY ZenonT(60), <1>1, <1>5, <2>1, AnswerTypes, LeftTypes DEF NoCredential, CallTypes, Settled
  <2> QED BY <1>1, <1>5, <2>2 DEF NoCredential, CiTypeOK
<1>6. ASSUME NEW what \in {"repository", "commit", "checks", "runs", "run", "jobs", "log"}, Ask(what)
      PROVE  CiTypeOK'
  <2> DEFINE left == Rest(call.left, what)
             seen(page) == CASE what \in {"checks", "runs"} ->
                                  call.seen \union {StateOf(provider[r]) : r \in page}
                             [] what = "jobs"               -> {StateOf(provider[call.run])}
                             [] OTHER                       -> call.seen
             limited(page) == call.limited \/ (what \in {"checks", "runs"} /\ PageLimited(page))
  <2>1. PICK page \in SUBSET Existing :
          call' = [call EXCEPT !.requests = @ + 1, !.left = left, !.seen = seen(page), !.limited = limited(page)]
    BY <1>6 DEF Ask
  <2>2. call.at = "asking" /\ call.op \in Ops /\ call.run \in CiRuns /\ call.left \in Lefts(call.op)
        /\ call.left # <<>> /\ what \in call.left[1] /\ what # "mutation"
    BY <1>6 DEF Ask, NotedInv, PlanInv
  <2>3. left \in AnyLeft
    BY <2>2, RestIsPlanned, LeftTypes
  <2>4. \A r \in CiRuns : StateOf(provider[r]) \in States
    BY <1>1, StatesOfRuns
  <2>5. {StateOf(provider[r]) : r \in page} \subseteq States /\ {StateOf(provider[call.run])} \subseteq States
    BY <2>2, <2>4 DEF Existing
  <2>6. seen(page) \in SUBSET States
    BY <1>1, <2>5 DEF CallTypes
  <2>7. limited(page) \in BOOLEAN
    BY <1>1 DEF CallTypes, PageLimited, PageHidesSome
  <2> HIDE DEF left, seen, limited
  <2>8. call' \in CallTypes
    BY <1>0, <1>1, <2>1, <2>3, <2>6, <2>7 DEF CallTypes
  <2> QED BY <1>1, <1>6, <2>8 DEF Ask, CiTypeOK
<1>7. ASSUME NothingFailed \/ AskFails \/ PostRefused PROVE CiTypeOK'
  <2>1. \A status \in {"thrown", "401", "429", "running", "403", "404", "5xx", "other"} :
          RefusalOf(status) \in Answers
    BY DEF RefusalOf, Answers
  <2>2. /\ "CI_NOT_FOUND" \in Answers
        /\ {"CI_AUTH_FAILED", "CI_RATE_LIMITED", "CI_NOT_FOUND", "CI_PROVIDER_UNAVAILABLE",
            "CI_RESPONSE_INVALID"} \subseteq Answers
    BY DEF Answers
  <2>3. call' \in CallTypes
    BY <1>7, <2>1, <2>2, AnswerTypes DEF NothingFailed, AskFails, PostRefused
  <2> QED BY <1>1, <1>7, <2>3 DEF NothingFailed, AskFails, PostRefused, CiTypeOK
<1>8. ASSUME Post PROVE CiTypeOK'
  <2>1. PICK s \in RunStates : s = Changed(call.op)
    BY DEF Changed, RunStates
  <2>2. provider' \in [CiRuns -> RunStates] /\ since' \in [CiRuns -> SUBSET RunStates]
    BY <1>1, <1>8, <2>1 DEF Post, Become
  <2>3. \A status \in {"thrown", "5xx", "other"} : RefusalOf(status) \in Answers
    BY DEF RefusalOf, Answers
  <2>4. "CI_AUDIT_UNAVAILABLE" \in Answers /\ "accepted" \in Shown
    BY DEF Answers, Shown
  <2>5. call' \in CallTypes
    <3> DEFINE sent == [call EXCEPT !.left = <<>>, !.requests = 1, !.effects = @ + 1]
    <3>1. sent \in CallTypes
      BY <1>0, <1>1, LeftTypes DEF CallTypes
    <3>2. \/ call' = [sent EXCEPT !.at = "fitting", !.state = "accepted"]
          \/ \E status \in {"thrown", "5xx", "other"}, lost \in BOOLEAN :
               call' = [sent EXCEPT !.at = "answered", !.log = IF lost THEN @ ELSE Append(@, "failed"),
                                    !.answer = IF lost THEN "CI_AUDIT_UNAVAILABLE" ELSE RefusalOf(status)]
      BY <1>8 DEF Post
    <3> HIDE DEF sent
    <3>3. CASE call' = [sent EXCEPT !.at = "fitting", !.state = "accepted"]
      BY <2>4, <3>1, <3>3 DEF CallTypes, Settled
    <3>4. ASSUME NEW status \in {"thrown", "5xx", "other"}, NEW lost \in BOOLEAN,
                 call' = [sent EXCEPT !.at = "answered", !.log = IF lost THEN @ ELSE Append(@, "failed"),
                                      !.answer = IF lost THEN "CI_AUDIT_UNAVAILABLE" ELSE RefusalOf(status)]
          PROVE  call' \in CallTypes
      <4>1. (IF lost THEN sent.log ELSE Append(sent.log, "failed")) \in Seq(Outcomes)
        <5>1. sent.log \in Seq(Outcomes) /\ "failed" \in Outcomes
        BY <3>1 DEF CallTypes, Outcomes
      <5> QED BY <5>1, AppendProperties
      <4>2. (IF lost THEN "CI_AUDIT_UNAVAILABLE" ELSE RefusalOf(status)) \in Answers
        BY <2>3, <2>4
      <4> QED BY <3>1, <3>4, <4>1, <4>2 DEF CallTypes
    <3> QED BY <3>2, <3>3, <3>4
  <2> QED BY <2>2, <2>5 DEF CiTypeOK
<1>9. ASSUME Observed PROVE CiTypeOK'
  <2>1. call.at = "asking" /\ call.op \in Ops
    BY <1>9 DEF Observed, NotedInv
  <2>2. AggregateState(call.seen) \in Shown /\ "observed" \in Shown
    BY <1>1, PassIsUnanimous DEF CallTypes, Shown
  <2>3. Plan(call.op) \in AnyLeft
    BY <2>1, LeftTypes
  <2>4. ASSUME NEW state \in Shown, call' = [call EXCEPT !.at = "fitting", !.state = state]
        PROVE  call' \in CallTypes
    BY <1>1, <2>4 DEF CallTypes, Settled
  <2>5. ASSUME call' = [call EXCEPT !.left = Plan(call.op), !.seen = {}, !.limited = FALSE, !.requests = 0,
                                    !.observation = @ + 1]
        PROVE  call' \in CallTypes
    BY <1>0, <1>1, <2>3, <2>5 DEF CallTypes
  <2>6. call' \in CallTypes
    BY <1>9, <2>2, <2>4, <2>5 DEF Observed
  <2> QED BY <1>1, <1>9, <2>6 DEF Observed, CiTypeOK
<1>10. ASSUME Fit \/ RecordSuccess PROVE CiTypeOK'
  <2>1. {"ok", "CI_AUDIT_UNAVAILABLE", "CI_RESPONSE_LIMIT_EXCEEDED"} \subseteq Answers
    BY DEF Answers
  <2>2. call.log \in Seq(Outcomes)
    BY <1>1 DEF CallTypes
  <2>3. call' \in CallTypes
    BY ZenonT(60), <1>1, <1>10, <2>1, <2>2, AnswerTypes DEF Fit, RecordSuccess, CallTypes, Settled
  <2> QED BY <1>1, <1>10, <2>3 DEF Fit, RecordSuccess, CiTypeOK
<1>11. ASSUME Finished PROVE CiTypeOK'
  <2>1. NoCall \in CallTypes
    BY LeftTypes DEF NoCall, CallTypes, Idle, Answers, Shown
  <2> QED BY <1>1, <1>11, <2>1 DEF Finished, CiTypeOK
<1>12. ASSUME UNCHANGED ciVars PROVE CiTypeOK'
  BY <1>1, <1>12 DEF ciVars, CiTypeOK
<1> QED
  BY <1>2, <1>3, <1>4, <1>5, <1>6, <1>7, <1>8, <1>9, <1>10, <1>11, <1>12 DEF CiNext, CiStep

(* The logs there are.                                                     *)
LEMMA LogsOfCalls ==
  /\ Append(<<"decision">>, "failed") = <<"decision", "failed">>
  /\ Append(<<"decision">>, "success") = <<"decision", "success">>
  /\ <<"decision">> # <<>> /\ <<"decision", "failed">> # <<>> /\ <<"decision", "success">> # <<>>
  /\ <<"decision">>[1] = "decision" /\ <<"decision", "failed">>[1] = "decision"
  /\ <<"decision", "success">>[1] = "decision"
<1>1. ASSUME NEW a, NEW b PROVE Append(<<a>>, b) = <<a, b>>
  <2>1. <<a>> \in Seq({a, b}) /\ <<a, b>> \in Seq({a, b}) /\ Len(<<a>>) = 1 /\ Len(<<a, b>>) = 2
        /\ <<a>>[1] = a /\ <<a, b>>[1] = a /\ <<a, b>>[2] = b
    OBVIOUS
  <2>2. Append(<<a>>, b) \in Seq({a, b}) /\ Len(Append(<<a>>, b)) = 2
        /\ Append(<<a>>, b)[1] = a /\ Append(<<a>>, b)[2] = b
    BY <2>1, AppendProperties
  <2> DEFINE S == {a, b}
             s == Append(<<a>>, b)
             r == <<a, b>>
  <2>3. s \in Seq(S) /\ r \in Seq(S) /\ Len(s) = 2 /\ Len(r) = 2 /\ s[1] = r[1] /\ s[2] = r[2]
    BY <2>1, <2>2
  <2> HIDE DEF S, s, r
  <2>4. \A i \in 1..Len(s) : s[i] = r[i]
    <3>1. \A i \in 1..2 : i = 1 \/ i = 2
      OBVIOUS
    <3> QED BY <2>3, <3>1
  <2>5. s = r
    BY <2>3, <2>4, SeqEqual
  <2> QED BY <2>5 DEF s, r
<1>2. ASSUME NEW a PROVE <<a>> # <<>> /\ <<a>>[1] = a
  OBVIOUS
<1>3. ASSUME NEW a, NEW b PROVE <<a, b>> # <<>> /\ <<a, b>>[1] = a
  OBVIOUS
<1> QED BY <1>1, <1>2, <1>3

(* An answer other than "ok" needs no more than the right log.             *)
LEMMA RefusedStep ==
  ASSUME CallInv, UNCHANGED <<provider, since>>,
         call.at # "idle", call'.op = call.op, call'.run = call.run, call'.effects = call.effects,
         call'.at = "answered", call'.answer # "ok", ~(call.effects > 0),
         \/ call'.answer = "CI_AUDIT_UNAVAILABLE" /\ (call'.log = <<"decision">> \/ call'.requests = 0)
         \/ call'.answer # "CI_AUDIT_UNAVAILABLE" /\ call'.log = <<"decision", "failed">>
  PROVE  CallInv'
<1>1. NotedInv'
  BY DEF CallInv, NotedInv
<1>2. PlanInv' /\ SeenInv'
  BY DEF PlanInv, SeenInv
<1>3. ToldInv'
  BY DEF ToldInv, Told, Settled
<1>4. LogInv'
  BY DEF LogInv, Idle, Settled
<1>5. EffectInv'
  BY DEF EffectInv
<1> QED BY <1>1, <1>2, <1>3, <1>4, <1>5 DEF CallInv

(* #failed: a call that was decided on ends with its code, or unrecorded.  *)
LEMMA FailStep ==
  ASSUME CiTypeOK, CallInv, NEW code \in Answers \ {"ok", "CI_AUDIT_UNAVAILABLE"}, Fail(code),
         UNCHANGED <<provider, since>>, call.at \in {"asking"} \union Settled, ~(call.effects > 0)
  PROVE  CallInv'
<1>1. call \in CallTypes /\ call.at # "idle" /\ call.log = <<"decision">>
  BY DEF CiTypeOK, CallInv, LogInv, Settled
<1>2. ASSUME NEW log, NEW answer, Answer(log, answer)
      PROVE  /\ call'.op = call.op /\ call'.run = call.run /\ call'.effects = call.effects
             /\ call'.at = "answered" /\ call'.answer = answer /\ call'.log = log
  BY <1>1, <1>2 DEF Answer, CallTypes
<1>3. CASE Answer(Append(call.log, "failed"), code)
  BY <1>1, <1>2, <1>3, LogsOfCalls, RefusedStep
<1>4. CASE Answer(call.log, "CI_AUDIT_UNAVAILABLE")
  BY <1>1, <1>2, <1>4, RefusedStep
<1> QED BY <1>3, <1>4 DEF Fail

(* One question: what it has shown of the runs is among what they were.    *)
LEMMA AskStep ==
  ASSUME CiTypeOK, CallInv, NEW what \in {"repository", "commit", "checks", "runs", "run", "jobs", "log"}, Ask(what)
  PROVE  CallInv'
<1> DEFINE left == Rest(call.left, what)
           seen(page) == CASE what \in {"checks", "runs"} ->
                                call.seen \union {StateOf(provider[r]) : r \in page}
                           [] what = "jobs"               -> {StateOf(provider[call.run])}
                           [] OTHER                       -> call.seen
           limited(page) == call.limited \/ (what \in {"checks", "runs"} /\ PageLimited(page))
<1>1. PICK page \in SUBSET Existing :
        call' = [call EXCEPT !.requests = @ + 1, !.left = left, !.seen = seen(page), !.limited = limited(page)]
  BY DEF Ask
<1>2. /\ call.at = "asking" /\ call.left # <<>> /\ what \in call.left[1] /\ what # "mutation"
      /\ what = "log" => call.seen = {"FAIL"}
      /\ UNCHANGED <<provider, since>>
  BY DEF Ask, SelectsJob, FailedJob
<1>3. call.op \in Ops /\ call.run \in CiRuns /\ call.left \in Lefts(call.op)
  BY <1>2 DEF CallInv, NotedInv, PlanInv
<1>4. /\ left \in Lefts(call.op)
      /\ call.op = "ci.status" /\ left \in {<<{"checks"}>>, <<{"runs"}>>, <<>>} => what \in {"checks", "runs"}
      /\ call.op = "ci.failure" => /\ left = <<{"log"}>> => what = "jobs"
                                   /\ left = <<>> => call.left = <<{"log"}>> /\ what = "log"
  BY <1>2, <1>3, RestIsPlanned
<1>5. ASSUME what \in {"checks", "runs"}, ~limited(page), seen(page) \subseteq {"PASS"} PROVE AllPassed
  <2>1. page = Existing
    BY <1>5 DEF PageLimited, PageHidesSome
  <2>2. \A r \in Existing : StateOf(provider[r]) = "PASS"
    BY <1>5, <2>1
  <2>3. ASSUME NEW r \in CiRuns PROVE provider[r] \in {"absent", "success"}
    <3>1. provider[r] \in RunStates
      BY DEF CiTypeOK
    <3> QED BY <2>2, <3>1, StatesOfRuns DEF Existing
  <2>4. \A r \in CiRuns : provider[r] \in since[r]
    BY <1>2 DEF CallInv, NotedInv
  <2> QED BY <2>3, <2>4 DEF AllPassed
<1>6. ASSUME what = "jobs", seen(page) = {"FAIL"} PROVE "failure" \in since[call.run]
  <2>1. StateOf(provider[call.run]) = "FAIL"
    BY <1>6
  <2>2. provider[call.run] \in RunStates /\ provider[call.run] \in since[call.run]
    BY <1>2, <1>3 DEF CiTypeOK, CallInv, NotedInv
  <2> QED BY <2>1, <2>2, StatesOfRuns
<1>7. what = "log" => seen(page) = call.seen
  OBVIOUS
<1> HIDE DEF left, seen, limited
<1>8. /\ call'.at = "asking" /\ call'.op = call.op /\ call'.run = call.run /\ call'.left = left
      /\ call'.seen = seen(page) /\ call'.limited = limited(page) /\ call'.effects = call.effects
      /\ call'.log = call.log
  BY <1>1, <1>2 DEF CiTypeOK, CallTypes
<1>9. NotedInv' /\ PlanInv'
  BY <1>2, <1>3, <1>4, <1>8 DEF CallInv, NotedInv, PlanInv
<1>10. SeenInv'
  <2>1. ASSUME call.op = "ci.status", ~limited(page), seen(page) \subseteq {"PASS"},
               left \in {<<{"checks"}>>, <<{"runs"}>>, <<>>}
        PROVE  AllPassed'
    BY <1>2, <1>4, <1>5, <2>1 DEF AllPassed
  <2>2. ASSUME call.op = "ci.failure", left \in {<<{"log"}>>, <<>>}, seen(page) = {"FAIL"}
        PROVE  "failure" \in since[call.run]
    BY <1>2, <1>4, <1>6, <1>7, <2>2 DEF CallInv, SeenInv
  <2>3. ASSUME call.op = "ci.failure", left = <<>> PROVE seen(page) = {"FAIL"}
    BY <1>2, <1>4, <1>7, <2>3
  <2> QED BY <1>2, <1>8, <2>1, <2>2, <2>3 DEF SeenInv
<1>11. ToldInv' /\ LogInv' /\ EffectInv'
  BY <1>2, <1>8 DEF CallInv, ToldInv, Told, LogInv, EffectInv, Settled, Idle
<1> QED BY <1>9, <1>10, <1>11 DEF CallInv

(* All the other steps.                                                    *)
LEMMA CallStep == CiTypeOK /\ CiTypeOK' /\ CallInv /\ [CiNext]_ciVars => CallInv'
<1> SUFFICES ASSUME CiTypeOK, CiTypeOK', CallInv, [CiNext]_ciVars PROVE CallInv'
  OBVIOUS
<1>0. call \in CallTypes /\ provider \in [CiRuns -> RunStates] /\ since \in [CiRuns -> SUBSET RunStates]
  BY DEF CiTypeOK
<1>1. ASSUME NEW r \in CiRuns, NEW s, Become(r, s)
      PROVE  /\ \A q \in CiRuns : provider[q] \in since[q] => provider'[q] \in since'[q]
             /\ AllPassed => AllPassed'
             /\ \A q \in CiRuns : since[q] \subseteq since'[q]
  BY <1>0, <1>1 DEF Become, AllPassed
<1>2. ASSUME NEW r \in CiRuns, ProviderMoves(r) PROVE CallInv'
  <2>1. PICK s : Become(r, s)
    BY <1>2 DEF ProviderMoves
  <2>2. call' = call
    BY <1>2 DEF ProviderMoves
  <2>3. /\ \A q \in CiRuns : provider[q] \in since[q] => provider'[q] \in since'[q]
        /\ AllPassed => AllPassed'
        /\ \A q \in CiRuns : since[q] \subseteq since'[q]
    BY <1>1, <2>1
  <2>4. NotedInv' /\ PlanInv' /\ LogInv' /\ EffectInv'
    BY <2>2, <2>3 DEF CallInv, NotedInv, PlanInv, LogInv, EffectInv, Told
  <2>5. call.at # "idle" => call.run \in CiRuns
    BY DEF CallInv, NotedInv
  <2>6. SeenInv'
    BY <2>2, <2>3, <2>5 DEF CallInv, SeenInv
  <2>7. ToldInv'
    BY <2>2, <2>3, <2>5 DEF CallInv, ToldInv, Told, Settled
  <2> QED BY <2>4, <2>6, <2>7 DEF CallInv
<1>3. ASSUME Begin PROVE CallInv'
  <2>1. PICK op \in Ops, r \in CiRuns, w \in BOOLEAN :
          call' = [NoCall EXCEPT !.at = "resolved", !.op = op, !.run = r, !.wait = w]
    BY <1>3 DEF Begin
  <2>2. /\ call'.at = "resolved" /\ call'.op \in Ops /\ call'.run \in CiRuns /\ call'.log = <<>>
        /\ call'.requests = 0 /\ call'.effects = 0
    BY <2>1 DEF NoCall
  <2>3. \A q \in CiRuns : provider'[q] \in since'[q]
    BY <1>3 DEF Begin
  <2> QED
    BY <2>2, <2>3 DEF CallInv, NotedInv, PlanInv, SeenInv, ToldInv, Told, LogInv, EffectInv, Idle, Settled
<1>4. ASSUME Decide PROVE CallInv'
  <2>1. /\ call.at = "resolved" /\ UNCHANGED <<provider, since>> /\ call.op \in Ops /\ call.run \in CiRuns
        /\ ~(call.effects > 0) /\ call.requests = 0
    BY <1>4 DEF Decide, CallInv, NotedInv, EffectInv, Told, LogInv, Idle, Settled
  <2>2. CASE call' = [call EXCEPT !.at = "asking", !.log = <<"decision">>, !.left = Plan(call.op), !.observation = 1]
    <3>1. /\ call'.at = "asking" /\ call'.op = call.op /\ call'.run = call.run /\ call'.left = Plan(call.op)
          /\ call'.effects = call.effects /\ call'.log = <<"decision">>
      BY <1>0, <2>2 DEF CallTypes
    <3>2. /\ Plan(call.op) \in Lefts(call.op)
          /\ call.op = "ci.status" => Plan(call.op) \notin {<<{"checks"}>>, <<{"runs"}>>, <<>>}
          /\ call.op = "ci.failure" => Plan(call.op) \notin {<<{"log"}>>, <<>>}
      BY <2>1, PlanIsLeft
    <3>3. NotedInv' /\ PlanInv' /\ SeenInv'
      BY <2>1, <3>1, <3>2 DEF CallInv, NotedInv, PlanInv, SeenInv
    <3>4. ToldInv' /\ LogInv' /\ EffectInv'
      BY <2>1, <3>1 DEF ToldInv, Told, LogInv, EffectInv, Idle, Settled
    <3> QED BY <3>3, <3>4 DEF CallInv
  <2>3. CASE Answer(<<>>, "CI_AUDIT_UNAVAILABLE")
    <3>1. /\ call'.at = "answered" /\ call'.answer = "CI_AUDIT_UNAVAILABLE" /\ call'.requests = 0
          /\ call'.op = call.op /\ call'.run = call.run /\ call'.effects = call.effects
      BY <1>0, <2>1, <2>3 DEF Answer, CallTypes
    <3> QED BY <2>1, <3>1, RefusedStep
  <2> QED BY <1>4, <2>2, <2>3 DEF Decide
<1>5. ASSUME call.at = "asking"
      PROVE  /\ call.op \in Ops /\ call.run \in CiRuns /\ call.left \in Lefts(call.op)
             /\ ~(call.effects > 0) /\ call.log = <<"decision">>
  BY <1>5 DEF CallInv, NotedInv, PlanInv, EffectInv, LogInv, Told, Settled
<1>6. ASSUME NoCredential PROVE CallInv'
  <2>1. call.at = "asking" /\ UNCHANGED <<provider, since>>
    BY <1>6 DEF NoCredential
  <2>2. CASE call.op = "ci.repository"
    <3>1. call' = [call EXCEPT !.at = "fitting", !.state = "REQUIRED", !.left = <<>>]
      BY <1>6, <2>2 DEF NoCredential
    <3>2. /\ call'.at = "fitting" /\ call'.op = "ci.repository" /\ call'.run = call.run /\ call'.log = call.log
          /\ call'.effects = call.effects /\ call'.state = "REQUIRED"
      BY <1>0, <2>2, <3>1 DEF CallTypes
    <3>3. NotedInv' /\ PlanInv' /\ SeenInv'
      BY <1>5, <2>1, <2>2, <3>2 DEF CallInv, NotedInv, PlanInv, SeenInv
    <3>4. ToldInv' /\ LogInv' /\ EffectInv'
      BY <1>5, <2>1, <3>2 DEF ToldInv, Told, LogInv, EffectInv, Idle, Settled
    <3> QED BY <3>3, <3>4 DEF CallInv
  <2>3. CASE call.op # "ci.repository"
    BY <1>5, <1>6, <2>1, <2>3, FailStep DEF NoCredential, Answers
  <2> QED BY <2>2, <2>3
<1>7. ASSUME NothingFailed \/ AskFails \/ PostRefused PROVE CallInv'
  <2>1. \A status \in {"thrown", "401", "429", "running", "403", "404", "5xx", "other"} :
          RefusalOf(status) \in Answers \ {"ok", "CI_AUDIT_UNAVAILABLE"}
    BY DEF RefusalOf, Answers
  <2>2. {"CI_AUTH_FAILED", "CI_RATE_LIMITED", "CI_NOT_FOUND", "CI_PROVIDER_UNAVAILABLE", "CI_RESPONSE_INVALID"}
          \subseteq Answers \ {"ok", "CI_AUDIT_UNAVAILABLE"}
    BY DEF Answers
  <2>3. call.at = "asking" /\ UNCHANGED <<provider, since>>
    BY <1>7 DEF NothingFailed, AskFails, PostRefused
  <2>4. PICK code \in Answers \ {"ok", "CI_AUDIT_UNAVAILABLE"} : Fail(code)
    BY <1>7, <2>1, <2>2 DEF NothingFailed, AskFails, PostRefused
  <2> QED BY <1>5, <2>3, <2>4, FailStep
<1>8. ASSUME Post PROVE CallInv'
  <2>1. call.at = "asking" /\ call.left = <<{"mutation"}>> /\ Become(call.run, Changed(call.op))
    BY <1>8 DEF Post
  <2>2. call.op \in Mutations /\ call.op \notin {"ci.status", "ci.failure"}
    BY <1>5, <2>1, PlanIsLeft DEF Mutations
  <2>3. \A q \in CiRuns : provider'[q] \in since'[q]
    BY <1>1, <1>5, <2>1 DEF CallInv, NotedInv
  <2> DEFINE sent == [call EXCEPT !.left = <<>>, !.requests = 1, !.effects = @ + 1]
  <2>4. /\ sent \in [at : {"asking"}, op : {call.op}, run : {call.run}, wait : BOOLEAN, left : {<<>>},
                     seen : SUBSET States, observation : Nat, requests : {1}, limited : BOOLEAN,
                     effects : Nat, log : {<<"decision">>}, answer : Answers, state : Shown]
    <3>1. call.effects + 1 \in Nat
      BY <1>0 DEF CallTypes
    <3> QED BY <1>0, <1>5, <2>1, <3>1 DEF CallTypes
  <2>5. \/ call' = [sent EXCEPT !.at = "fitting", !.state = "accepted"]
        \/ \E status \in {"thrown", "5xx", "other"}, lost \in BOOLEAN :
             call' = [sent EXCEPT !.at = "answered", !.log = IF lost THEN @ ELSE Append(@, "failed"),
                                  !.answer = IF lost THEN "CI_AUDIT_UNAVAILABLE" ELSE RefusalOf(status)]
    BY <1>8 DEF Post
  <2> HIDE DEF sent
  <2>6. CASE call' = [sent EXCEPT !.at = "fitting", !.state = "accepted"]
    <3>1. /\ call'.at = "fitting" /\ call'.state = "accepted" /\ call'.op = call.op /\ call'.run = call.run
          /\ call'.log = <<"decision">>
      BY <2>4, <2>6
    <3>2. NotedInv' /\ PlanInv' /\ SeenInv'
      BY <1>5, <2>1, <2>3, <3>1 DEF NotedInv, PlanInv, SeenInv
    <3>3. ToldInv' /\ LogInv' /\ EffectInv'
      BY <2>2, <3>1 DEF ToldInv, Told, LogInv, EffectInv, Idle, Settled
    <3> QED BY <3>2, <3>3 DEF CallInv
  <2>7. ASSUME NEW status \in {"thrown", "5xx", "other"}, NEW lost \in BOOLEAN,
               call' = [sent EXCEPT !.at = "answered", !.log = IF lost THEN @ ELSE Append(@, "failed"),
                                    !.answer = IF lost THEN "CI_AUDIT_UNAVAILABLE" ELSE RefusalOf(status)]
        PROVE  CallInv'
    <3>1. RefusalOf(status) \in {"CI_MUTATION_OUTCOME_UNKNOWN", "CI_PROVIDER_UNAVAILABLE", "CI_RESPONSE_INVALID"}
      BY DEF RefusalOf
    <3>2. /\ call'.at = "answered" /\ call'.op = call.op /\ call'.run = call.run
          /\ \/ call'.answer = "CI_AUDIT_UNAVAILABLE" /\ call'.log = <<"decision">>
             \/ call'.answer = RefusalOf(status) /\ call'.log = <<"decision", "failed">>
      BY <2>4, <2>7, LogsOfCalls
    <3>3. NotedInv' /\ PlanInv' /\ SeenInv'
      BY <1>5, <2>1, <2>3, <3>2 DEF NotedInv, PlanInv, SeenInv
    <3>4. ToldInv' /\ LogInv' /\ EffectInv'
      BY <2>2, <3>1, <3>2 DEF ToldInv, Told, LogInv, EffectInv, Idle, Settled
    <3> QED BY <3>3, <3>4 DEF CallInv
  <2> QED BY <2>5, <2>6, <2>7
<1>9. ASSUME Observed PROVE CallInv'
  <2>1. call.at = "asking" /\ call.left = <<>> /\ UNCHANGED <<provider, since>>
    BY <1>9 DEF Observed
  <2> DEFINE state == IF call.op = "ci.status" THEN AggregateState(call.seen) ELSE "observed"
  <2>2. state = "PASS" /\ ~call.limited => AllPassed
    BY <1>0, <2>1, PassIsUnanimous DEF CallTypes, CallInv, SeenInv
  <2>3. call.op = "ci.failure" => "failure" \in since[call.run]
    BY <2>1 DEF CallInv, SeenInv
  <2>4. \/ call' = [call EXCEPT !.at = "fitting", !.state = state]
        \/ call' = [call EXCEPT !.left = Plan(call.op), !.seen = {}, !.limited = FALSE, !.requests = 0,
                                !.observation = @ + 1]
    BY <1>9 DEF Observed
  <2> HIDE DEF state
  <2>5. CASE call' = [call EXCEPT !.at = "fitting", !.state = state]
    <3>1. /\ call'.at = "fitting" /\ call'.op = call.op /\ call'.run = call.run /\ call'.log = call.log
          /\ call'.effects = call.effects /\ call'.state = state /\ call'.limited = call.limited
      BY <1>0, <2>5 DEF CallTypes
    <3>2. NotedInv' /\ PlanInv' /\ SeenInv'
      BY <1>5, <2>1, <3>1 DEF CallInv, NotedInv, PlanInv, SeenInv
    <3>3. ToldInv'
      BY <2>1, <2>2, <2>3, <3>1 DEF ToldInv, Told, AllPassed
    <3>4. LogInv' /\ EffectInv'
      BY <1>5, <2>1, <3>1 DEF LogInv, EffectInv, Idle, Settled
    <3> QED BY <3>2, <3>3, <3>4 DEF CallInv
  <2>6. CASE call' = [call EXCEPT !.left = Plan(call.op), !.seen = {}, !.limited = FALSE, !.requests = 0,
                                  !.observation = @ + 1]
    <3>1. /\ call'.at = "asking" /\ call'.op = call.op /\ call'.run = call.run /\ call'.log = call.log
          /\ call'.effects = call.effects /\ call'.left = Plan(call.op)
      BY <1>0, <2>1, <2>6 DEF CallTypes
    <3>2. /\ Plan(call.op) \in Lefts(call.op)
          /\ call.op = "ci.status" => Plan(call.op) \notin {<<{"checks"}>>, <<{"runs"}>>, <<>>}
          /\ call.op = "ci.failure" => Plan(call.op) \notin {<<{"log"}>>, <<>>}
      BY <1>5, <2>1, PlanIsLeft
    <3>3. NotedInv' /\ PlanInv' /\ SeenInv'
      BY <1>5, <2>1, <3>1, <3>2 DEF CallInv, NotedInv, PlanInv, SeenInv
    <3>4. ToldInv' /\ LogInv' /\ EffectInv'
      BY <1>5, <2>1, <3>1 DEF ToldInv, Told, LogInv, EffectInv, Idle, Settled
    <3> QED BY <3>3, <3>4 DEF CallInv
  <2> QED BY <2>4, <2>5, <2>6
<1>10. ASSUME call.at \in Settled
       PROVE  /\ call.op \in Ops /\ call.run \in CiRuns /\ call.log = <<"decision">>
              /\ call.state = "PASS" /\ ~call.limited => AllPassed
              /\ call.op = "ci.failure" => "failure" \in since[call.run]
              /\ call.effects > 0 => call.op \in Mutations
  BY <1>10 DEF CallInv, NotedInv, LogInv, ToldInv, EffectInv, Settled
<1>11. ASSUME Fit PROVE CallInv'
  <2>1. call.at = "fitting" /\ call.at \in Settled /\ UNCHANGED <<provider, since>>
    BY <1>11 DEF Fit, Settled
  <2>2. ASSUME NEW l \in BOOLEAN, call' = [call EXCEPT !.at = "recording", !.limited = l], call.limited => l
        PROVE  CallInv'
    <3>1. /\ call'.at = "recording" /\ call'.op = call.op /\ call'.run = call.run /\ call'.log = call.log
          /\ call'.effects = call.effects /\ call'.state = call.state /\ call'.limited = l
      BY <1>0, <2>2 DEF CallTypes
    <3>2. NotedInv' /\ PlanInv' /\ SeenInv'
      BY <1>10, <2>1, <3>1 DEF CallInv, NotedInv, PlanInv, SeenInv
    <3>3. ToldInv'
      BY <1>10, <2>1, <2>2, <3>1 DEF ToldInv, Told, AllPassed
    <3>4. LogInv' /\ EffectInv'
      BY <1>10, <2>1, <3>1 DEF LogInv, EffectInv, Idle, Settled
    <3> QED BY <3>2, <3>3, <3>4 DEF CallInv
  <2>3. CASE call' = [call EXCEPT !.at = "recording"]
    <3>1. call.limited \in BOOLEAN /\ call' = [call EXCEPT !.at = "recording", !.limited = call.limited]
      BY <1>0, <2>3 DEF CallTypes
    <3> QED BY <2>2, <3>1
  <2>4. CASE call' = [call EXCEPT !.at = "recording", !.limited = TRUE]
    BY <2>2, <2>4
  <2>5. CASE call.op \notin Mutations /\ Fail("CI_RESPONSE_LIMIT_EXCEEDED")
    BY <1>10, <2>1, <2>5, FailStep DEF Answers
  <2> QED BY <1>11, <2>3, <2>4, <2>5 DEF Fit
<1>12. ASSUME RecordSuccess PROVE CallInv'
  <2>1. call.at = "recording" /\ call.at \in Settled /\ UNCHANGED <<provider, since>>
    BY <1>12 DEF RecordSuccess, Settled
  <2>2. PICK log \in {<<"decision">>, <<"decision", "success">>}, answer \in {"ok", "CI_AUDIT_UNAVAILABLE"} :
          /\ Answer(log, answer)
          /\ answer = "ok" <=> log = <<"decision", "success">>
    BY <1>10, <1>12, <2>1, LogsOfCalls DEF RecordSuccess
  <2>3. /\ call'.at = "answered" /\ call'.op = call.op /\ call'.run = call.run /\ call'.log = log
        /\ call'.answer = answer /\ call'.effects = call.effects /\ call'.state = call.state
        /\ call'.limited = call.limited
    BY <1>0, <2>2 DEF CallTypes, Answer
  <2>4. NotedInv' /\ PlanInv' /\ SeenInv'
    BY <1>10, <2>1, <2>3 DEF CallInv, NotedInv, PlanInv, SeenInv
  <2>5. ToldInv'
    BY <1>10, <2>1, <2>3 DEF ToldInv, Told, AllPassed, Settled
  <2>6. LogInv' /\ EffectInv'
    BY <1>10, <2>1, <2>2, <2>3 DEF LogInv, EffectInv, Told, Idle, Settled
  <2> QED BY <2>4, <2>5, <2>6 DEF CallInv
<1>13. ASSUME Finished PROVE CallInv'
  <2>1. call' = NoCall
    BY <1>13 DEF Finished
  <2> QED
    BY <2>1 DEF NoCall, CallInv, NotedInv, PlanInv, SeenInv, ToldInv, Told, LogInv, EffectInv, Idle, Settled
<1>14. ASSUME UNCHANGED ciVars PROVE CallInv'
  BY <1>14
  DEF ciVars, CallInv, NotedInv, PlanInv, SeenInv, AllPassed, ToldInv, Told, LogInv, EffectInv
<1> QED
  BY <1>2, <1>3, <1>4, <1>6, <1>7, <1>8, <1>9, <1>11, <1>12, <1>13, <1>14, AskStep DEF CiNext, CiStep

(* What the invariant says of an answer.                                   *)
LEMMA CiTold == CiInv => CiTellsTheTruth
<1> SUFFICES ASSUME CiInv PROVE CiTellsTheTruth
  OBVIOUS
<1>1. call \in CallTypes /\ ToldInv /\ LogInv /\ EffectInv
  BY DEF CiInv, CallInv, CiTypeOK
<1>2. (Told({"ok"}) /\ call.state = "PASS" /\ ~call.limited) => AllPassed
  BY <1>1 DEF ToldInv
<1>3. (Told({"ok"}) /\ call.op = "ci.failure") => "failure" \in since[call.run]
  BY <1>1 DEF ToldInv
<1>4. call.requests > 0 => call.log # <<>> /\ call.log[1] = "decision"
  <2>1. call.at \in Idle \union Settled \union {"asking", "answered"} /\ call.requests \in Nat
    BY <1>1 DEF CallTypes
  <2>2. call.at \notin Idle /\ ~(call.answer = "CI_AUDIT_UNAVAILABLE" /\ call.requests = 0)
          => call.log \in {<<"decision">>, <<"decision", "failed">>, <<"decision", "success">>}
    BY <1>1, <2>1 DEF LogInv
  <2>3. call.requests > 0 => call.at \notin Idle
    BY <1>1 DEF LogInv
  <2> QED BY <2>1, <2>2, <2>3, LogsOfCalls
<1>5. Told({"ok"}) => call.log = <<"decision", "success">>
  BY <1>1 DEF LogInv, Told
<1>6. call.at = "answered" /\ ~Told({"ok", "CI_AUDIT_UNAVAILABLE"}) => call.log = <<"decision", "failed">>
  BY <1>1 DEF LogInv, Told
<1>7. call.at = "answered" /\ call.effects > 0 =>
        ~Told({"CI_AUTH_FAILED", "CI_RATE_LIMITED", "CI_MUTATION_STATE_CONFLICT", "CI_PERMISSION_DENIED",
               "CI_NOT_FOUND"})
  BY <1>1 DEF EffectInv, Told, Settled
<1> QED BY <1>2, <1>3, <1>4, <1>5, <1>6, <1>7 DEF CiTellsTheTruth, AllPassed

(* What RemoteCiService answers is true of the provider and of the log: an *)
(* untruncated PASS was a success of every run there was, a failure that   *)
(* is shown was one, whatever reached the provider was decided on record,  *)
(* and a change that was made is never told as one that was turned down,   *)
(* for any number of runs, any page limit and any number of observations,  *)
(* however the provider moves between the questions.                       *)
THEOREM CiIsTrue == CiSpec => []CiTellsTheTruth
<1>1. CiInit => CiInv
  BY CiStarts
<1>2. CiInv /\ [CiNext]_ciVars => CiInv'
  <2> SUFFICES ASSUME CiInv, [CiNext]_ciVars PROVE CiInv'
    OBVIOUS
  <2>1. CiTypeOK'
    BY CiTypeStep DEF CiInv, CallInv
  <2>2. CallInv'
    BY <2>1, CallStep DEF CiInv, CallInv
  <2> QED BY <2>1, <2>2 DEF CiInv, CallInv
<1>3. CiInv => CiTellsTheTruth
  BY CiTold
<1> QED BY <1>1, <1>2, <1>3, PTL DEF CiSpec

-----------------------------------------------------------------------------
(* The provider gateway: ProviderGateway.                                  *)

ProviderRecords == [enabled : BOOLEAN, identity : Nat, inventory : Nat]
ExecPlaces == {"idle", "selected", "required", "deciding", "acquiring", "verifying", "sending", "parsing", "recording", "answered"}
CommandPlaces == {"idle", "resolving", "deciding", "fetching", "writing", "recording", "undoing", "answered"}

GatewayTypeOK ==
  /\ dynamic \in BOOLEAN
  /\ record \in ProviderRecords
  /\ world \in [identity : {1, 2}, inventory : {1, 2}]
  /\ DOMAIN exec = DOMAIN NoExec /\ exec.at \in ExecPlaces
  /\ exec.requests \in Nat /\ exec.retry \in BOOLEAN /\ exec.performed \in BOOLEAN /\ exec.response \in BOOLEAN
  /\ exec.effect \in {"REMOTE_READ", "REMOTE_MUTATION"}
  /\ DOMAIN execSince = DOMAIN Nothing

(* What there is while a call is under way, it may come to rely on.        *)
SinceInv ==
  exec.at # "idle" => /\ record \in execSince.records
                      /\ world.identity \in execSince.identities
                      /\ world.inventory \in execSince.inventories

(* What has been looked at, by where the call is.                          *)
Sent == exec.requests > 0
WasRequired == Sent \/ exec.at \in {"required", "deciding", "acquiring", "verifying", "sending", "parsing", "recording"}
WasIdentified == Sent \/ exec.at \in {"deciding", "acquiring", "verifying", "sending", "parsing", "recording"}
WasDecided == exec.at \in {"acquiring", "verifying", "sending", "parsing", "recording"}
WasVerified == Sent \/ exec.at \in {"sending", "parsing", "recording"}
ExecInv ==
  /\ exec.retry => exec.effect = "REMOTE_READ"
  /\ WasRequired => exec.provider \in execSince.records /\ exec.provider.enabled
  /\ WasIdentified => exec.provider.identity \in execSince.identities
  /\ WasVerified /\ dynamic => exec.provider.inventory \in execSince.inventories
  /\ WasDecided => exec.log = <<"decision">>
  /\ exec.at \in {"selected", "required", "deciding"} => exec.log = <<>>
  /\ Sent => exec.log # <<>> /\ exec.at \in {"sending", "parsing", "recording", "answered"}
  /\ exec.at = "sending" => exec.requests <= (IF exec.retry THEN 1 ELSE 0)
  /\ exec.requests <= (IF exec.retry THEN 2 ELSE 1)
  /\ exec.at \in {"parsing", "recording"} => exec.performed /\ exec.response
  /\ exec.at \notin {"parsing", "recording", "answered"} => ~exec.response
  /\ exec.performed /\ exec.effect = "REMOTE_MUTATION" => exec.at \in {"parsing", "recording", "answered"}
  /\ exec.at # "answered" => exec.answer = "none"
  /\ exec.answer = "ok" => exec.performed /\ exec.log = <<"decision", "success">>
  /\ (exec.effect = "REMOTE_MUTATION" /\ exec.performed /\ exec.at = "answered") =>
       exec.answer \in {"ok", "PROVIDER_MUTATION_OUTCOME_UNKNOWN", "PROVIDER_RESPONSE_INVALID", "PROVIDER_AUDIT_UNAVAILABLE"}

(* A command that has been alone leaves the record as it found it until it *)
(* writes, and knows from then on what may stand there.                    *)
CommandOK(c) ==
  /\ DOMAIN c = DOMAIN NoCommand
  /\ c.at \in CommandPlaces /\ c.alone \in BOOLEAN
  /\ c.op \in {"none", "add", "disable", "remove", "reapprove", "enable"}
  /\ c.current \in ProviderRecords /\ c.updated \in ProviderRecords
CommandStands(c, r) ==
  /\ c.at # "idle" => c.op # "none" /\ ((c.op = "add") = (c.current = NoRecord))
  /\ c.at # "answered" => c.answer = "none"
  /\ c.at \in {"resolving", "fetching"} => c.op # "remove"
  /\ c.at \in {"deciding", "fetching", "writing", "recording", "undoing"} /\ c.op = "remove" => c.updated = NoRecord
  /\ c.alone => /\ c.at \in {"resolving", "deciding", "fetching", "writing"} => r = c.current
                /\ c.at = "recording" => r = c.updated
                /\ c.at = "undoing" => r \in {c.current, c.updated}
                /\ c.answer = "ok" => r = c.updated
                /\ c.answer \in {"failed", "PROVIDER_IDENTITY_CHANGED"} => r = c.current
CommandInv ==
  /\ DOMAIN operator = Operators
  /\ \A o \in Operators : CommandOK(operator[o]) /\ CommandStands(operator[o], record)
  /\ \A o, p \in Operators : o # p /\ operator[o].at # "idle" /\ operator[o].alone => operator[p].at = "idle"

GatewayInv == GatewayTypeOK /\ SinceInv /\ ExecInv /\ CommandInv

(* A failure ends a call wherever it is, and what it answers of a mutation *)
(* that was made is not that the provider refused it.                      *)
Failing(e, code) ==
  /\ DOMAIN e = DOMAIN NoExec
  /\ e.requests \in Nat /\ e.retry \in BOOLEAN /\ e.performed \in BOOLEAN /\ e.response \in BOOLEAN
  /\ e.effect \in {"REMOTE_READ", "REMOTE_MUTATION"} /\ (e.retry => e.effect = "REMOTE_READ")
  /\ e.log \in {<<>>, <<"decision">>}
  /\ e.requests > 0 =>
       /\ e.provider \in execSince.records /\ e.provider.enabled
       /\ e.provider.identity \in execSince.identities
       /\ dynamic => e.provider.inventory \in execSince.inventories
       /\ e.log # <<>>
  /\ e.requests <= (IF e.retry THEN 2 ELSE 1)
  /\ e.effect = "REMOTE_MUTATION" /\ e.performed =>
       OutcomeUnknown(e, code) \/ code \in {"PROVIDER_RESPONSE_INVALID", "PROVIDER_AUDIT_UNAVAILABLE"}
  /\ code # "ok"

LEMMA FailureIsTold ==
  ASSUME GatewayTypeOK, SinceInv, NEW e, NEW code, Failing(e, code), exec.at # "idle",
         FailedWith(e, code), ExecStep
  PROVE  GatewayTypeOK' /\ SinceInv' /\ ExecInv'
<1>1. PICK recorded \in BOOLEAN :
        exec' = [e EXCEPT !.at = "answered",
                          !.log = IF e.log # <<>> /\ recorded THEN Append(e.log, "failed") ELSE e.log,
                          !.answer = IF Unknown(e, code) THEN "PROVIDER_MUTATION_OUTCOME_UNKNOWN"
                                     ELSE IF e.log # <<>> /\ ~recorded THEN "PROVIDER_AUDIT_UNAVAILABLE"
                                     ELSE code]
  BY DEF FailedWith
<1>2. /\ exec'.at = "answered" /\ DOMAIN exec' = DOMAIN NoExec
      /\ exec'.log = (IF e.log # <<>> /\ recorded THEN Append(e.log, "failed") ELSE e.log)
      /\ exec'.requests = e.requests /\ exec'.retry = e.retry /\ exec'.effect = e.effect
      /\ exec'.provider = e.provider /\ exec'.performed = e.performed /\ exec'.response = e.response
      /\ exec'.answer = (IF Unknown(e, code) THEN "PROVIDER_MUTATION_OUTCOME_UNKNOWN"
                         ELSE IF e.log # <<>> /\ ~recorded THEN "PROVIDER_AUDIT_UNAVAILABLE" ELSE code)
  BY <1>1 DEF Failing, NoExec
<1>3. GatewayTypeOK' /\ SinceInv'
  BY <1>2 DEF Failing, GatewayTypeOK, SinceInv, ExecPlaces, ExecStep
<1>4. exec'.log # <<>> \/ e.log = <<>>
  BY <1>2 DEF Failing
<1> QED
  BY <1>2, <1>3, <1>4 DEF Failing, ExecInv, ExecStep, Sent, WasRequired, WasIdentified, WasDecided, WasVerified, Unknown

LEMMA ExecuteStep ==
  ASSUME GatewayTypeOK, SinceInv, ExecInv, Execute
  PROVE  GatewayTypeOK' /\ SinceInv' /\ ExecInv'
<1> USE DEF Sent, WasRequired, WasIdentified, WasDecided, WasVerified
<1>0. <<"decision">> # <<>>
  OBVIOUS
<1>1. /\ DOMAIN exec = {"at", "effect", "retry", "provider", "requests", "response", "performed", "log", "answer"}
      /\ ExecStep /\ exec.at # "idle"
  BY DEF Execute, Require, CheckIdentity, RecordDecision, Acquire, VerifyInventory, Send, ParseOutput, RecordResult,
         GatewayTypeOK, NoExec
<1>2. ASSUME NEW code, ExecFails(code), code # "ok",
             exec.at \in {"selected", "required", "deciding", "acquiring", "verifying", "parsing", "recording"}
      PROVE  GatewayTypeOK' /\ SinceInv' /\ ExecInv'
  <2>1. exec.log \in {<<>>, <<"decision">>} /\ (WasDecided => exec.log # <<>>)
    BY <1>0, <1>2 DEF ExecInv
  <2>2. exec.effect = "REMOTE_MUTATION" /\ exec.performed => OutcomeUnknown(exec, code)
    BY <1>2, <2>1 DEF ExecInv, OutcomeUnknown
  <2>3. exec.requests > 0 =>
          /\ exec.provider \in execSince.records /\ exec.provider.enabled
          /\ exec.provider.identity \in execSince.identities
          /\ dynamic => exec.provider.inventory \in execSince.inventories
          /\ exec.log # <<>>
    BY DEF ExecInv
  <2>4. Failing(exec, code)
    BY <1>2, <2>1, <2>2, <2>3 DEF GatewayTypeOK, ExecInv, Failing
  <2> QED BY <1>1, <1>2, <2>4, FailureIsTold DEF ExecFails
<1>3. ASSUME NEW place \in ExecPlaces, ExecTo(place)
      PROVE  /\ exec'.at = place
             /\ UNCHANGED <<DOMAIN exec, exec.requests, exec.retry, exec.effect, exec.provider, exec.performed, exec.response,
                            exec.log, exec.answer>>
  BY <1>1, <1>3 DEF ExecTo
<1>4. CASE Require
  <2>1. CASE exec' = [exec EXCEPT !.at = "required", !.provider = record] /\ record.enabled
    BY <1>1, <1>4, <2>1 DEF Require, GatewayTypeOK, SinceInv, ExecInv, ExecStep, ExecPlaces, NoExec
  <2> QED BY <1>2, <1>4, <2>1 DEF Require, Admitted
<1>5. CASE CheckIdentity
  <2>1. CASE ExecTo("deciding") /\ IdentityMatches(exec.provider)
    BY <1>1, <1>3, <1>5, <2>1 DEF CheckIdentity, IdentityMatches, GatewayTypeOK, SinceInv, ExecInv, ExecStep, ExecPlaces
  <2> QED BY <1>2, <1>5, <2>1 DEF CheckIdentity
<1>6. CASE RecordDecision
  <2>1. CASE exec' = [exec EXCEPT !.at = "acquiring", !.log = <<"decision">>]
    BY <1>1, <1>6, <2>1 DEF RecordDecision, GatewayTypeOK, SinceInv, ExecInv, ExecStep, ExecPlaces, NoExec
  <2> QED BY <1>2, <1>6, <2>1 DEF RecordDecision
<1>7. CASE Acquire
  <2>1. CASE ExecTo(IF dynamic THEN "verifying" ELSE "sending")
    BY <1>1, <1>3, <1>7, <2>1 DEF Acquire, GatewayTypeOK, SinceInv, ExecInv, ExecStep, ExecPlaces
  <2> QED BY <1>2, <1>7, <2>1 DEF Acquire
<1>8. CASE VerifyInventory
  <2>1. CASE ExecTo("sending") /\ InventoryMatches(exec.provider)
    BY <1>1, <1>3, <1>8, <2>1 DEF VerifyInventory, InventoryMatches, GatewayTypeOK, SinceInv, ExecInv, ExecStep, ExecPlaces
  <2> QED BY <1>2, <1>8, <2>1 DEF VerifyInventory
<1>9. CASE Send
  <2>1. PICK performed \in BOOLEAN :
          LET sent == [exec EXCEPT !.requests = exec.requests + 1, !.performed = performed]
          IN \/ performed /\ exec' = [sent EXCEPT !.at = "parsing", !.response = TRUE]
             \/ \E code \in IF performed THEN FailuresAfterEffect ELSE Failures :
                  IF MayRetry(exec, code) THEN exec' = sent ELSE FailedWith(sent, code)
    BY <1>9 DEF Send
  <2> DEFINE sent == [exec EXCEPT !.requests = exec.requests + 1, !.performed = performed]
  <2>2. /\ DOMAIN sent = DOMAIN exec /\ sent.requests = exec.requests + 1 /\ sent.performed = performed
        /\ sent.at = "sending" /\ sent.effect = exec.effect /\ sent.retry = exec.retry /\ sent.provider = exec.provider
        /\ sent.response = exec.response /\ sent.log = exec.log /\ sent.answer = exec.answer
        /\ exec.at = "sending" /\ ~exec.response /\ exec.requests \in Nat /\ exec.requests + 1 \in Nat
    BY <1>1, <1>9 DEF Send, ExecInv, GatewayTypeOK
  <2> HIDE DEF sent
  <2>7. sent.log = <<"decision">> /\ sent.requests > 0 /\ (sent.retry => sent.effect = "REMOTE_READ")
        /\ sent.requests <= (IF sent.retry THEN 2 ELSE 1) /\ sent.answer = "none"
        /\ sent.provider \in execSince.records /\ sent.provider.enabled
        /\ sent.provider.identity \in execSince.identities
        /\ (dynamic => sent.provider.inventory \in execSince.inventories)
    BY <2>2 DEF ExecInv, GatewayTypeOK
  <2>3. CASE performed /\ exec' = [sent EXCEPT !.at = "parsing", !.response = TRUE]
    <3>1. /\ exec'.at = "parsing" /\ exec'.response = TRUE /\ DOMAIN exec' = DOMAIN sent
          /\ exec'.requests = sent.requests /\ exec'.performed = sent.performed /\ exec'.effect = sent.effect
          /\ exec'.retry = sent.retry /\ exec'.provider = sent.provider /\ exec'.log = sent.log /\ exec'.answer = sent.answer
      BY <1>1, <2>2, <2>3
    <3>2. GatewayTypeOK' /\ SinceInv'
      BY <1>1, <2>2, <2>3, <3>1 DEF GatewayTypeOK, SinceInv, ExecStep, ExecPlaces
    <3> QED BY <1>0, <1>1, <2>2, <2>3, <2>7, <3>1, <3>2 DEF GatewayTypeOK, ExecInv, ExecStep
  <2>4. ASSUME NEW code \in Failures, MayRetry(exec, code), exec' = sent
        PROVE  GatewayTypeOK' /\ SinceInv' /\ ExecInv'
    <3>1. sent.retry /\ sent.requests = 1 /\ sent.effect = "REMOTE_READ" /\ ~sent.response
      BY <2>2, <2>4, <2>7 DEF MayRetry, GatewayTypeOK
    <3>2. GatewayTypeOK' /\ SinceInv'
      BY <1>1, <2>2, <2>4 DEF GatewayTypeOK, SinceInv, ExecStep, ExecPlaces
    <3>3. /\ sent.at = "sending" /\ sent.answer = "none" /\ sent.log = <<"decision">>
          /\ UNCHANGED <<execSince, dynamic>>
      BY <1>1, <2>2, <2>7 DEF ExecStep
    <3>4. ExecInv'
      BY <1>0, <2>4, <2>7, <3>1, <3>3 DEF ExecInv
    <3> QED BY <3>2, <3>4
  <2>5. ASSUME NEW code \in IF performed THEN FailuresAfterEffect ELSE Failures, FailedWith(sent, code)
        PROVE  GatewayTypeOK' /\ SinceInv' /\ ExecInv'
    <3>2. sent.effect = "REMOTE_MUTATION" /\ sent.performed => OutcomeUnknown(sent, code) \/ code = "PROVIDER_RESPONSE_INVALID"
      BY <1>0, <2>2, <2>5, <2>7 DEF OutcomeUnknown, FailuresAfterEffect
    <3>3. code # "ok"
      BY <2>5 DEF Failures, FailuresAfterEffect, RefusedUnsent, StatusFailures, Ambiguous, Retryable
    <3>4. Failing(sent, code)
      BY <1>0, <1>1, <2>2, <2>7, <3>2, <3>3 DEF Failing, GatewayTypeOK
    <3> QED BY <1>1, <2>5, <3>4, FailureIsTold
  <2>6. FailuresAfterEffect \subseteq Failures
    BY DEF Failures
  <2> QED BY <2>1, <2>3, <2>4, <2>5, <2>6 DEF sent
<1>10. CASE ParseOutput
  <2>1. CASE ExecTo("recording")
    BY <1>1, <1>3, <1>10, <2>1 DEF ParseOutput, GatewayTypeOK, SinceInv, ExecInv, ExecStep, ExecPlaces
  <2> QED BY <1>2, <1>10, <2>1 DEF ParseOutput, OutputFailures
<1>11. CASE RecordResult
  <2>1. CASE ExecAnswers(Append(exec.log, "success"), "ok")
    <3>1. exec.log = <<"decision">> /\ exec.requests \in Nat /\ exec.at = "recording"
      BY <1>11 DEF RecordResult, ExecInv, GatewayTypeOK
    <3>2. Append(exec.log, "success") = <<"decision", "success">>
      <4>1. Append(<<"decision">>, "success") = <<"decision", "success">>
        BY LogsOfCalls
      <4> QED BY <3>1, <4>1
    <3>3. /\ exec' = [exec EXCEPT !.at = "answered", !.log = <<"decision", "success">>, !.answer = "ok"]
      BY <2>1, <3>2 DEF ExecAnswers
    <3>4. <<"decision", "success">> # <<>>
      OBVIOUS
    <3> QED BY <1>1, <3>1, <3>3, <3>4 DEF GatewayTypeOK, SinceInv, ExecInv, ExecStep, ExecPlaces, NoExec
  <2> QED BY <1>2, <1>11, <2>1 DEF RecordResult
<1> QED
  BY <1>4, <1>5, <1>6, <1>7, <1>8, <1>9, <1>10, <1>11 DEF Execute

(* A command that goes on leaves the others as they were: none of them can *)
(* claim to be alone.                                                      *)
LEMMA CommandGoesOn ==
  ASSUME CommandInv, NEW o \in Operators, operator[o].at # "idle",
         NEW c, CommandOK(c), c.at # "idle", c.alone = operator[o].alone, CommandStands(c, record'),
         operator' = [operator EXCEPT ![o] = c]
  PROVE  CommandInv'
<1>1. \A p \in Operators : operator'[p] = IF p = o THEN c ELSE operator[p]
  BY DEF CommandInv
<1>2. ASSUME NEW p \in Operators, p # o
      PROVE  CommandOK(operator[p]) /\ CommandStands(operator[p], record')
  <2>1. CASE operator[p].at = "idle"
    BY <2>1 DEF CommandInv, CommandOK, CommandStands
  <2>2. CASE ~operator[p].alone
    BY <2>2 DEF CommandInv, CommandStands
  <2> QED BY <1>2, <2>1, <2>2 DEF CommandInv
<1>3. ASSUME NEW p \in Operators, NEW q \in Operators, p # q, operator'[p].at # "idle", operator'[p].alone
      PROVE  operator'[q].at = "idle"
  BY <1>1, <1>3 DEF CommandInv
<1>4. DOMAIN operator' = Operators
  BY DEF CommandInv
<1> QED BY <1>1, <1>2, <1>3, <1>4 DEF CommandInv

LEMMA CommandOfOne ==
  ASSUME GatewayTypeOK, CommandInv, NEW o \in Operators, Command(o)
  PROVE  CommandInv' /\ record' \in ProviderRecords
<1> DEFINE c == operator[o]
<1>0. /\ DOMAIN c = {"at", "op", "current", "updated", "alone", "answer"} /\ CommandOK(c) /\ CommandStands(c, record)
      /\ NoRecord \in ProviderRecords /\ record \in ProviderRecords
  BY DEF CommandInv, CommandOK, NoCommand, NoRecord, ProviderRecords, GatewayTypeOK
<1>1. CASE StartCommand(o)
  <2>1. PICK op \in {"add", "disable", "remove", "reapprove", "enable"} :
       /\ (op = "add") = (record = NoRecord)
       /\ operator' = [p \in Operators |->
            IF p = o THEN [NoCommand EXCEPT
                !.at = IF op \in {"disable", "remove"} THEN "deciding" ELSE "resolving", !.op = op,
                !.current = record,
                !.updated = IF op = "disable" THEN [record EXCEPT !.enabled = FALSE] ELSE NoRecord,
                !.alone = \A q \in Operators \ {o} : operator[q].at = "idle"]
            ELSE [operator[p] EXCEPT !.alone = operator[p].at = "idle"]]
    BY <1>1 DEF StartCommand
  <2>2. UNCHANGED record /\ c.at = "idle"
    BY <1>1 DEF StartCommand, CommandStep
  <2> DEFINE d == operator'[o]
             disabled == [record EXCEPT !.enabled = FALSE]
  <2>3. disabled \in ProviderRecords
    BY <1>0 DEF ProviderRecords
  <2>4. /\ DOMAIN d = DOMAIN NoCommand /\ d.at = (IF op \in {"disable", "remove"} THEN "deciding" ELSE "resolving")
        /\ d.op = op /\ d.current = record /\ d.updated = (IF op = "disable" THEN disabled ELSE NoRecord)
        /\ d.alone = (\A q \in Operators \ {o} : operator[q].at = "idle") /\ d.answer = "none"
    BY <2>1 DEF NoCommand
  <2>5. CommandOK(d) /\ CommandStands(d, record)
    BY ZenonT(60), <1>0, <2>1, <2>3, <2>4 DEF CommandOK, CommandStands, CommandPlaces
  <2>6. ASSUME NEW p \in Operators, p # o
        PROVE  /\ operator'[p].at = operator[p].at /\ operator'[p].alone = (operator[p].at = "idle")
               /\ CommandOK(operator'[p]) /\ CommandStands(operator'[p], record)
    <3>1. /\ operator'[p] = [operator[p] EXCEPT !.alone = operator[p].at = "idle"]
          /\ CommandOK(operator[p]) /\ CommandStands(operator[p], record)
      BY <2>1, <2>6 DEF CommandInv
    <3>2. DOMAIN operator[p] = {"at", "op", "current", "updated", "alone", "answer"}
      BY <3>1 DEF CommandOK, NoCommand
    <3> QED BY <3>1, <3>2 DEF CommandOK, CommandStands, NoCommand
  <2>7. DOMAIN operator' = Operators
    BY <2>1
  <2>8. ASSUME NEW p \in Operators, NEW q \in Operators, p # q, operator'[p].at # "idle", operator'[p].alone
        PROVE  operator'[q].at = "idle"
    <3>1. CASE p = o
      BY <2>4, <2>6, <2>8, <3>1
    <3>2. CASE p # o
      BY <2>6, <2>8, <3>2
    <3> QED BY <3>1, <3>2
  <2> HIDE DEF d
  <2>9. \A p \in Operators : CommandOK(operator'[p]) /\ CommandStands(operator'[p], record')
    BY <2>2, <2>5, <2>6 DEF d
  <2> QED BY <1>0, <2>2, <2>7, <2>8, <2>9 DEF CommandInv
<1>2. CASE ResolveIdentity(o)
  <2>1. CASE c.op = "enable" /\ operator' = [operator EXCEPT ![o].at = "answered", ![o].answer = "PROVIDER_IDENTITY_CHANGED"]
    <3>1. PICK d : d = [[c EXCEPT !.at = "answered"] EXCEPT !.answer = "PROVIDER_IDENTITY_CHANGED"]
      OBVIOUS
    <3>2. operator' = [operator EXCEPT ![o] = d] /\ UNCHANGED record /\ c.at = "resolving"
      BY <1>2, <2>1, <3>1 DEF ResolveIdentity, CommandStep
    <3>3. CommandOK(d) /\ d.at = "answered" /\ d.alone = c.alone /\ CommandStands(d, record)
      BY <1>0, <3>1, <3>2 DEF CommandOK, CommandStands, CommandPlaces, NoCommand
    <3> QED BY <1>0, <3>2, <3>3, CommandGoesOn
  <2>2. CASE operator' = [operator EXCEPT ![o].at = "deciding",
              ![o].updated = [enabled   |-> IF c.op = "reapprove" THEN c.current.enabled ELSE TRUE,
                              identity  |-> world.identity,
                              inventory |-> IF c.op = "enable" THEN c.current.inventory ELSE 0]]
    <3> DEFINE new == [enabled   |-> IF c.op = "reapprove" THEN c.current.enabled ELSE TRUE,
                       identity  |-> world.identity,
                       inventory |-> IF c.op = "enable" THEN c.current.inventory ELSE 0]
    <3>1. new \in ProviderRecords
      <4>1. (IF c.op = "reapprove" THEN c.current.enabled ELSE TRUE) \in BOOLEAN
        BY <1>0, Zenon DEF CommandOK, ProviderRecords
      <4>2. world.identity \in Nat /\ (IF c.op = "enable" THEN c.current.inventory ELSE 0) \in Nat
        BY <1>0 DEF CommandOK, ProviderRecords, GatewayTypeOK
      <4> QED BY <4>1, <4>2 DEF ProviderRecords
    <3> HIDE DEF new
    <3>2. PICK d : d = [[c EXCEPT !.at = "deciding"] EXCEPT !.updated = new]
      OBVIOUS
    <3>3. operator' = [operator EXCEPT ![o] = d] /\ UNCHANGED record /\ c.at = "resolving"
      BY <1>2, <2>2, <3>2 DEF ResolveIdentity, CommandStep, new
    <3>4. c.op # "remove"
      BY <1>0, <3>3 DEF CommandStands
    <3>5. CommandOK(d) /\ d.at = "deciding" /\ d.alone = c.alone /\ CommandStands(d, record)
      BY <1>0, <3>1, <3>2, <3>3, <3>4 DEF CommandOK, CommandStands, CommandPlaces, NoCommand
    <3> QED BY <1>0, <3>3, <3>5, CommandGoesOn
  <2> QED BY <1>2, <2>1, <2>2 DEF ResolveIdentity
<1>3. ASSUME NEW place, CommandTo(o, place), UNCHANGED record,
             place \in {"fetching", "writing", "undoing"}, c.at \in {"deciding", "fetching", "writing", "recording"}, c.at # place,
             c.at = "recording" => place = "undoing", place = "fetching" => c.op # "remove"
      PROVE  CommandInv'
  <2>1. PICK d : d = [c EXCEPT !.at = place]
    OBVIOUS
  <2>2. operator' = [operator EXCEPT ![o] = d]
    BY <1>3, <2>1 DEF CommandTo
  <2>3. CommandOK(d) /\ d.at = place /\ d.alone = c.alone /\ CommandStands(d, record)
    BY <1>0, <1>3, <2>1 DEF CommandOK, CommandStands, CommandPlaces, NoCommand
  <2> QED BY <1>3, <2>2, <2>3, CommandGoesOn
<1>4. ASSUME NEW answer, operator' = [operator EXCEPT ![o].at = "answered", ![o].answer = answer],
             c.at \in {"deciding", "recording", "undoing"},
             c.alone /\ answer = "ok" => record' = c.updated,
             c.alone /\ answer \in {"failed", "PROVIDER_IDENTITY_CHANGED"} => record' = c.current
      PROVE  CommandInv'
  <2>1. PICK d : d = [[c EXCEPT !.at = "answered"] EXCEPT !.answer = answer]
    OBVIOUS
  <2>2. operator' = [operator EXCEPT ![o] = d]
    BY <1>4, <2>1
  <2>3. CommandOK(d) /\ d.at = "answered" /\ d.alone = c.alone /\ CommandStands(d, record')
    BY <1>0, <1>4, <2>1 DEF CommandOK, CommandStands, CommandPlaces, NoCommand
  <2> QED BY <1>4, <2>2, <2>3, CommandGoesOn
<1>5. CASE DecideCommand(o) \/ WriteFails(o) \/ RecordCommand(o)
  <2>1. UNCHANGED record /\ c.at \in {"deciding", "writing", "recording"}
    BY <1>5 DEF DecideCommand, WriteFails, RecordCommand, CommandStep
  <2>2. \/ CommandTo(o, "fetching") /\ c.at = "deciding" /\ c.op # "remove"
        \/ CommandTo(o, "writing") /\ c.at = "deciding"
        \/ CommandTo(o, "undoing")
        \/ /\ c.at = "deciding"
           /\ operator' = [operator EXCEPT ![o].at = "answered", ![o].answer = "PROVIDER_AUDIT_UNAVAILABLE"]
        \/ /\ c.at = "recording"
           /\ operator' = [operator EXCEPT ![o].at = "answered", ![o].answer = "ok"]
    BY <1>5 DEF DecideCommand, WriteFails, RecordCommand
  <2>3. c.alone /\ c.at = "recording" => record = c.updated
    BY <1>0 DEF CommandStands
  <2> QED BY <1>0, <1>3, <1>4, <2>1, <2>2, <2>3
<1>6. CASE FetchInventory(o)
  <2>1. CASE CommandTo(o, "undoing") \/ CommandTo(o, "writing")
    BY <1>0, <1>3, <1>6, <2>1 DEF FetchInventory, CommandStep
  <2>2. CASE operator' = [operator EXCEPT ![o].at = "writing", ![o].updated.inventory = world.inventory] /\ c.op # "enable"
    <3> DEFINE new == [c.updated EXCEPT !.inventory = world.inventory]
    <3>1. new \in ProviderRecords
      BY <1>0 DEF CommandOK, ProviderRecords, GatewayTypeOK
    <3> HIDE DEF new
    <3>2. PICK d : d = [[c EXCEPT !.at = "writing"] EXCEPT !.updated = new]
      OBVIOUS
    <3>3. operator' = [operator EXCEPT ![o] = d] /\ UNCHANGED record /\ c.at = "fetching"
      BY <1>0, <1>6, <2>2, <3>2 DEF FetchInventory, CommandStep, new
    <3>4. CommandOK(d) /\ d.at = "writing" /\ d.alone = c.alone /\ CommandStands(d, record)
      BY <1>0, <3>1, <3>2, <3>3 DEF CommandOK, CommandStands, CommandPlaces, NoCommand
    <3> QED BY <1>0, <3>3, <3>4, CommandGoesOn
  <2> QED BY <1>6, <2>1, <2>2 DEF FetchInventory
<1>7. CASE WriteRecord(o)
  <2>1. PICK place \in {"recording", "undoing"} : CommandTo(o, place)
    BY <1>7 DEF WriteRecord
  <2>2. record' = c.updated /\ c.at = "writing"
    BY <1>7 DEF WriteRecord, PutRecord
  <2>3. PICK d : d = [c EXCEPT !.at = place]
    OBVIOUS
  <2>4. operator' = [operator EXCEPT ![o] = d]
    BY <2>1, <2>3 DEF CommandTo
  <2>5. CommandOK(d) /\ d.at = place /\ d.alone = c.alone /\ CommandStands(d, record') /\ record' \in ProviderRecords
    BY <1>0, <2>2, <2>3 DEF CommandOK, CommandStands, CommandPlaces, NoCommand
  <2> QED BY <2>2, <2>4, <2>5, CommandGoesOn
<1>8. CASE Undo(o)
  <2>1. record' = Restored(o) /\ c.at = "undoing"
    BY <1>8 DEF Undo, PutRecord, Undone
  <2>2. PICK answer \in {"failed", "PROVIDER_STATE_INVALID", "PROVIDER_AUDIT_UNAVAILABLE"} :
          operator' = [operator EXCEPT ![o].at = "answered", ![o].answer = answer]
    BY <1>8 DEF Undo
  <2>3. Restored(o) \in {NoRecord, record, c.current}
    BY DEF Restored
  <2>4. c.alone => Restored(o) = c.current
    BY <1>0, <2>1 DEF Restored, CommandStands
  <2>5. record' \in ProviderRecords
    BY <1>0, <2>1, <2>3 DEF CommandOK
  <2> QED BY <1>4, <2>1, <2>2, <2>4, <2>5
<1>9. CASE UndoFails(o)
  BY <1>0, <1>4, <1>9 DEF UndoFails, CommandStep
<1> QED
  BY <1>0, <1>1, <1>2, <1>5, <1>6, <1>7, <1>8, <1>9
     DEF Command, ResolveIdentity, DecideCommand, WriteFails, RecordCommand, FetchInventory, UndoFails, CommandStep

(* Whatever the other commands and the world do, a call keeps what it has  *)
(* seen; and the world leaves every command where it is.                   *)
LEMMA CallIsKept ==
  ASSUME GatewayTypeOK, SinceInv, ExecInv, UNCHANGED <<dynamic, exec>>,
         record' \in ProviderRecords, world' \in [identity : {1, 2}, inventory : {1, 2}],
         \/ exec.at = "idle" /\ UNCHANGED execSince
         \/ /\ DOMAIN execSince' = DOMAIN execSince
            /\ execSince.records \union {record'} \subseteq execSince'.records
            /\ execSince.identities \union {world'.identity} \subseteq execSince'.identities
            /\ execSince.inventories \union {world'.inventory} \subseteq execSince'.inventories
  PROVE  GatewayTypeOK' /\ SinceInv' /\ ExecInv'
<1>1. GatewayTypeOK' /\ SinceInv'
  BY DEF GatewayTypeOK, SinceInv
<1>2. ExecInv'
  BY DEF ExecInv, Sent, WasRequired, WasIdentified, WasDecided, WasVerified
<1> QED BY <1>1, <1>2

LEMMA MoveStep ==
  ASSUME GatewayInv, Move
  PROVE  GatewayInv'
<1>1. PICK what \in {"identity", "inventory"} : world' = [world EXCEPT ![what] = 3 - world[what]]
  BY DEF Move
<1>2. world' \in [identity : {1, 2}, inventory : {1, 2}]
  <2>1. CASE what = "identity"
    BY <1>1, <2>1 DEF GatewayInv, GatewayTypeOK
  <2>2. CASE what = "inventory"
    BY <1>1, <2>2 DEF GatewayInv, GatewayTypeOK
  <2> QED BY <2>1, <2>2
<1>3. CASE exec.at = "idle"
  BY <1>2, <1>3, CallIsKept DEF Move, GatewayInv, GatewayTypeOK, CommandInv
<1>4. CASE exec.at # "idle"
  <2>1. /\ execSince' = [[execSince EXCEPT !.identities = execSince.identities \union {world'.identity}]
                                   EXCEPT !.inventories = execSince.inventories \union {world'.inventory}]
        /\ UNCHANGED <<dynamic, record, exec, operator>>
    BY <1>4 DEF Move
  <2>2. DOMAIN execSince = {"records", "identities", "inventories"} /\ record \in execSince.records
    BY <1>4 DEF GatewayInv, GatewayTypeOK, SinceInv, Nothing
  <2>3. GatewayTypeOK' /\ SinceInv' /\ ExecInv'
    BY <1>2, <2>1, <2>2, CallIsKept DEF GatewayInv, GatewayTypeOK
  <2> QED BY <2>1, <2>3 DEF GatewayInv, CommandInv
<1> QED BY <1>3, <1>4

LEMMA CommandOfOperator ==
  ASSUME GatewayInv, NEW o \in Operators, Command(o)
  PROVE  GatewayInv'
<1>1. CommandInv' /\ record' \in ProviderRecords
  BY CommandOfOne DEF GatewayInv
<1>2. /\ UNCHANGED <<dynamic, exec, world>>
      /\ \/ UNCHANGED <<record, execSince>>
         \/ execSince' = IF exec.at = "idle" THEN execSince
                         ELSE [execSince EXCEPT !.records = execSince.records \union {record'}]
  BY DEF Command, StartCommand, ResolveIdentity, DecideCommand, FetchInventory, WriteRecord, WriteFails, RecordCommand, Undo,
         UndoFails, CommandStep, PutRecord
<1>3. DOMAIN execSince = {"records", "identities", "inventories"}
  BY DEF GatewayInv, GatewayTypeOK, Nothing
<1>4. CASE exec.at = "idle"
  BY <1>1, <1>2, <1>4, CallIsKept DEF GatewayInv, GatewayTypeOK
<1>5. CASE exec.at # "idle"
  <2>1. /\ DOMAIN execSince' = DOMAIN execSince
        /\ execSince.records \union {record'} \subseteq execSince'.records
        /\ execSince'.identities = execSince.identities /\ execSince'.inventories = execSince.inventories
    BY <1>2, <1>3, <1>5 DEF GatewayInv, SinceInv
  <2>2. world.identity \in execSince.identities /\ world.inventory \in execSince.inventories
    BY <1>5 DEF GatewayInv, SinceInv
  <2> QED BY <1>1, <1>2, <2>1, <2>2, CallIsKept DEF GatewayInv, GatewayTypeOK
<1> QED BY <1>4, <1>5

LEMMA EndOfCommand ==
  ASSUME GatewayInv, NEW o \in Operators, EndCommand(o)
  PROVE  GatewayInv'
<1>1. \A p \in Operators : operator'[p] = IF p = o THEN NoCommand ELSE operator[p]
  BY DEF EndCommand, GatewayInv, CommandInv
<1>2. CommandOK(NoCommand) /\ CommandStands(NoCommand, record) /\ NoCommand.at = "idle"
  BY DEF CommandOK, CommandStands, NoCommand, CommandPlaces, ProviderRecords, NoRecord
<1>3. DOMAIN operator' = Operators /\ UNCHANGED <<dynamic, record, world, releases, exec, execSince>>
  BY DEF EndCommand, CommandStep, GatewayInv, CommandInv
<1>4. CommandInv'
  BY <1>1, <1>2, <1>3 DEF GatewayInv, CommandInv
<1>5. GatewayTypeOK' /\ SinceInv' /\ ExecInv'
  BY <1>3 DEF GatewayInv, GatewayTypeOK, SinceInv, ExecInv, Sent, WasRequired, WasIdentified, WasDecided, WasVerified
<1> QED BY <1>4, <1>5 DEF GatewayInv

(* However commands and releases interleave with a call, it is made with a *)
(* provider that was admitted and approved for what was really there, is   *)
(* decided first and sent once if it changes anything; and a command that  *)
(* ran alone has done what it answers: for any number of operators.        *)
THEOREM GatewayIsTrue == GatewaySpec => []GatewayTellsTheTruth
<1>1. GatewayInit => GatewayInv
  <2> SUFFICES ASSUME GatewayInit PROVE GatewayInv
    OBVIOUS
  <2>1. GatewayTypeOK
    BY DEF GatewayInit, GatewayTypeOK, NoExec, Nothing, NoRecord, ProviderRecords, ExecPlaces
  <2>2. SinceInv /\ ExecInv
    BY DEF GatewayInit, SinceInv, ExecInv, NoExec, Sent, WasRequired, WasIdentified, WasDecided, WasVerified
  <2>3. CommandInv
    BY DEF GatewayInit, CommandInv, CommandOK, CommandStands, NoCommand, CommandPlaces, ProviderRecords, NoRecord
  <2> QED BY <2>1, <2>2, <2>3 DEF GatewayInv
<1>2. GatewayInv /\ [GatewayNext]_gatewayVars => GatewayInv'
  <2> SUFFICES ASSUME GatewayInv, [GatewayNext]_gatewayVars PROVE GatewayInv'
    OBVIOUS
  <2>1. CASE Execute
    <3>1. UNCHANGED <<operator, record>>
      BY <2>1 DEF Execute, Require, CheckIdentity, RecordDecision, Acquire, VerifyInventory, Send, ParseOutput, RecordResult, ExecStep
    <3>2. CommandInv'
      BY <3>1 DEF GatewayInv, CommandInv
    <3> QED BY <2>1, <3>2, ExecuteStep DEF GatewayInv
  <2>2. CASE SelectProvider
    <3>1. PICK mapping \in Mappings :
            exec' = [NoExec EXCEPT !.at = IF record.enabled THEN "selected" ELSE "answered",
                                   !.effect = mapping.effect, !.retry = mapping.retry,
                                   !.answer = IF record.enabled THEN "none" ELSE "PROVIDER_DISABLED"]
      BY <2>2 DEF SelectProvider
    <3>2. /\ mapping.retry \in BOOLEAN /\ mapping.effect \in {"REMOTE_READ", "REMOTE_MUTATION"}
          /\ mapping.retry => mapping.effect = "REMOTE_READ"
      <4>1. \/ mapping = [effect |-> "REMOTE_READ", retry |-> FALSE]
            \/ mapping = [effect |-> "REMOTE_MUTATION", retry |-> FALSE]
            \/ mapping = [effect |-> "REMOTE_READ", retry |-> TRUE]
        BY DEF Mappings, CompiledReads, CompiledWrites
      <4>2. CASE mapping = [effect |-> "REMOTE_READ", retry |-> FALSE]
        BY <4>2
      <4>3. CASE mapping = [effect |-> "REMOTE_MUTATION", retry |-> FALSE]
        BY <4>3
      <4>4. CASE mapping = [effect |-> "REMOTE_READ", retry |-> TRUE]
        BY <4>4
      <4> QED BY <4>1, <4>2, <4>3, <4>4
    <3>3. /\ exec'.at \in {"selected", "answered"} /\ exec'.requests = 0 /\ ~exec'.performed /\ ~exec'.response
          /\ exec'.performed \in BOOLEAN /\ exec'.response \in BOOLEAN
          /\ exec'.log = <<>> /\ exec'.effect = mapping.effect /\ exec'.retry = mapping.retry /\ DOMAIN exec' = DOMAIN NoExec
          /\ exec'.answer # "ok" /\ (exec'.at # "answered" => exec'.answer = "none")
      BY <3>1 DEF NoExec
    <3>4. /\ execSince' = [records |-> {record}, identities |-> {world.identity}, inventories |-> {world.inventory}]
          /\ UNCHANGED <<dynamic, record, world, releases, operator>>
      BY <2>2 DEF SelectProvider
    <3>5. GatewayTypeOK' /\ SinceInv'
      BY <3>2, <3>3, <3>4 DEF GatewayInv, GatewayTypeOK, SinceInv, ExecPlaces, Nothing
    <3>6. ExecInv'
      BY <3>2, <3>3 DEF ExecInv, Sent, WasRequired, WasIdentified, WasDecided, WasVerified
    <3> QED BY <3>4, <3>5, <3>6 DEF GatewayInv, CommandInv
  <2>3. CASE Answered
    <3>1. exec' = NoExec /\ execSince' = Nothing /\ UNCHANGED <<dynamic, record, world, releases, operator>>
      BY <2>3 DEF Answered
    <3>2. GatewayTypeOK'
      BY <3>1 DEF GatewayInv, GatewayTypeOK, NoExec, Nothing, ExecPlaces
    <3>3. SinceInv' /\ ExecInv'
      BY <3>1 DEF SinceInv, ExecInv, NoExec, Sent, WasRequired, WasIdentified, WasDecided, WasVerified
    <3> QED BY <3>1, <3>2, <3>3 DEF GatewayInv, CommandInv
  <2>4. CASE UNCHANGED gatewayVars
    BY <2>4 DEF gatewayVars, GatewayInv, GatewayTypeOK, SinceInv, ExecInv, CommandInv, Sent, WasRequired, WasIdentified,
                WasDecided, WasVerified
  <2> QED
    BY <2>1, <2>2, <2>3, <2>4, MoveStep, CommandOfOperator, EndOfCommand DEF GatewayNext
<1>3. GatewayInv => GatewayTellsTheTruth
  <2>1. ASSUME GatewayInv PROVE ExecutionIsAdmitted
    BY <2>1 DEF GatewayInv, ExecInv, Sent, WasRequired, WasIdentified, WasVerified, ExecutionIsAdmitted
  <2>2. ASSUME GatewayInv PROVE CommandTellsTheTruth
    BY <2>2 DEF GatewayInv, CommandInv, CommandStands, CommandTellsTheTruth
  <2> QED BY <2>1, <2>2 DEF GatewayTellsTheTruth
<1> QED
  BY <1>1, <1>2, <1>3, PTL DEF GatewaySpec

-----------------------------------------------------------------------------
(* What a call has seen, and what a browser is.                            *)
PreviewPlaces == {"idle", "begun", "reserved", "ran", "released", "cancelling", "closed", "inspected", "launching",
                  "launched", "acting", "captured"}
Viewports == {"own"} \union {Matrix[k] : k \in 1..Len(Matrix)}
PreviewCallRecords ==
  [op : PreviewOps \union {"none"}, at : PreviewPlaces, id : 0..MaxStarts, browser : 0..MaxBrowsers,
   visited : SUBSET PreviewIds, step : Nat, shots : Seq(Viewports), failed : BOOLEAN, alone : BOOLEAN]
BrowserRecords == [state : {"unused", "live", "closing", "closed"}, preview : 0..MaxStarts, viewport : Viewports]

PreviewCallOK(seen) ==
  /\ seen \in PreviewCallRecords
  /\ seen.at # "idle" => seen.id \in PreviewIds
  /\ (seen.op = "open" /\ seen.at = "launched") => seen.browser \in Browsers
  /\ (seen.op \in {"use", "matrix"} /\ seen.at = "acting") => seen.browser \in Browsers
  /\ seen.op = "matrix" => /\ seen.at \in {"begun", "acting", "captured"}
                           /\ seen.step > 0 => seen.browser \in Browsers
                           /\ seen.at # "captured" => seen.step <= Restoring
                           /\ seen.at = "captured" => seen.step = Restoring + 1
BrowserOK(b) == b \in BrowserRecords /\ (b.state # "unused" => b.preview \in PreviewIds)

CallsAreTyped == previewCalls \in [PreviewCalls -> PreviewCallRecords] /\ \A c \in PreviewCalls : PreviewCallOK(previewCalls[c])
BrowsersAreTyped == browsers \in [Browsers -> BrowserRecords] /\ \A b \in Browsers : BrowserOK(browsers[b])

PreviewTypeOK ==
  /\ ready \in BOOLEAN /\ previews \in SUBSET PreviewIds
  /\ process \in [PreviewIds -> {"none", "running", "ended"}]
  /\ sessions \in [PreviewIds -> 0..MaxBrowsers]
  /\ BrowsersAreTyped /\ CallsAreTyped

(* The browser a session offers is live and shows its preview; the one an  *)
(* open has launched shows the preview it was launched for.                *)
SessionsInv ==
  /\ \A i \in PreviewIds : sessions[i] # 0 =>
       browsers[sessions[i]].state = "live" /\ browsers[sessions[i]].preview = i
  /\ \A c \in PreviewCalls : At(c, "open", "launched") =>
       browsers[previewCalls[c].browser].state # "unused" /\ browsers[previewCalls[c].browser].preview = previewCalls[c].id

(* A call that ran alone so far still does.                                *)
AloneInv ==
  \A c, d \in PreviewCalls :
    (c # d /\ previewCalls[c].alone /\ previewCalls[c].at # "idle") => previewCalls[d].at = "idle"

(* A matrix nothing disturbed stays with the browser it began with, has a  *)
(* picture for every viewport it has passed, and that browser shows the    *)
(* viewport it was resized to last.                                        *)
Taken(s) == IF s = 0 THEN 0 ELSE (s - 1) \div 2
MatrixOK(seen) ==
  /\ (seen.at = "acting" \/ seen.step > 0) => sessions[seen.id] \in {0, seen.browser}
  /\ ~seen.failed => /\ Len(seen.shots) = Taken(seen.step)
                     /\ \A k \in 1..Len(seen.shots) : seen.shots[k] = Matrix[k]
                     /\ (seen.step > 0 /\ ~Resizes(seen.step)) =>
                          browsers[seen.browser].viewport = ViewportOf(seen.step - 1)
MatrixInv ==
  \A c \in PreviewCalls : (previewCalls[c].op = "matrix" /\ previewCalls[c].alone) => MatrixOK(previewCalls[c])

PreviewInv == PreviewTypeOK /\ PreviewsAreBounded /\ SessionsInv /\ AloneInv /\ MatrixInv

-----------------------------------------------------------------------------
(* A call's step is from and to a call the manager can have under way; it  *)
(* goes on as the same call, or it is over.                                *)
CallSteps(c) ==
  \/ Prune(c) \/ Reserve(c) \/ RunProcess(c) \/ StartFails(c) \/ Record(c)
  \/ StopBrowser(c) \/ StopStatus(c) \/ StopCancel(c)
  \/ CloseWorkspace(c) \/ ReleaseBrowsers(c) \/ ReleasePreviews(c)
  \/ BrowserRefuses(c) \/ InspectLive(c) \/ DecideOpen(c) \/ Launch(c) \/ RegisterSession(c) \/ RequireLiveSession(c)
  \/ Act(c) \/ MatrixStep(c) \/ MatrixFails(c) \/ MatrixAnswered(c)

GoesOn(c, seen) ==
  /\ PreviewCallOK(seen) /\ seen.op = previewCalls[c].op /\ seen.alone = previewCalls[c].alone
  /\ seen.at # "idle" /\ previewCalls[c].at # "idle"

LEMMA NoCallIsOK == PreviewCallOK(NoPreviewCall)
BY PreviewAssumption DEF PreviewCallOK, NoPreviewCall, PreviewCallRecords, PreviewPlaces

(* Only the place changes.                                                 *)
LEMMA CallGoesOn ==
  ASSUME PreviewTypeOK, NEW c \in PreviewCalls, NEW at \in PreviewPlaces, previewCalls[c].at # "idle", at # "idle",
         previewCalls[c].op # "matrix", at # "acting", at # "launched", CallGoes(c, at)
  PROVE  \E seen : CallBecomes(c, seen) /\ GoesOn(c, seen)
<1> DEFINE seen == [previewCalls[c] EXCEPT !.at = at]
<1>1. PreviewCallOK(previewCalls[c])
  BY DEF PreviewTypeOK, CallsAreTyped
<1>2. GoesOn(c, seen)
  BY <1>1 DEF GoesOn, PreviewCallOK, PreviewCallRecords
<1> QED BY <1>2 DEF CallGoes

LEMMA OneCallMoves ==
  ASSUME PreviewTypeOK, NEW c \in PreviewCalls, CallSteps(c)
  PROVE  CallReturns(c) \/ \E seen : CallBecomes(c, seen) /\ GoesOn(c, seen)
<1>1. PreviewCallOK(previewCalls[c]) /\ previewCalls[c] \in PreviewCallRecords
  BY DEF PreviewTypeOK, CallsAreTyped, PreviewCallOK
<1>2. CASE Prune(c)
  <2>1. PICK i \in previews : CallBecomes(c, [previewCalls[c] EXCEPT !.visited = @ \union {i}])
    BY <1>2 DEF Prune
  <2> DEFINE seen == [previewCalls[c] EXCEPT !.visited = @ \union {i}]
  <2>2. i \in PreviewIds
    BY DEF PreviewTypeOK
  <2>3. GoesOn(c, seen)
    BY <1>1, <1>2, <2>2 DEF GoesOn, PreviewCallOK, PreviewCallRecords, Prune, At
  <2> QED BY <2>1, <2>3
<1>3. CASE Reserve(c)
  BY <1>3, CallGoesOn DEF Reserve, At, PreviewPlaces
<1>4. CASE RunProcess(c)
  <2>1. PICK i \in PreviewIds : CallBecomes(c, [previewCalls[c] EXCEPT !.at = "ran", !.id = i])
    BY <1>4 DEF RunProcess
  <2> DEFINE seen == [previewCalls[c] EXCEPT !.at = "ran", !.id = i]
  <2>2. i \in 0..MaxStarts
    BY PreviewAssumption DEF PreviewIds
  <2>3. GoesOn(c, seen)
    BY <1>1, <1>4, <2>2 DEF GoesOn, PreviewCallOK, PreviewCallRecords, RunProcess, At, PreviewPlaces
  <2> QED BY <2>1, <2>3
<1>5. CASE StopBrowser(c) \/ StopStatus(c) \/ CloseWorkspace(c) \/ ReleaseBrowsers(c) \/ InspectLive(c) \/ DecideOpen(c)
  BY <1>5, CallGoesOn DEF StopBrowser, StopStatus, CloseWorkspace, ReleaseBrowsers, InspectLive, DecideOpen, At, PreviewPlaces
<1>6. CASE StartFails(c) \/ Record(c) \/ StopCancel(c) \/ ReleasePreviews(c) \/ BrowserRefuses(c) \/ RegisterSession(c)
           \/ Act(c) \/ MatrixAnswered(c)
  BY <1>6 DEF StartFails, Record, StopCancel, ReleasePreviews, BrowserRefuses, RegisterSession, Act, MatrixAnswered
<1>7. CASE Launch(c)
  <2>1. PICK b \in Browsers : CallBecomes(c, [previewCalls[c] EXCEPT !.at = "launched", !.browser = b])
    BY <1>7 DEF Launch
  <2> DEFINE seen == [previewCalls[c] EXCEPT !.at = "launched", !.browser = b]
  <2>2. b \in 0..MaxBrowsers
    BY PreviewAssumption DEF Browsers
  <2>3. GoesOn(c, seen)
    BY <1>1, <1>7, <2>2 DEF GoesOn, PreviewCallOK, PreviewCallRecords, Launch, At, PreviewPlaces
  <2> QED BY <2>1, <2>3
<1>8. CASE RequireLiveSession(c)
  <2> DEFINE b == sessions[previewCalls[c].id]
             seen == [previewCalls[c] EXCEPT !.at = "acting", !.browser = b]
  <2>1. b \in 0..MaxBrowsers /\ b \in Browsers
    BY <1>1, <1>8, PreviewAssumption DEF RequireLiveSession, PreviewTypeOK, PreviewCallOK, Browsers
  <2>2. GoesOn(c, seen)
    BY <1>1, <1>8, <2>1 DEF GoesOn, PreviewCallOK, PreviewCallRecords, RequireLiveSession, PreviewPlaces
  <2> QED BY <1>8, <2>2 DEF RequireLiveSession
<1>9. CASE MatrixStep(c)
  <2> DEFINE b == previewCalls[c].browser
             s == previewCalls[c].step
             at == IF s = Restoring THEN "captured" ELSE "begun"
             shots == IF s > 0 /\ ~Resizes(s) THEN Append(previewCalls[c].shots, browsers[b].viewport)
                                              ELSE previewCalls[c].shots
             seen == [previewCalls[c] EXCEPT !.at = at, !.step = s + 1, !.shots = shots]
  <2>1. b \in Browsers /\ browsers[b].viewport \in Viewports
    BY <1>1, <1>9 DEF MatrixStep, At, PreviewTypeOK, BrowsersAreTyped, BrowserRecords, PreviewCallOK
  <2>2. shots \in Seq(Viewports) /\ s \in Nat
    BY <1>1, <2>1, AppendProperties DEF PreviewCallRecords
  <2>3. Restoring \in Nat /\ s <= Restoring
    BY <1>1, <1>9, PreviewAssumption DEF Restoring, MatrixStep, At, PreviewCallOK
  <2>4. /\ at \in {"begun", "captured"} /\ s + 1 \in Nat /\ s + 1 > 0
        /\ (at = "captured" => s + 1 = Restoring + 1) /\ (at # "captured" => s + 1 <= Restoring)
    BY <2>2, <2>3
  <2> HIDE DEF at, shots
  <2>5. GoesOn(c, seen)
    BY <1>1, <1>9, <2>1, <2>2, <2>4 DEF GoesOn, PreviewCallOK, PreviewCallRecords, MatrixStep, At, PreviewPlaces
  <2> QED BY <1>9, <2>5 DEF MatrixStep, at, shots
<1>10. CASE MatrixFails(c)
  <2>1. CASE previewCalls[c].step \in {0, Restoring}
    BY <1>10, <2>1 DEF MatrixFails
  <2>2. CASE previewCalls[c].step \notin {0, Restoring}
    <3> DEFINE seen == [previewCalls[c] EXCEPT !.at = "begun", !.step = Restoring, !.failed = TRUE]
    <3>1. Restoring \in Nat /\ previewCalls[c].step \in Nat
      BY <1>1, PreviewAssumption DEF Restoring, PreviewCallRecords
    <3>2. /\ previewCalls[c].op = "matrix" /\ previewCalls[c].at \in {"begun", "acting"}
          /\ previewCalls[c].browser \in Browsers /\ previewCalls[c].id \in PreviewIds
      BY <1>1, <1>10, <2>2, <3>1 DEF MatrixFails, PreviewCallOK
    <3>3. seen \in PreviewCallRecords
      BY <1>1, <3>1, Zenon DEF PreviewCallRecords, PreviewPlaces
    <3>4. GoesOn(c, seen)
      BY <1>1, <3>1, <3>2, <3>3 DEF GoesOn, PreviewCallOK, PreviewCallRecords
    <3> QED BY <1>10, <2>2, <3>4 DEF MatrixFails
  <2> QED BY <2>1, <2>2
<1> QED
  BY <1>2, <1>3, <1>4, <1>5, <1>6, <1>7, <1>8, <1>9, <1>10 DEF CallSteps

LEMMA BecomesIsTyped ==
  ASSUME PreviewTypeOK, NEW c \in PreviewCalls, NEW seen, PreviewCallOK(seen), CallBecomes(c, seen)
  PROVE  CallsAreTyped' /\ previewCalls'[c] = seen /\ \A d \in PreviewCalls \ {c} : previewCalls'[d] = previewCalls[d]
BY DEF CallBecomes, PreviewTypeOK, CallsAreTyped, PreviewCallOK

LEMMA BegunIsTyped ==
  ASSUME PreviewTypeOK, NEW c \in PreviewCalls, BeginCall(c)
  PROVE  /\ CallsAreTyped'
         /\ \A d \in PreviewCalls \ {c} : /\ previewCalls'[d] = [previewCalls[d] EXCEPT !.alone = FALSE]
                                          /\ ~previewCalls'[d].alone
                                          /\ previewCalls'[d].op = previewCalls[d].op
                                          /\ previewCalls'[d].at = previewCalls[d].at
         /\ previewCalls[c].at = "idle" /\ previewCalls'[c].at = "begun" /\ previewCalls'[c].step = 0
         /\ previewCalls'[c].shots = <<>> /\ previewCalls'[c].id \in PreviewIds
         /\ previewCalls'[c].alone => \A d \in PreviewCalls : previewCalls[d].at = "idle"
<1> DEFINE others == {d \in PreviewCalls : previewCalls[d].at # "idle"}
           Other(d) == [previewCalls[d] EXCEPT !.alone = FALSE]
<1>1. PICK op \in PreviewOps, i \in PreviewIds :
        previewCalls' = [d \in PreviewCalls |->
               IF d = c THEN [NoPreviewCall EXCEPT !.op = op, !.at = "begun", !.id = i, !.alone = others = {}]
                        ELSE [previewCalls[d] EXCEPT !.alone = FALSE]]
  BY DEF BeginCall
<1>2. PICK single \in BOOLEAN : single = (others = {})
  OBVIOUS
<1> DEFINE mine == [NoPreviewCall EXCEPT !.op = op, !.at = "begun", !.id = i, !.alone = single]
<1>3. PreviewCallOK(mine) /\ mine \in PreviewCallRecords
  <2>1. i \in 0..MaxStarts /\ 0 \in 0..MaxBrowsers
    BY PreviewAssumption DEF PreviewIds
  <2>2. mine \in PreviewCallRecords
    BY <2>1, NoCallIsOK DEF PreviewCallOK, PreviewCallRecords, PreviewPlaces
  <2>3. /\ mine.op = op /\ mine.at = "begun" /\ mine.id = i /\ mine.step = 0
        /\ Restoring \in Nat
    BY PreviewAssumption DEF NoPreviewCall, Restoring
  <2> QED BY <2>2, <2>3 DEF PreviewCallOK
<1>4. \A d \in PreviewCalls : /\ PreviewCallOK(Other(d)) /\ Other(d) \in PreviewCallRecords /\ ~Other(d).alone
                             /\ Other(d).op = previewCalls[d].op /\ Other(d).at = previewCalls[d].at
  <2> TAKE d \in PreviewCalls
  <2>1. PreviewCallOK(previewCalls[d]) /\ previewCalls[d] \in PreviewCallRecords /\ FALSE \in BOOLEAN
    BY DEF PreviewTypeOK, CallsAreTyped
  <2>2. Other(d).op = previewCalls[d].op /\ Other(d).at = previewCalls[d].at
    BY <2>1 DEF PreviewCallRecords
  <2> QED BY <2>1, <2>2 DEF PreviewCallOK, PreviewCallRecords
<1>5. /\ mine.at = "begun" /\ mine.step = 0 /\ mine.shots = <<>> /\ mine.id = i /\ mine.alone = single
  BY DEF NoPreviewCall
<1> HIDE DEF mine, Other
<1>6. previewCalls' = [d \in PreviewCalls |-> IF d = c THEN mine ELSE Other(d)]
  BY <1>1, <1>2 DEF mine, Other
<1>7. previewCalls'[c] = mine /\ \A d \in PreviewCalls \ {c} : previewCalls'[d] = Other(d)
  BY <1>6
<1>8. CallsAreTyped'
  BY <1>3, <1>4, <1>6 DEF CallsAreTyped, PreviewCallOK
<1> QED BY ZenonT(60), <1>2, <1>4, <1>5, <1>7, <1>8 DEF Other, BeginCall

(* The maps and the browsers keep their shape.                             *)
LEMMA ReleaseIsTyped ==
  ASSUME PreviewTypeOK, SessionsInv, NEW ids \in SUBSET PreviewIds, Release(ids)
  PROVE  sessions' \in [PreviewIds -> 0..MaxBrowsers] /\ BrowsersAreTyped'
<1>1. sessions' \in [PreviewIds -> 0..MaxBrowsers]
  BY PreviewAssumption DEF Release, ReleasedSessions, PreviewTypeOK
<1>2. \A b \in Browsers : BrowserOK(browsers[b]) /\ browsers[b] \in BrowserRecords
  BY DEF PreviewTypeOK, BrowsersAreTyped, BrowserOK
<1>3. ASSUME NEW b \in Browsers, browsers[b].state # "unused"
      PROVE  BrowserOK([browsers[b] EXCEPT !.state = "closing"])
  BY <1>2, <1>3 DEF BrowserOK, BrowserRecords
<1>4. \A b \in Browsers : (\E i \in ids : sessions[i] = b) => browsers[b].state # "unused"
  BY PreviewAssumption DEF SessionsInv, Browsers
<1>5. ASSUME NEW b \in Browsers PROVE BrowserOK(browsers'[b])
  BY <1>2, <1>3, <1>4 DEF Release, ReleasedBrowsers
<1>6. browsers' = [b \in Browsers |-> browsers'[b]]
  BY DEF Release, ReleasedBrowsers
<1> QED BY <1>1, <1>5, <1>6 DEF BrowsersAreTyped, BrowserOK

LEMMA BrowserChange ==
  ASSUME PreviewTypeOK, NEW b \in Browsers, NEW browser, BrowserOK(browser), browsers' = [browsers EXCEPT ![b] = browser]
  PROVE  BrowsersAreTyped'
BY DEF PreviewTypeOK, BrowsersAreTyped, BrowserOK

(* The resizing steps are those of the matrix's viewports and the last.    *)
LEMMA ViewportsAreKnown ==
  ASSUME NEW s \in Nat, s <= Restoring, Resizes(s)
  PROVE  ViewportOf(s) \in Viewports
<1>1. Len(Matrix) \in Nat
  BY PreviewAssumption
<1>2. CASE s = Restoring
  BY <1>2 DEF ViewportOf, Viewports
<1>3. CASE s # Restoring
  <2>1. (s + 1) \div 2 \in 1..Len(Matrix)
    BY <1>1, <1>3 DEF Restoring, Resizes
  <2> QED BY <1>3, <2>1 DEF ViewportOf, Viewports
<1> QED BY <1>2, <1>3

LEMMA PreviewTypeStep == PreviewTypeOK /\ SessionsInv /\ [PreviewNext]_previewVars => PreviewTypeOK'
<1> SUFFICES ASSUME PreviewTypeOK, SessionsInv, [PreviewNext]_previewVars PROVE PreviewTypeOK'
  OBVIOUS
<1>1. CallsAreTyped'
  <2>1. CASE \E c \in PreviewCalls : BeginCall(c)
    BY <2>1, BegunIsTyped
  <2>2. CASE \E c \in PreviewCalls : CallSteps(c)
    BY <2>2, OneCallMoves, BecomesIsTyped, NoCallIsOK DEF GoesOn, CallReturns
  <2>3. CASE (\E b \in Browsers : Disconnect(b)) \/ UNCHANGED previewVars
    BY <2>3 DEF Disconnect, previewVars, PreviewTypeOK, CallsAreTyped
  <2> QED BY <2>1, <2>2, <2>3 DEF PreviewNext, CallSteps
<1>2. /\ ready' \in BOOLEAN /\ previews' \in SUBSET PreviewIds
      /\ process' \in [PreviewIds -> {"none", "running", "ended"}]
  <2>1. ASSUME NEW c \in PreviewCalls PROVE PreviewCallOK(previewCalls[c]) /\ previewCalls[c].at \in PreviewPlaces
    BY DEF PreviewTypeOK, CallsAreTyped, PreviewCallOK, PreviewCallRecords
  <2>2. CASE \E c \in PreviewCalls : StopCancel(c)
    BY <2>1, <2>2 DEF StopCancel, PreviewTypeOK, At
  <2>3. CASE \E c \in PreviewCalls : Record(c)
    BY <2>1, <2>3 DEF Record, PreviewTypeOK, At, PreviewCallOK
  <2>4. CASE \E c \in PreviewCalls : RunProcess(c) \/ CloseWorkspace(c)
    BY <2>4 DEF RunProcess, CloseWorkspace, PreviewTypeOK
  <2>5. CASE \E c \in PreviewCalls : Prune(c) \/ StopStatus(c) \/ ReleasePreviews(c)
    BY <2>5 DEF Prune, StopStatus, ReleasePreviews, PreviewTypeOK
  <2>6. CASE UNCHANGED <<ready, previews, process>>
    BY <2>6 DEF PreviewTypeOK
  <2> QED
    BY <2>2, <2>3, <2>4, <2>5, <2>6
    DEF PreviewNext, BeginCall, Reserve, StartFails, StopBrowser, ReleaseBrowsers, BrowserRefuses, InspectLive, DecideOpen,
        Launch, RegisterSession, RequireLiveSession, Act, MatrixStep, MatrixFails, MatrixAnswered, Disconnect, previewVars
<1>3. sessions' \in [PreviewIds -> 0..MaxBrowsers] /\ BrowsersAreTyped'
  <2>1. CASE \E c \in PreviewCalls : StopBrowser(c) \/ ReleaseBrowsers(c) \/ Act(c)
    <3>1. \E ids \in SUBSET PreviewIds : Release(ids)
      BY <2>1 DEF StopBrowser, ReleaseBrowsers, Act, PreviewTypeOK, CallsAreTyped, PreviewCallOK, At
    <3> QED BY <3>1, ReleaseIsTyped
  <2>2. CASE \E c \in PreviewCalls : Launch(c)
    <3>1. PICK c \in PreviewCalls : Launch(c)
      BY <2>2
    <3> DEFINE browser == [state |-> "live", preview |-> previewCalls[c].id, viewport |-> "own"]
    <3>2. previewCalls[c].id \in PreviewIds /\ previewCalls[c].id \in 0..MaxStarts
      BY <3>1, PreviewAssumption DEF Launch, PreviewTypeOK, CallsAreTyped, PreviewCallOK, At, PreviewIds
    <3>3. BrowserOK(browser)
      BY <3>2 DEF BrowserOK, BrowserRecords, Viewports
    <3> QED BY <3>1, <3>3, BrowserChange DEF Launch, PreviewTypeOK
  <2>3. CASE \E c \in PreviewCalls : RegisterSession(c)
    BY <2>3, PreviewAssumption DEF RegisterSession, PreviewTypeOK, CallsAreTyped, PreviewCallOK, At, Browsers, BrowsersAreTyped
  <2>4. CASE \E c \in PreviewCalls : MatrixStep(c)
    <3>1. PICK c \in PreviewCalls : MatrixStep(c)
      BY <2>4
    <3> DEFINE b == previewCalls[c].browser
               s == previewCalls[c].step
               browser == [browsers[b] EXCEPT !.viewport = ViewportOf(s)]
    <3>2. b \in Browsers /\ s \in Nat /\ s <= Restoring
      BY <3>1 DEF MatrixStep, PreviewTypeOK, CallsAreTyped, PreviewCallOK, PreviewCallRecords, At
    <3>3. BrowserOK(browsers[b]) /\ browsers[b] \in BrowserRecords
      BY <3>2 DEF PreviewTypeOK, BrowsersAreTyped
    <3>4. CASE Resizes(s)
      <4>1. ViewportOf(s) \in Viewports
        BY <3>2, <3>4, ViewportsAreKnown
      <4>2. BrowserOK(browser)
        BY <3>3, <4>1 DEF BrowserOK, BrowserRecords
      <4>3. browsers' = [browsers EXCEPT ![b] = browser]
        BY <3>1, <3>4 DEF MatrixStep
      <4> QED BY <3>1, <3>2, <4>2, <4>3, BrowserChange DEF MatrixStep, PreviewTypeOK
    <3>5. CASE ~Resizes(s)
      BY <3>1, <3>5 DEF MatrixStep, PreviewTypeOK, BrowsersAreTyped
    <3> QED BY <3>4, <3>5
  <2>5. CASE \E b \in Browsers : Disconnect(b)
    <3>1. PICK b \in Browsers : Disconnect(b)
      BY <2>5
    <3>2. BrowserOK(browsers[b]) /\ browsers[b] \in BrowserRecords
      BY DEF PreviewTypeOK, BrowsersAreTyped
    <3>3. BrowserOK([browsers[b] EXCEPT !.state = "closed"]) /\ browsers[b].preview \in PreviewIds
      BY <3>1, <3>2 DEF BrowserOK, BrowserRecords, Disconnect
    <3>4. browsers' = [browsers EXCEPT ![b] = [browsers[b] EXCEPT !.state = "closed"]]
      BY <3>1 DEF Disconnect
    <3>5. sessions' \in [PreviewIds -> 0..MaxBrowsers]
      BY <3>1, <3>3, PreviewAssumption DEF Disconnect, PreviewTypeOK
    <3> QED BY <3>1, <3>3, <3>4, <3>5, BrowserChange
  <2>6. CASE UNCHANGED <<sessions, browsers>>
    BY <2>6 DEF PreviewTypeOK, BrowsersAreTyped
  <2> QED
    BY <2>1, <2>2, <2>3, <2>4, <2>5, <2>6
    DEF PreviewNext, BeginCall, Prune, Reserve, RunProcess, StartFails, Record, StopStatus, StopCancel, CloseWorkspace,
        ReleasePreviews, BrowserRefuses, InspectLive, DecideOpen, RequireLiveSession, MatrixFails, MatrixAnswered, previewVars
<1> QED BY <1>1, <1>2, <1>3 DEF PreviewTypeOK

-----------------------------------------------------------------------------
(* Nothing but a launch makes a launched call.                             *)
LEMMA LaunchedBefore ==
  ASSUME PreviewTypeOK, [PreviewNext]_previewVars, ~\E c \in PreviewCalls : Launch(c),
         NEW d \in PreviewCalls, At(d, "open", "launched")'
  PROVE  At(d, "open", "launched") /\ previewCalls'[d].id = previewCalls[d].id
                                   /\ previewCalls'[d].browser = previewCalls[d].browser
<1>1. CASE \E c \in PreviewCalls : BeginCall(c)
  <2>1. PICK c \in PreviewCalls : BeginCall(c)
    BY <1>1
  <2>2. d # c /\ previewCalls'[d] = [previewCalls[d] EXCEPT !.alone = FALSE]
    BY <2>1, BegunIsTyped DEF At
  <2>3. previewCalls[d] \in PreviewCallRecords
    BY DEF PreviewTypeOK, CallsAreTyped
  <2> QED BY <2>2, <2>3 DEF At, PreviewCallRecords
<1>2. CASE \E c \in PreviewCalls : CallSteps(c)
  <2>1. PICK c \in PreviewCalls : CallSteps(c)
    BY <1>2
  <2>2. previewCalls[c] \in PreviewCallRecords
    BY DEF PreviewTypeOK, CallsAreTyped
  <2>3. \/ previewCalls'[c].op # "open" \/ previewCalls'[c].at # "launched"
    <3>1. CASE previewCalls[c].op # "open"
      BY <2>1, <3>1, OneCallMoves, BecomesIsTyped, NoCallIsOK DEF GoesOn, CallReturns, NoPreviewCall
    <3>2. CASE BrowserRefuses(c) \/ RegisterSession(c)
      BY <3>2, BecomesIsTyped, NoCallIsOK DEF BrowserRefuses, RegisterSession, CallReturns, NoPreviewCall
    <3>3. CASE InspectLive(c) \/ DecideOpen(c)
      <4>1. CASE CallReturns(c)
        BY <4>1, BecomesIsTyped, NoCallIsOK DEF CallReturns, NoPreviewCall
      <4>2. CASE CallGoes(c, "inspected") \/ CallGoes(c, "launching")
        BY <2>2, <4>2 DEF CallGoes, CallBecomes, PreviewTypeOK, CallsAreTyped, PreviewCallRecords
      <4> QED BY <3>3, <4>1, <4>2 DEF InspectLive, DecideOpen
    <3> QED
      BY <2>1, <3>1, <3>2, <3>3
      DEF CallSteps, Prune, Reserve, RunProcess, StartFails, Record, StopBrowser, StopStatus, StopCancel, CloseWorkspace,
          ReleaseBrowsers, ReleasePreviews, RequireLiveSession, Act, MatrixStep, MatrixFails, MatrixAnswered, At
  <2>4. d # c
    BY <2>3 DEF At
  <2>5. previewCalls'[d] = previewCalls[d]
    BY <2>1, <2>4, OneCallMoves, BecomesIsTyped, NoCallIsOK DEF GoesOn, CallReturns
  <2> QED BY <2>5 DEF At
<1>3. CASE (\E b \in Browsers : Disconnect(b)) \/ UNCHANGED previewVars
  BY <1>3 DEF Disconnect, previewVars, At
<1> QED BY <1>1, <1>2, <1>3 DEF PreviewNext, CallSteps

LEMMA SessionsStep == PreviewTypeOK /\ SessionsInv /\ [PreviewNext]_previewVars => SessionsInv'
<1> SUFFICES ASSUME PreviewTypeOK, SessionsInv, [PreviewNext]_previewVars PROVE SessionsInv'
  OBVIOUS
<1> DEFINE LiveOnes == \A i \in PreviewIds : sessions[i] # 0 =>
             browsers[sessions[i]].state = "live" /\ browsers[sessions[i]].preview = i
           Launched == \A c \in PreviewCalls : At(c, "open", "launched") =>
             browsers[previewCalls[c].browser].state # "unused" /\ browsers[previewCalls[c].browser].preview = previewCalls[c].id
<1>1. \A i \in PreviewIds : sessions[i] # 0 => sessions[i] \in Browsers
  BY PreviewAssumption DEF PreviewTypeOK, Browsers
<1>2. \A c \in PreviewCalls : At(c, "open", "launched") => previewCalls[c].browser \in Browsers /\ previewCalls[c].id \in PreviewIds
  BY DEF PreviewTypeOK, CallsAreTyped, PreviewCallOK, At
<1>3. ASSUME ~\E c \in PreviewCalls : Launch(c),
             \A b \in Browsers : browsers'[b].preview = browsers[b].preview /\ (browsers[b].state # "unused" => browsers'[b].state # "unused")
      PROVE  Launched'
  BY <1>2, <1>3, LaunchedBefore DEF SessionsInv
<1>4. \A b \in Browsers : browsers[b] \in BrowserRecords
  BY DEF PreviewTypeOK, BrowsersAreTyped
<1>5. CASE (\E ids \in SUBSET PreviewIds : Release(ids)) /\ ~\E c \in PreviewCalls : Launch(c)
  <2>1. PICK ids \in SUBSET PreviewIds : Release(ids)
    BY <1>5
  <2>2. LiveOnes'
    <3> SUFFICES ASSUME NEW i \in PreviewIds, sessions'[i] # 0
                 PROVE  browsers'[sessions'[i]].state = "live" /\ browsers'[sessions'[i]].preview = i
      OBVIOUS
    <3>1. i \notin ids /\ sessions'[i] = sessions[i]
      BY <2>1 DEF Release, ReleasedSessions
    <3>2. \A j \in ids : sessions[j] # sessions[i]
      BY <1>1, <3>1 DEF SessionsInv
    <3>3. browsers'[sessions[i]] = browsers[sessions[i]]
      BY <1>1, <2>1, <3>1, <3>2 DEF Release, ReleasedBrowsers
    <3> QED BY <3>1, <3>3 DEF SessionsInv
  <2>3. \A b \in Browsers : browsers'[b].preview = browsers[b].preview /\ (browsers[b].state # "unused" => browsers'[b].state # "unused")
    BY <1>4, <2>1 DEF Release, ReleasedBrowsers, BrowserRecords
  <2> QED BY <1>3, <1>5, <2>2, <2>3 DEF SessionsInv
<1>6. CASE \E c \in PreviewCalls : Launch(c)
  <2>1. PICK c \in PreviewCalls : Launch(c)
    BY <1>6
  <2>2. PICK b \in Browsers :
          /\ browsers[b] = NoBrowser
          /\ browsers' = [browsers EXCEPT ![b] = [state |-> "live", preview |-> previewCalls[c].id, viewport |-> "own"]]
          /\ CallBecomes(c, [previewCalls[c] EXCEPT !.at = "launched", !.browser = b])
    BY <2>1 DEF Launch
  <2>3. browsers[b].state = "unused"
    BY <2>2 DEF NoBrowser
  <2>4. LiveOnes'
    BY <1>1, <2>1, <2>2, <2>3 DEF SessionsInv, Launch
  <2>5. ASSUME NEW d \in PreviewCalls, At(d, "open", "launched")'
        PROVE  /\ browsers'[previewCalls'[d].browser].state # "unused"
               /\ browsers'[previewCalls'[d].browser].preview = previewCalls'[d].id
    <3>1. CASE d = c
      <4>1. previewCalls[c] \in PreviewCallRecords
        BY DEF PreviewTypeOK, CallsAreTyped
      <4>2. previewCalls'[c].browser = b /\ previewCalls'[c].id = previewCalls[c].id
        BY <2>2, <4>1 DEF CallBecomes, PreviewCallRecords, PreviewTypeOK, CallsAreTyped
      <4>3. browsers'[b].state = "live" /\ browsers'[b].preview = previewCalls[c].id
        BY <2>2 DEF PreviewTypeOK, BrowsersAreTyped
      <4> QED BY <3>1, <4>2, <4>3
    <3>2. CASE d # c
      <4>1. previewCalls'[d] = previewCalls[d]
        BY <2>2, <3>2 DEF CallBecomes, PreviewTypeOK, CallsAreTyped
      <4> QED BY <1>2, <2>2, <2>3, <2>5, <4>1 DEF SessionsInv, At, PreviewTypeOK, BrowsersAreTyped
    <3> QED BY <3>1, <3>2
  <2> QED BY <2>4, <2>5 DEF SessionsInv
<1>7. CASE ~\E c \in PreviewCalls : Launch(c)
  <2>1. CASE \E c \in PreviewCalls : RegisterSession(c)
    <3>1. PICK c \in PreviewCalls : RegisterSession(c)
      BY <2>1
    <3>2. LiveOnes'
      BY <1>2, <3>1 DEF RegisterSession, Registrable, StillThere, SessionsInv, PreviewTypeOK
    <3>3. browsers' = browsers
      BY <3>1 DEF RegisterSession
    <3> QED BY <1>3, <1>7, <3>2, <3>3 DEF SessionsInv
  <2>2. CASE \E c \in PreviewCalls : MatrixStep(c)
    <3>1. \A b \in Browsers : browsers'[b].preview = browsers[b].preview /\ browsers'[b].state = browsers[b].state
      BY <1>4, <2>2 DEF MatrixStep, PreviewTypeOK, BrowsersAreTyped, BrowserRecords
    <3>2. sessions' = sessions
      BY <2>2 DEF MatrixStep
    <3>3. LiveOnes'
      BY <1>1, <3>1, <3>2 DEF SessionsInv
    <3> QED BY <1>3, <1>7, <3>1, <3>3 DEF SessionsInv
  <2>3. CASE \E b \in Browsers : Disconnect(b)
    <3>1. PICK b \in Browsers : Disconnect(b)
      BY <2>3
    <3>2. \A a \in Browsers : /\ browsers'[a].preview = browsers[a].preview
                              /\ browsers'[a].state = IF a = b THEN "closed" ELSE browsers[a].state
      BY <1>4, <3>1 DEF Disconnect, PreviewTypeOK, BrowsersAreTyped, BrowserRecords
    <3>3. sessions' = [sessions EXCEPT ![browsers[b].preview] = 0]
      BY <3>1 DEF Disconnect
    <3>4. LiveOnes'
      BY <1>1, <3>2, <3>3 DEF SessionsInv, PreviewTypeOK
    <3> QED BY <1>3, <1>7, <3>2, <3>4 DEF SessionsInv
  <2>4. CASE UNCHANGED <<sessions, browsers>>
    BY <1>3, <1>7, <2>4 DEF SessionsInv
  <2>5. \/ \E ids \in SUBSET PreviewIds : Release(ids)
        \/ \E c \in PreviewCalls : RegisterSession(c) \/ MatrixStep(c)
        \/ \E b \in Browsers : Disconnect(b)
        \/ UNCHANGED <<sessions, browsers>>
    <3>1. ASSUME NEW c \in PreviewCalls, StopBrowser(c) \/ ReleaseBrowsers(c) \/ Act(c)
          PROVE  \E ids \in SUBSET PreviewIds : Release(ids)
      BY <3>1 DEF StopBrowser, ReleaseBrowsers, Act, PreviewTypeOK, CallsAreTyped, PreviewCallOK, At
    <3> QED
      BY <1>7, <3>1
      DEF PreviewNext, BeginCall, Prune, Reserve, RunProcess, StartFails, Record, StopStatus, StopCancel, CloseWorkspace,
          ReleasePreviews, BrowserRefuses, InspectLive, DecideOpen, RequireLiveSession, MatrixFails, MatrixAnswered, previewVars
  <2> QED BY <1>5, <1>7, <2>1, <2>2, <2>3, <2>4, <2>5
<1> QED BY <1>6, <1>7

-----------------------------------------------------------------------------
LEMMA PreviewsAreFinite ==
  ASSUME PreviewTypeOK
  PROVE  IsFiniteSet(previews) /\ IsFiniteSet(HoldingASlot) /\ Cardinality(previews) \in Nat /\ Cardinality(HoldingASlot) \in Nat
<1>1. IsFiniteSet(PreviewIds)
  BY PreviewAssumption, FS_Interval DEF PreviewIds
<1>2. IsFiniteSet(previews)
  BY <1>1, FS_Subset DEF PreviewTypeOK
<1>3. IsFiniteSet(HoldingASlot)
  BY PreviewAssumption, FS_Subset DEF HoldingASlot
<1> QED BY <1>2, <1>3, FS_CardinalityType

(* A call that is neither in `from` nor comes to it leaves the slots.      *)
LEMMA SlotsStay ==
  ASSUME PreviewTypeOK, NEW c \in PreviewCalls, CallSteps(c), ~Reserve(c), ~StartFails(c), ~Record(c)
  PROVE  HoldingASlot' = HoldingASlot /\ previews' \subseteq previews
<1>1. CASE RunProcess(c)
  <2>1. PICK i \in PreviewIds : CallBecomes(c, [previewCalls[c] EXCEPT !.at = "ran", !.id = i])
    BY <1>1 DEF RunProcess
  <2>2. previewCalls'[c].op = "start" /\ previewCalls'[c].at = "ran"
    BY <1>1, <2>1 DEF RunProcess, At, CallBecomes, PreviewTypeOK, CallsAreTyped, PreviewCallRecords
  <2>3. \A d \in PreviewCalls \ {c} : previewCalls'[d] = previewCalls[d]
    BY <2>1 DEF CallBecomes, PreviewTypeOK, CallsAreTyped
  <2> QED BY <1>1, <2>2, <2>3 DEF HoldingASlot, RunProcess, At
<1>2. CASE Prune(c)
  <2>1. PICK i \in previews : CallBecomes(c, [previewCalls[c] EXCEPT !.visited = @ \union {i}])
    BY <1>2 DEF Prune
  <2>2. previewCalls'[c].op = "start" /\ previewCalls'[c].at = "begun"
    BY <1>2, <2>1 DEF Prune, At, CallBecomes, PreviewTypeOK, CallsAreTyped, PreviewCallRecords
  <2>3. \A d \in PreviewCalls \ {c} : previewCalls'[d] = previewCalls[d]
    BY <2>1 DEF CallBecomes, PreviewTypeOK, CallsAreTyped
  <2>4. previews' \subseteq previews
    BY <1>2 DEF Prune
  <2> QED BY <1>2, <2>2, <2>3, <2>4 DEF HoldingASlot, Prune, At
<1>3. CASE previewCalls[c].op # "start"
  <2>1. previewCalls'[c].op # "start" /\ \A d \in PreviewCalls \ {c} : previewCalls'[d] = previewCalls[d]
    BY <1>3, OneCallMoves, BecomesIsTyped, NoCallIsOK DEF GoesOn, CallReturns, NoPreviewCall
  <2>2. HoldingASlot' = HoldingASlot
    BY <1>3, <2>1 DEF HoldingASlot
  <2>3. previews' \subseteq previews
    BY <1>3
    DEF CallSteps, Prune, Reserve, RunProcess, StartFails, Record, StopBrowser, StopStatus, StopCancel, CloseWorkspace,
        ReleaseBrowsers, ReleasePreviews, BrowserRefuses, InspectLive, DecideOpen, Launch, RegisterSession,
        RequireLiveSession, Act, MatrixStep, MatrixFails, MatrixAnswered, At
  <2> QED BY <2>2, <2>3
<1> QED
  BY <1>1, <1>2, <1>3
  DEF CallSteps, StopBrowser, StopStatus, StopCancel, CloseWorkspace, ReleaseBrowsers, ReleasePreviews, BrowserRefuses,
      InspectLive, DecideOpen, Launch, RegisterSession, RequireLiveSession, Act, MatrixStep, MatrixFails, MatrixAnswered, At

LEMMA BoundedStep == PreviewTypeOK /\ PreviewsAreBounded /\ [PreviewNext]_previewVars => PreviewsAreBounded'
<1> SUFFICES ASSUME PreviewTypeOK, PreviewsAreBounded, [PreviewNext]_previewVars PROVE PreviewsAreBounded'
  OBVIOUS
<1> DEFINE P == Cardinality(previews)
           H == Cardinality(HoldingASlot)
<1>1. IsFiniteSet(previews) /\ IsFiniteSet(HoldingASlot) /\ P \in Nat /\ H \in Nat /\ MaxPreviews \in Nat
  BY PreviewsAreFinite, PreviewAssumption
<1>2. CASE HoldingASlot' = HoldingASlot /\ previews' \subseteq previews
  <2>1. Cardinality(previews') <= P /\ Cardinality(previews') \in Nat
    BY <1>1, <1>2, FS_Subset, FS_CardinalityType
  <2> QED BY <1>1, <1>2, <2>1 DEF PreviewsAreBounded
<1>3. ASSUME NEW c \in PreviewCalls, StartFails(c) \/ Record(c)
      PROVE  /\ HoldingASlot' = HoldingASlot \ {c} /\ c \in HoldingASlot
  <2>1. previewCalls'[c] = NoPreviewCall /\ \A d \in PreviewCalls \ {c} : previewCalls'[d] = previewCalls[d]
    BY <1>3, BecomesIsTyped, NoCallIsOK DEF StartFails, Record, CallReturns
  <2> QED BY <1>3, <2>1 DEF HoldingASlot, NoPreviewCall, StartFails, Record, At
<1>4. CASE \E c \in PreviewCalls : Reserve(c)
  <2>1. PICK c \in PreviewCalls : Reserve(c)
    BY <1>4
  <2>2. CASE Full(c)
    <3>1. previewCalls'[c] = NoPreviewCall /\ \A d \in PreviewCalls \ {c} : previewCalls'[d] = previewCalls[d]
      BY <2>1, <2>2, BecomesIsTyped, NoCallIsOK DEF Reserve, CallReturns
    <3>2. HoldingASlot' = HoldingASlot
      BY <2>1, <3>1 DEF HoldingASlot, NoPreviewCall, Reserve, At
    <3> QED BY <1>2, <2>1, <3>2 DEF Reserve
  <2>3. CASE ~Full(c)
    <3>1. \A d \in PreviewCalls \ {c} : previewCalls'[d] = previewCalls[d]
      BY <2>1, <2>3 DEF Reserve, CallGoes, CallBecomes, PreviewTypeOK, CallsAreTyped
    <3>2. previewCalls'[c].op = "start" /\ previewCalls'[c].at = "reserved"
      BY <2>1, <2>3 DEF Reserve, CallGoes, CallBecomes, PreviewTypeOK, CallsAreTyped, PreviewCallRecords, At
    <3>3. HoldingASlot' = HoldingASlot \union {c}
      BY <3>1, <3>2 DEF HoldingASlot
    <3>4. Cardinality(HoldingASlot') <= H + 1 /\ Cardinality(HoldingASlot') \in Nat
      <4>1. Cardinality(HoldingASlot \union {c}) = IF c \in HoldingASlot THEN H ELSE H + 1
        BY <1>1, FS_AddElement
      <4> QED BY <1>1, <3>3, <4>1
    <3>5. previews' = previews /\ P + H < MaxPreviews
      BY <1>1, <2>1, <2>3 DEF Reserve, Full
    <3> QED BY <1>1, <3>4, <3>5 DEF PreviewsAreBounded
  <2> QED BY <2>2, <2>3
<1>5. CASE \E c \in PreviewCalls : StartFails(c)
  <2>1. PICK c \in PreviewCalls : StartFails(c)
    BY <1>5
  <2>2. Cardinality(HoldingASlot') = H - 1
    BY <1>1, <1>3, <2>1, FS_RemoveElement
  <2>3. previews' = previews
    BY <2>1 DEF StartFails
  <2> QED BY <1>1, <2>2, <2>3 DEF PreviewsAreBounded
<1>6. CASE \E c \in PreviewCalls : Record(c)
  <2>1. PICK c \in PreviewCalls : Record(c)
    BY <1>6
  <2>2. Cardinality(HoldingASlot') = H - 1
    BY <1>1, <1>3, <2>1, FS_RemoveElement
  <2>3. previews' = previews \union {previewCalls[c].id}
    BY <2>1 DEF Record
  <2>4. Cardinality(previews') <= P + 1 /\ Cardinality(previews') \in Nat
    <3> DEFINE i == previewCalls[c].id
    <3>1. Cardinality(previews \union {i}) = IF i \in previews THEN P ELSE P + 1
      BY <1>1, FS_AddElement
    <3> QED BY <1>1, <2>3, <3>1
  <2> QED BY <1>1, <2>2, <2>4 DEF PreviewsAreBounded
<1>7. CASE \E c \in PreviewCalls : BeginCall(c)
  <2>1. PICK c \in PreviewCalls : BeginCall(c)
    BY <1>7
  <2>2. \A d \in PreviewCalls \ {c} : previewCalls'[d].op = previewCalls[d].op /\ previewCalls'[d].at = previewCalls[d].at
    BY <2>1, BegunIsTyped
  <2>3. HoldingASlot' = HoldingASlot
    BY <2>1, <2>2, BegunIsTyped DEF HoldingASlot
  <2> QED BY <1>2, <2>1, <2>3 DEF BeginCall
<1>8. CASE (\E b \in Browsers : Disconnect(b)) \/ UNCHANGED previewVars
  BY <1>8 DEF Disconnect, previewVars, PreviewsAreBounded, HoldingASlot
<1> QED BY <1>2, <1>4, <1>5, <1>6, <1>7, <1>8, SlotsStay DEF PreviewNext, CallSteps

LEMMA AloneStep == PreviewTypeOK /\ AloneInv /\ [PreviewNext]_previewVars => AloneInv'
<1> SUFFICES ASSUME PreviewTypeOK, AloneInv, [PreviewNext]_previewVars PROVE AloneInv'
  OBVIOUS
<1>1. CASE \E c \in PreviewCalls : BeginCall(c)
  <2>1. PICK c \in PreviewCalls : BeginCall(c)
    BY <1>1
  <2>2. \A d \in PreviewCalls \ {c} : previewCalls'[d].at = previewCalls[d].at /\ ~previewCalls'[d].alone
    BY <2>1, BegunIsTyped
  <2> QED BY <2>1, <2>2, BegunIsTyped DEF AloneInv
<1>2. CASE \E c \in PreviewCalls : CallSteps(c)
  <2>1. PICK c \in PreviewCalls : CallSteps(c)
    BY <1>2
  <2>2. /\ \A d \in PreviewCalls \ {c} : previewCalls'[d] = previewCalls[d]
        /\ \/ previewCalls'[c].at = "idle"
           \/ previewCalls[c].at # "idle" /\ previewCalls'[c].alone = previewCalls[c].alone
    BY <2>1, OneCallMoves, BecomesIsTyped, NoCallIsOK DEF GoesOn, CallReturns, NoPreviewCall
  <2> QED BY <2>2 DEF AloneInv
<1>3. CASE (\E b \in Browsers : Disconnect(b)) \/ UNCHANGED previewVars
  BY <1>3 DEF Disconnect, previewVars, AloneInv
<1> QED BY <1>1, <1>2, <1>3 DEF PreviewNext, CallSteps

-----------------------------------------------------------------------------
LEMMA CallsThatStep ==
  ASSUME NEW c \in PreviewCalls, CallSteps(c)
  PROVE  previewCalls[c].at # "idle"
BY DEF CallSteps, Prune, Reserve, RunProcess, StartFails, Record, StopBrowser, StopStatus, StopCancel, CloseWorkspace,
       ReleaseBrowsers, ReleasePreviews, BrowserRefuses, InspectLive, DecideOpen, Launch, RegisterSession,
       RequireLiveSession, Act, MatrixStep, MatrixFails, MatrixAnswered, At

(* Two steps, a resize and a picture, make one more picture.               *)
LEMMA TakenCounts ==
  ASSUME NEW s \in Nat
  PROVE  /\ Resizes(s) => Taken(s + 1) = Taken(s) /\ ~Resizes(s + 1)
         /\ (s > 0 /\ ~Resizes(s)) => /\ Taken(s + 1) = Taken(s) + 1 /\ Resizes(s + 1)
                                      /\ s \div 2 = Taken(s) + 1 /\ (s - 1 + 1) \div 2 = s \div 2
         /\ s = 0 => Taken(s + 1) = 0 /\ Taken(s) = 0 /\ Resizes(s + 1)
BY DEF Taken, Resizes

(* What a step of the matrix does to its pictures.                         *)
LEMMA MatrixMoves ==
  ASSUME PreviewTypeOK, NEW c \in PreviewCalls, MatrixStep(c), MatrixOK(previewCalls[c])
  PROVE  MatrixOK(previewCalls[c])'
<1> DEFINE b == previewCalls[c].browser
           s == previewCalls[c].step
           at == IF s = Restoring THEN "captured" ELSE "begun"
           old == previewCalls[c].shots
           shots == IF s > 0 /\ ~Resizes(s) THEN Append(old, browsers[b].viewport) ELSE old
           seen == [previewCalls[c] EXCEPT !.at = at, !.step = s + 1, !.shots = shots]
<1>1. /\ previewCalls[c] \in PreviewCallRecords /\ PreviewCallOK(previewCalls[c])
      /\ browsers \in [Browsers -> BrowserRecords] /\ previewCalls \in [PreviewCalls -> PreviewCallRecords]
  BY DEF PreviewTypeOK, CallsAreTyped, BrowsersAreTyped
<1>2. b \in Browsers /\ s \in Nat /\ s <= Restoring /\ old \in Seq(Viewports) /\ browsers[b].viewport \in Viewports
  BY <1>1 DEF MatrixStep, At, PreviewCallOK, PreviewCallRecords, BrowserRecords
<1>3. previewCalls'[c] = seen
  BY <1>1 DEF MatrixStep, CallBecomes
<1>4. /\ seen.id = previewCalls[c].id /\ seen.browser = b /\ seen.failed = previewCalls[c].failed
      /\ seen.step = s + 1 /\ seen.shots = shots
  BY <1>1 DEF PreviewCallRecords
<1>5. sessions' = sessions /\ sessions[previewCalls[c].id] \in {0, b}
  BY DEF MatrixStep, MatrixOK, At
<1>6. ASSUME ~previewCalls[c].failed
      PROVE  /\ Len(shots) = Taken(s + 1)
             /\ \A k \in 1..Len(shots) : shots[k] = Matrix[k]
             /\ ~Resizes(s + 1) => browsers'[b].viewport = ViewportOf(s)
  <2>1. Len(old) = Taken(s) /\ \A k \in 1..Len(old) : old[k] = Matrix[k]
    BY <1>6 DEF MatrixOK
  <2>2. CASE s = 0 \/ Resizes(s)
    <3>1. shots = old /\ (~Resizes(s + 1) => Resizes(s)) /\ Taken(s + 1) = Taken(s)
      BY <1>2, <2>2, TakenCounts
    <3>2. Resizes(s) => browsers'[b].viewport = ViewportOf(s)
      BY <1>1, <1>2 DEF MatrixStep, BrowserRecords
    <3> QED BY <2>1, <3>1, <3>2
  <2>3. CASE s > 0 /\ ~Resizes(s)
    <3>1. browsers[b].viewport = Matrix[Taken(s) + 1]
      <4>1. browsers[b].viewport = ViewportOf(s - 1)
        BY <1>6, <2>3 DEF MatrixOK
      <4>2. s - 1 # Restoring
        BY <1>2, PreviewAssumption DEF Restoring
      <4> QED BY <1>2, <2>3, <4>1, <4>2, TakenCounts DEF ViewportOf
    <3>2. shots = Append(old, browsers[b].viewport)
      BY <2>3
    <3>3. /\ Len(shots) = Len(old) + 1 /\ shots[Len(old) + 1] = browsers[b].viewport
          /\ \A k \in 1..Len(old) : shots[k] = old[k]
      <4> HIDE DEF old, shots
      <4> QED BY <1>2, <3>2, AppendProperties
    <3>4. Len(old) \in Nat
      BY <1>2
    <3> HIDE DEF old, shots
    <3>5. \A k \in 1..Len(shots) : shots[k] = Matrix[k]
      BY <2>1, <3>1, <3>3, <3>4
    <3> QED BY SMTT(60), <1>2, <2>1, <2>3, <3>3, <3>5, TakenCounts
  <2> QED BY <1>2, <2>2, <2>3
<1>7. /\ previewCalls'[c].id = previewCalls[c].id /\ previewCalls'[c].browser = b
      /\ previewCalls'[c].failed = previewCalls[c].failed
      /\ previewCalls'[c].step = s + 1 /\ previewCalls'[c].shots = shots
  BY <1>3, <1>4
<1>8. (s + 1) - 1 = s
  BY <1>2
<1> HIDE DEF seen, shots
<1> QED BY <1>5, <1>6, <1>7, <1>8 DEF MatrixOK

LEMMA MatrixStays == PreviewTypeOK /\ AloneInv /\ MatrixInv /\ [PreviewNext]_previewVars => MatrixInv'
<1> SUFFICES ASSUME PreviewTypeOK, AloneInv, MatrixInv, [PreviewNext]_previewVars,
                    NEW d \in PreviewCalls, previewCalls'[d].op = "matrix", previewCalls'[d].alone
             PROVE  MatrixOK(previewCalls[d])'
  BY DEF MatrixInv
<1>0. previewCalls[d] \in PreviewCallRecords /\ PreviewCallOK(previewCalls[d])
  BY DEF PreviewTypeOK, CallsAreTyped
<1>1. CASE \E c \in PreviewCalls : BeginCall(c)
  <2>1. PICK c \in PreviewCalls : BeginCall(c)
    BY <1>1
  <2>2. /\ previewCalls'[d].at = "begun" /\ previewCalls'[d].step = 0 /\ previewCalls'[d].shots = <<>>
    BY <2>1, BegunIsTyped
  <2> QED BY <2>2 DEF MatrixOK, Taken
<1>2. CASE \E c \in PreviewCalls : CallSteps(c)
  <2>1. PICK c \in PreviewCalls : CallSteps(c)
    BY <1>2
  <2>2. /\ \A e \in PreviewCalls \ {c} : previewCalls'[e] = previewCalls[e]
        /\ \/ previewCalls'[c] = NoPreviewCall
           \/ previewCalls'[c].op = previewCalls[c].op /\ previewCalls'[c].alone = previewCalls[c].alone
    BY <2>1, OneCallMoves, BecomesIsTyped, NoCallIsOK DEF GoesOn, CallReturns
  <2>3. d = c
    BY <1>0, <2>1, <2>2, CallsThatStep DEF AloneInv, PreviewCallOK
  <2>4. previewCalls[d].op = "matrix" /\ MatrixOK(previewCalls[d])
    BY <2>2, <2>3 DEF NoPreviewCall, MatrixInv
  <2>5. CASE MatrixStep(d)
    BY <2>4, <2>5, MatrixMoves
  <2>6. CASE RequireLiveSession(d)
    <3> DEFINE seen == [previewCalls[d] EXCEPT !.at = "acting", !.browser = sessions[previewCalls[d].id]]
    <3>1. previewCalls'[d] = seen /\ sessions' = sessions /\ browsers' = browsers
          /\ sessions[previewCalls[d].id] # 0
      BY <2>6 DEF RequireLiveSession, CallBecomes, PreviewTypeOK, CallsAreTyped
    <3>2. /\ seen.browser = sessions[previewCalls[d].id] /\ seen.id = previewCalls[d].id
          /\ seen.failed = previewCalls[d].failed /\ seen.step = previewCalls[d].step /\ seen.shots = previewCalls[d].shots
      BY <1>0 DEF PreviewCallRecords
    <3>3. seen.step > 0 => seen.browser = previewCalls[d].browser
      BY <2>4, <3>1, <3>2 DEF MatrixOK
    <3>4. /\ previewCalls'[d].browser = sessions[previewCalls[d].id] /\ previewCalls'[d].id = previewCalls[d].id
          /\ previewCalls'[d].failed = previewCalls[d].failed /\ previewCalls'[d].step = previewCalls[d].step
          /\ previewCalls'[d].shots = previewCalls[d].shots
      BY <3>1, <3>2
    <3>5. previewCalls[d].step \in Nat
      BY <1>0 DEF PreviewCallRecords
    <3> HIDE DEF seen
    <3> QED BY <2>4, <3>1, <3>2, <3>3, <3>4, <3>5 DEF MatrixOK
  <2>7. CASE MatrixFails(d)
    <3>1. previewCalls'[d] # NoPreviewCall
      BY DEF NoPreviewCall
    <3> DEFINE seen == [previewCalls[d] EXCEPT !.at = "begun", !.step = Restoring, !.failed = TRUE]
    <3>2. previewCalls'[d] = seen /\ sessions' = sessions /\ previewCalls[d].step # 0
      BY <2>7, <3>1, BecomesIsTyped, NoCallIsOK DEF MatrixFails, CallReturns, CallBecomes, PreviewTypeOK, CallsAreTyped
    <3>3. seen.browser = previewCalls[d].browser /\ seen.id = previewCalls[d].id /\ seen.failed
      BY <1>0 DEF PreviewCallRecords
    <3>4. sessions[previewCalls[d].id] \in {0, previewCalls[d].browser}
      BY <1>0, <2>4, <3>2 DEF MatrixOK, PreviewCallRecords
    <3>5. /\ previewCalls'[d].browser = previewCalls[d].browser /\ previewCalls'[d].id = previewCalls[d].id
          /\ previewCalls'[d].failed
      BY <3>2, <3>3
    <3> QED BY <3>2, <3>4, <3>5 DEF MatrixOK
  <2>8. CASE MatrixAnswered(d)
    BY <2>8, BecomesIsTyped, NoCallIsOK DEF MatrixAnswered, CallReturns, NoPreviewCall
  <2> QED
    BY <2>1, <2>3, <2>4, <2>5, <2>6, <2>7, <2>8
    DEF CallSteps, Prune, Reserve, RunProcess, StartFails, Record, StopBrowser, StopStatus, StopCancel, CloseWorkspace,
        ReleaseBrowsers, ReleasePreviews, BrowserRefuses, InspectLive, DecideOpen, Launch, RegisterSession, Act, At
<1>3. CASE \E b \in Browsers : Disconnect(b)
  <2>1. PICK b \in Browsers : Disconnect(b)
    BY <1>3
  <2>2. previewCalls' = previewCalls /\ MatrixOK(previewCalls[d])
    BY <2>1 DEF Disconnect, MatrixInv
  <2>3. \A i \in PreviewIds : sessions'[i] \in {0, sessions[i]}
    BY <2>1 DEF Disconnect, PreviewTypeOK
  <2>4. \A a \in Browsers : browsers'[a].viewport = browsers[a].viewport
    BY <2>1 DEF Disconnect, PreviewTypeOK, BrowsersAreTyped, BrowserRecords
  <2>5. previewCalls[d].id \in PreviewIds /\ (previewCalls[d].step > 0 => previewCalls[d].browser \in Browsers)
    BY <1>0, <2>2 DEF PreviewCallOK
  <2> QED BY <2>2, <2>3, <2>4, <2>5 DEF MatrixOK
<1>4. CASE UNCHANGED previewVars
  BY <1>4 DEF previewVars, MatrixInv, MatrixOK
<1> QED BY <1>1, <1>2, <1>3, <1>4 DEF PreviewNext, CallSteps

(* However many calls are in flight, on whichever previews: there are      *)
(* never more previews than MAX_PREVIEW_SESSIONS, a session has a live     *)
(* browser of its own preview behind it, and a matrix nothing disturbed    *)
(* has the pictures it names and leaves the page as it found it.           *)
THEOREM PreviewsStaySound == PreviewSpec => []PreviewsAreSound
<1>1. PreviewInit => PreviewInv
  <2> SUFFICES ASSUME PreviewInit PROVE PreviewInv
    OBVIOUS
  <2>1. \A c \in PreviewCalls : previewCalls[c] = NoPreviewCall
    BY DEF PreviewInit
  <2>2. PreviewCallOK(NoPreviewCall) /\ NoPreviewCall \in PreviewCallRecords
    BY NoCallIsOK DEF PreviewCallOK
  <2>3. CallsAreTyped
    BY <2>1, <2>2 DEF PreviewInit, CallsAreTyped
  <2>4. BrowserOK(NoBrowser) /\ NoBrowser \in BrowserRecords
    BY PreviewAssumption DEF BrowserOK, NoBrowser, BrowserRecords, Viewports
  <2>5. PreviewTypeOK
    BY <2>3, <2>4, PreviewAssumption DEF PreviewInit, PreviewTypeOK, BrowsersAreTyped
  <2>6. PreviewsAreBounded
    <3>1. HoldingASlot = {}
      BY <2>1 DEF HoldingASlot, NoPreviewCall
    <3> QED BY <3>1, FS_EmptySet, PreviewAssumption DEF PreviewInit, PreviewsAreBounded
  <2>7. SessionsInv /\ AloneInv /\ MatrixInv
    BY <2>1 DEF PreviewInit, SessionsInv, AloneInv, MatrixInv, At, NoPreviewCall
  <2> QED BY <2>5, <2>6, <2>7 DEF PreviewInv
<1>2. PreviewInv /\ [PreviewNext]_previewVars => PreviewInv'
  BY PreviewTypeStep, BoundedStep, SessionsStep, AloneStep, MatrixStays DEF PreviewInv
<1>3. PreviewInv => PreviewsAreSound
  <2> SUFFICES ASSUME PreviewInv,
                      NEW c \in PreviewCalls, At(c, "matrix", "captured"), ~previewCalls[c].failed, previewCalls[c].alone
               PROVE  previewCalls[c].shots = Matrix /\ browsers[previewCalls[c].browser].viewport = "own"
    BY DEF PreviewInv, SessionsInv, PreviewsAreSound, SessionsAreLive
  <2> DEFINE shots == previewCalls[c].shots
             s == previewCalls[c].step
  <2>1. /\ Len(Matrix) \in Nat /\ Matrix \in Seq(STRING) /\ Restoring = 2 * Len(Matrix) + 1
    BY PreviewAssumption DEF Restoring
  <2>2. /\ PreviewCallOK(previewCalls[c]) /\ MatrixOK(previewCalls[c]) /\ s = Restoring + 1 /\ shots \in Seq(Viewports)
    BY DEF PreviewInv, PreviewTypeOK, CallsAreTyped, PreviewCallOK, PreviewCallRecords, MatrixInv, At
  <2>3. ~Resizes(s) /\ s > 0 /\ s - 1 = Restoring /\ Taken(s) = Len(Matrix)
    BY <2>1, <2>2 DEF Resizes, Taken
  <2>4. Len(shots) = Len(Matrix) /\ \A k \in 1..Len(shots) : shots[k] = Matrix[k]
    BY <2>2, <2>3 DEF MatrixOK
  <2>5. browsers[previewCalls[c].browser].viewport = "own"
    BY <2>2, <2>3 DEF MatrixOK, ViewportOf
  <2>6. shots = Matrix
    <3> HIDE DEF shots
    <3> QED BY <2>1, <2>2, <2>4, SeqEqual
  <2> QED BY <2>5, <2>6
<1> QED
  BY <1>1, <1>2, <1>3, PTL DEF PreviewSpec

-----------------------------------------------------------------------------
DistinctIds(d)  == \A x, y \in d : x.id = y.id => x = y
DistinctKeys(d) == \A x, y \in d : x.key = y.key => x = y

(* The roots an entry of bootstrap may have.                               *)
RootsOf(label) == IF label = "Node runtime" THEN NodeRoots ELSE RustRoots

(* A document of developer environments whose ids were generated before n. *)
EnvironmentsOK(d, n) ==
  /\ IsFiniteSet(d) /\ DistinctIds(d) /\ DistinctKeys(d)
  /\ \A e \in d : e.id \in Nat /\ e.id < n /\ (e.source \in Labels => e.key \in RootsOf(e.source))

Acceptable(d, n) ==
  /\ IsFiniteSet(d) /\ Parses(d)
  /\ kind = "environments" => EnvironmentsOK(d, n)

RegistryInv ==
  /\ kind \in Kinds /\ issued \in Nat /\ Acceptable(document, issued)
  /\ registryCalls = [c \in Callers |-> registryCalls[c]]
  /\ \A c \in Callers : Acceptable(registryCalls[c].copy, issued)

-----------------------------------------------------------------------------
LEMMA OneIdEach ==
  ASSUME NEW d, IsFiniteSet(d)
  PROVE  OneEach(d, Ids(d)) <=> DistinctIds(d)
<1> DEFINE f == [e \in d |-> e.id]
<1>1. f \in Surjection(d, Ids(d))
  BY DEF Surjection, Ids
<1>2. Cardinality(Ids(d)) = Cardinality(d) <=> f \in Injection(d, Ids(d))
  BY <1>1, FS_Surjection
<1>3. f \in Injection(d, Ids(d)) <=> DistinctIds(d)
  BY DEF Injection, IsInjective, DistinctIds, Ids
<1> QED BY <1>2, <1>3 DEF OneEach

LEMMA OneKeyEach ==
  ASSUME NEW d, IsFiniteSet(d)
  PROVE  OneEach(d, Keys(d)) <=> DistinctKeys(d)
<1> DEFINE f == [e \in d |-> e.key]
<1>1. f \in Surjection(d, Keys(d))
  BY DEF Surjection, Keys
<1>2. Cardinality(Keys(d)) = Cardinality(d) <=> f \in Injection(d, Keys(d))
  BY <1>1, FS_Surjection
<1>3. f \in Injection(d, Keys(d)) <=> DistinctKeys(d)
  BY DEF Injection, IsInjective, DistinctKeys, Keys
<1> QED BY <1>2, <1>3 DEF OneEach

LEMMA EnvironmentFields ==
  ASSUME NEW id, NEW r, NEW source
  PROVE  Environment(id, r, source).id = id /\ Environment(id, r, source).key = r /\ Environment(id, r, source).source = source
BY DEF Environment

(* One more environment, of an unused root.                                *)
LEMMA AddKeeps ==
  ASSUME NEW n \in Nat, NEW d, EnvironmentsOK(d, n), NEW r \in Roots, NEW usable, NEW next \in AddEnvironment(d, r, n, usable)
  PROVE  EnvironmentsOK(next, n + 1)
<1> DEFINE e == Environment(n, r, "operator")
<1>1. next = d \union {e} /\ r \notin Keys(d)
  BY DEF AddEnvironment
<1>2. e.id = n /\ e.key = r /\ e.source \notin Labels
  BY DEF Environment, Labels
<1>3. IsFiniteSet(next)
  BY <1>1, FS_AddElement DEF EnvironmentsOK
<1> HIDE DEF e
<1> QED BY <1>1, <1>2, <1>3 DEF EnvironmentsOK, DistinctIds, DistinctKeys, Keys

(* The fresh ids of a synchronisation exist.                               *)
LEMMA FreshIds ==
  ASSUME NEW n \in Nat, NEW new, IsFiniteSet(new)
  PROVE  \E f \in [new -> n..n + Cardinality(new)] : IsInjective(f)
<1> DEFINE k == Cardinality(new)
<1>1. k \in Nat /\ ExistsBijection(1..k, new)
  BY FS_CardinalityType
<1>2. ExistsBijection(new, 1..k)
  BY <1>1, Fun_ExistsBijSymmetric
<1>3. PICK g \in Bijection(new, 1..k) : TRUE
  BY <1>2 DEF ExistsBijection
<1>4. g \in [new -> 1..k] /\ \A a, b \in new : g[a] = g[b] => a = b
  BY <1>3 DEF Bijection, Injection, IsInjective
<1> DEFINE f == [x \in new |-> n + g[x]]
<1>5. f \in [new -> n..n + k]
  BY <1>1, <1>4
<1>6. IsInjective(f)
  <2> SUFFICES ASSUME NEW a \in new, NEW b \in new, n + g[a] = n + g[b] PROVE a = b
    BY DEF IsInjective
  <2>1. g[a] \in Nat /\ g[b] \in Nat
    BY <1>1, <1>4
  <2> QED BY <1>4, <2>1
<1> QED BY <1>5, <1>6

LEMMA SyncKeeps ==
  ASSUME NEW n \in Nat, NEW d, EnvironmentsOK(d, n), NEW rs \in SUBSET Roots, NEW usable,
         NEW next \in SyncPath(d, rs, n, usable)
  PROVE  \E m \in Nat : EnvironmentsOK(next, m)
<1> DEFINE new == {r \in rs : r \in usable /\ r \notin Keys(d)}
           id == CHOOSE f \in [new -> n..n + Cardinality(new)] : IsInjective(f)
           entry(r) == Environment(id[r], r, "synced-shell")
           entries == {entry(r) : r \in new}
<1>1. next = d \union entries
  BY DEF SyncPath
<1>2. IsFiniteSet(new)
  BY RootsAssumption, FS_Subset
<1>3. id \in [new -> n..n + Cardinality(new)] /\ IsInjective(id)
  BY <1>2, FreshIds
<1>4. Cardinality(new) \in Nat
  BY <1>2, FS_CardinalityType
<1>5. \A r \in new : entry(r).id = id[r] /\ entry(r).key = r /\ entry(r).source \notin Labels
  BY DEF Environment, Labels
<1>6. IsFiniteSet(entries)
  <2> DEFINE g == [r \in new |-> entry(r)]
  <2>1. g \in Surjection(new, entries)
    BY DEF Surjection
  <2> QED BY <1>2, <2>1, FS_Surjection
<1>7. IsFiniteSet(next)
  BY <1>1, <1>6, FS_Union DEF EnvironmentsOK
<1> DEFINE m == n + Cardinality(new) + 1
<1>8. \A r \in new : id[r] \in Nat /\ id[r] >= n /\ id[r] < m /\ (\A q \in new : id[r] = id[q] => r = q)
  <2> HIDE DEF id
  <2> QED BY <1>3, <1>4 DEF IsInjective
<1>9. \A r \in new : r \notin Keys(d)
  OBVIOUS
<1>10. m \in Nat /\ m >= n
  BY <1>4
<1> HIDE DEF new, id, entry, m
<1>11. \A e \in entries : \E r \in new : /\ e = entry(r) /\ e.id = id[r] /\ e.key = r /\ e.source \notin Labels
  BY <1>5
<1> HIDE DEF entries
<1>12. DistinctIds(next)
  BY <1>1, <1>8, <1>11 DEF DistinctIds, EnvironmentsOK
<1>13. DistinctKeys(next)
  BY <1>1, <1>9, <1>11 DEF DistinctKeys, EnvironmentsOK, Keys
<1>14. \A e \in next : e.id \in Nat /\ e.id < m /\ (e.source \in Labels => e.key \in RootsOf(e.source))
  BY <1>1, <1>8, <1>10, <1>11 DEF EnvironmentsOK
<1> QED BY <1>7, <1>10, <1>12, <1>13, <1>14 DEF EnvironmentsOK

LEMMA EnsureKeeps ==
  ASSUME NEW n \in Nat, NEW d, EnvironmentsOK(d, n), NEW label \in Labels, NEW r \in RootsOf(label), NEW usable
  PROVE  EnvironmentsOK(EnsureOne(d, label, r, n, usable), n + 1)
<1> DEFINE mine == {e \in d : e.source = label}
           id == IF mine = {} THEN n ELSE (CHOOSE e \in mine : TRUE).id
           entry == Environment(id, r, label)
<1>1. CASE r \notin usable \/ SomebodyElses(d, r)
  <2>1. EnsureOne(d, label, r, n, usable) = d
    BY <1>1 DEF EnsureOne
  <2> QED BY <2>1 DEF EnvironmentsOK
<1>2. CASE r \in usable /\ ~SomebodyElses(d, r)
  <2>1. EnsureOne(d, label, r, n, usable) = (d \ mine) \union {entry}
    BY <1>2 DEF EnsureOne
  <2>2. entry.id = id /\ entry.key = r /\ entry.source = label
    BY EnvironmentFields
  <2>3. id \in Nat /\ id < n + 1 /\ \A e \in d \ mine : e.id # id
    <3>1. CASE mine = {}
      BY <3>1 DEF EnvironmentsOK
    <3>2. CASE mine # {}
      <4>1. PICK e \in mine : id = e.id
        BY <3>2
      <4> HIDE DEF id
      <4> QED BY <4>1 DEF EnvironmentsOK, DistinctIds
    <3> QED BY <3>1, <3>2
  <2>4. \A e \in d \ mine : e.key # r
    BY <1>2, RootsAssumption DEF SomebodyElses, EnvironmentsOK, Labels, RootsOf
  <2>5. IsFiniteSet((d \ mine) \union {entry})
    <3>1. IsFiniteSet(d \ mine)
      BY FS_Subset DEF EnvironmentsOK
    <3> QED BY <3>1, FS_AddElement
  <2> HIDE DEF id, entry
  <2> QED BY <2>1, <2>2, <2>3, <2>4, <2>5 DEF EnvironmentsOK, DistinctIds, DistinctKeys
<1> QED BY <1>1, <1>2

(* The empty document is acceptable to every registry.                     *)
LEMMA NothingIsAcceptable ==
  ASSUME kind \in Kinds, NEW n \in Nat
  PROVE  Acceptable({}, n)
<1>1. IsFiniteSet({}) /\ Cardinality({}) = 0
  BY FS_EmptySet
<1>2. EnvironmentsOK({}, n) /\ OneEach({}, Ids({})) /\ OneEach({}, Keys({}))
  BY <1>1, OneIdEach, OneKeyEach DEF EnvironmentsOK, DistinctIds, DistinctKeys
<1>3. EnvironmentsParse({}) /\ SourcesParse({}) /\ ProvidersParse({}) /\ CredentialParses({})
  BY <1>1, <1>2, RootsAssumption DEF EnvironmentsParse, SourcesParse, ProvidersParse, CredentialParses
<1>4. Parses({})
  BY <1>3 DEF Kinds, Parses
<1> QED BY <1>1, <1>2, <1>4 DEF Acceptable

LEMMA WithoutKeeps ==
  ASSUME NEW d, IsFiniteSet(d), NEW id, NEW next \in Without(d, id)
  PROVE  IsFiniteSet(next) /\ next \subseteq d /\ Cardinality(next) <= Cardinality(d)
<1>1. next = {e \in d : e.id # id}
  BY DEF Without
<1> QED BY <1>1, FS_Subset

(* Whatever is written to the environments is a document of environments.  *)
LEMMA EnvironmentsKeep ==
  ASSUME kind = "environments", NEW n \in Nat, NEW d, EnvironmentsOK(d, n),
         NEW request \in Requests, NEW usable \in Inspections, NEW next \in Written(d, request, n, usable)
  PROVE  \E m \in Nat : EnvironmentsOK(next, m)
<1>1. \/ request \in [op : {"add"}, key : Roots] \/ request \in [op : {"sync"}, keys : SUBSET Roots]
      \/ request \in [op : {"bootstrap"}, node : NodeRoots, rust : RustRoots]
      \/ request \in [op : {"remove"}, id : 0..MaxIds - 1]
  BY DEF Requests
<1>2. CASE request \in [op : {"add"}, key : Roots]
  <2>1. next \in AddEnvironment(d, request.key, n, usable)
    BY <1>2 DEF Written
  <2> QED BY <1>2, <2>1, AddKeeps
<1>3. CASE request \in [op : {"sync"}, keys : SUBSET Roots]
  <2>1. next \in SyncPath(d, request.keys, n, usable)
    BY <1>3 DEF Written
  <2> QED BY <1>3, <2>1, SyncKeeps
<1>4. CASE request \in [op : {"bootstrap"}, node : NodeRoots, rust : RustRoots]
  <2> DEFINE one == EnsureOne(d, "Node runtime", request.node, n, usable)
             two == EnsureOne(one, "Rust stable toolchain", request.rust, n + 1, usable)
  <2>1. next \in EnsureBootstrap(d, request.node, request.rust, n, usable)
    BY <1>4 DEF Written
  <2>2. next = two
    BY <2>1 DEF EnsureBootstrap
  <2>3. request.node \in RootsOf("Node runtime") /\ request.rust \in RootsOf("Rust stable toolchain")
    BY <1>4 DEF RootsOf
  <2>4. "Node runtime" \in Labels /\ "Rust stable toolchain" \in Labels
    BY DEF Labels
  <2>5. EnvironmentsOK(one, n + 1)
    BY <2>3, <2>4, EnsureKeeps
  <2> HIDE DEF one
  <2>6. PICK k \in Nat : k = n + 1
    OBVIOUS
  <2>7. EnvironmentsOK(EnsureOne(one, "Rust stable toolchain", request.rust, k, usable), k + 1)
    BY <2>3, <2>4, <2>5, <2>6, EnsureKeeps
  <2>8. k + 1 \in Nat
    OBVIOUS
  <2> QED BY <2>2, <2>6, <2>7, <2>8
<1>5. CASE request \in [op : {"remove"}, id : 0..MaxIds - 1]
  <2>1. next \in Without(d, request.id)
    BY <1>5 DEF Written
  <2>2. IsFiniteSet(next) /\ next \subseteq d
    BY <2>1, WithoutKeeps DEF EnvironmentsOK
  <2>3. EnvironmentsOK(next, n)
    BY <2>2 DEF EnvironmentsOK, DistinctIds, DistinctKeys
  <2> QED BY <2>3
<1> QED BY <1>1, <1>2, <1>3, <1>4, <1>5

LEMMA SourcesKeep ==
  ASSUME kind = "sources", NEW n, NEW d, IsFiniteSet(d), Cardinality(d) <= MaxEntries,
         NEW request \in Requests, NEW usable, NEW next \in Written(d, request, n, usable)
  PROVE  IsFiniteSet(next) /\ Cardinality(next) <= MaxEntries
<1>1. request \in [op : {"add"}, key : Roots] \/ request \in [op : {"remove"}, id : 0..MaxIds - 1]
  BY DEF Requests
<1>2. Cardinality(d) \in Nat /\ MaxEntries \in Nat
  BY FS_CardinalityType, RootsAssumption
<1>3. CASE request \in [op : {"add"}, key : Roots]
  <2> DEFINE e == [id |-> n, key |-> request.key]
  <2>1. next \in AddSource(d, request.key, n)
    BY <1>3 DEF Written
  <2>2. next = d \union {e} /\ Cardinality(d) < MaxEntries
    BY <2>1 DEF AddSource
  <2> HIDE DEF e
  <2>3. IsFiniteSet(d \union {e}) /\ Cardinality(d \union {e}) = IF e \in d THEN Cardinality(d) ELSE Cardinality(d) + 1
    BY FS_AddElement
  <2> QED BY <1>2, <2>2, <2>3
<1>4. CASE request \in [op : {"remove"}, id : 0..MaxIds - 1]
  <2>1. next \in Without(d, request.id)
    BY <1>4 DEF Written
  <2>2. IsFiniteSet(next) /\ Cardinality(next) <= Cardinality(d)
    BY <2>1, WithoutKeeps
  <2> QED BY <1>2, <2>2, FS_CardinalityType
<1> QED BY <1>1, <1>3, <1>4

LEMMA ProvidersKeep ==
  ASSUME kind = "providers", NEW n, NEW d, IsFiniteSet(d),
         NEW request \in Requests, NEW usable, NEW next \in Written(d, request, n, usable)
  PROVE  IsFiniteSet(next)
<1>1. \/ request \in [op : {"insert", "replace"}, id : 0..1, key : {"old", "new"}] \/ request \in [op : {"remove"}, id : 0..1]
  BY DEF Requests
<1> DEFINE e == [id |-> request.id, key |-> request.key]
           others == {x \in d : x.id # request.id}
<1>2. IsFiniteSet(d \union {e}) /\ IsFiniteSet(others) /\ IsFiniteSet(others \union {e})
  <2>1. IsFiniteSet(others)
    BY FS_Subset
  <2> QED BY <2>1, FS_AddElement
<1>3. CASE request.op = "insert"
  BY <1>2, <1>3 DEF Written, InsertProvider
<1>4. CASE request.op = "replace"
  BY <1>2, <1>4 DEF Written, ReplaceProvider
<1>5. CASE request.op = "remove"
  BY <1>2, <1>5 DEF Written, Without
<1> QED BY <1>1, <1>3, <1>4, <1>5

LEMMA ChangeKeeps ==
  ASSUME RegistryInv, NEW c \in Callers, Change(c)
  PROVE  RegistryInv'
<1>1. PICK request \in Requests, usable \in Inspections :
      \E next \in Written(registryCalls[c].copy, request, issued, usable) :
        /\ Writable(next)
        /\ IF kind = "providers" THEN UNCHANGED issued ELSE issued' \in issued..MaxIds /\ NextUnused(next, issued')
        /\ registryCalls' = [registryCalls EXCEPT ![c] = [at |-> "writing", copy |-> next]]
  BY DEF Change
<1> DEFINE d == registryCalls[c].copy
<1>2. PICK next \in Written(d, request, issued, usable) :
        /\ Writable(next)
        /\ IF kind = "providers" THEN UNCHANGED issued ELSE issued' \in issued..MaxIds /\ NextUnused(next, issued')
        /\ registryCalls' = [registryCalls EXCEPT ![c] = [at |-> "writing", copy |-> next]]
  BY <1>1
<1>3. kind' = kind /\ document' = document /\ kind \in Kinds /\ issued \in Nat /\ Acceptable(d, issued)
  BY DEF Change, RegistryInv
<1>4. issued' \in Nat /\ issued' >= issued
  BY <1>2, <1>3, RootsAssumption
<1> HIDE DEF d
<1>5. Acceptable(next, issued')
  <2>1. CASE kind = "environments"
    <3>1. PICK m \in Nat : EnvironmentsOK(next, m)
      BY <1>2, <1>3, <2>1, EnvironmentsKeep DEF Acceptable
    <3>2. EnvironmentsOK(next, issued')
      BY <1>2, <2>1, <3>1 DEF EnvironmentsOK, NextUnused
    <3>3. Cardinality(next) <= MaxEntries
      BY <1>2, <2>1 DEF Writable, EnvironmentsWritable
    <3>4. OneEach(next, Ids(next)) /\ OneEach(next, Keys(next)) /\ IsFiniteSet(next)
      BY <3>1, OneIdEach, OneKeyEach DEF EnvironmentsOK
    <3> QED BY <2>1, <3>2, <3>3, <3>4 DEF Acceptable, Parses, EnvironmentsParse
  <2>2. CASE kind = "sources"
    <3>1. IsFiniteSet(d) /\ Cardinality(d) <= MaxEntries
      BY <1>3, <2>2 DEF Acceptable, Parses, SourcesParse
    <3>2. IsFiniteSet(next) /\ Cardinality(next) <= MaxEntries
      BY <1>2, <2>2, <3>1, SourcesKeep
    <3> QED BY <1>2, <2>2, <3>2 DEF Acceptable, Parses, SourcesParse, Writable, SourcesWritable
  <2>3. CASE kind = "providers"
    <3>1. IsFiniteSet(next)
      BY <1>2, <1>3, <2>3, ProvidersKeep DEF Acceptable
    <3> QED BY <1>2, <2>3, <3>1 DEF Acceptable, Parses, ProvidersParse, Writable, ProvidersWritable
  <2>4. CASE kind = "credential"
    <3>1. request.op = "rotate"
      BY <2>4 DEF Requests
    <3>2. \E e : next = {e}
      BY <1>2, <3>1 DEF Written, Rotate
    <3>3. IsFiniteSet(next) /\ Cardinality(next) <= 1
      BY <3>2, FS_Singleton
    <3> QED BY <2>4, <3>3 DEF Acceptable, Parses, CredentialParses
  <2> QED BY <1>3, <2>1, <2>2, <2>3, <2>4 DEF Kinds
<1>6. \A x : Acceptable(x, issued) => Acceptable(x, issued')
  BY <1>3, <1>4 DEF Acceptable, EnvironmentsOK
<1>7. /\ registryCalls' = [e \in Callers |-> registryCalls'[e]]
      /\ registryCalls'[c].copy = next /\ \A e \in Callers \ {c} : registryCalls'[e] = registryCalls[e]
  BY <1>2 DEF RegistryInv
<1>8. Acceptable(document, issued') /\ \A e \in Callers : Acceptable(registryCalls'[e].copy, issued')
  BY <1>5, <1>6, <1>7 DEF RegistryInv
<1>9. Acceptable(document, issued)'
  BY <1>3, <1>8 DEF Acceptable, Parses
<1>10. ASSUME NEW e \in Callers PROVE Acceptable(registryCalls[e].copy, issued)'
  BY <1>3, <1>8 DEF Acceptable, Parses
<1> QED BY <1>3, <1>4, <1>7, <1>9, <1>10 DEF RegistryInv

(* Whatever registry it is about, nothing a caller does is refused later:  *)
(* for any number of callers, each with a copy of its own.                 *)
THEOREM RegistriesStayAccepted == RegistriesSpec => []RegistryIsAccepted
<1>1. RegistriesInit => RegistryInv
  <2> SUFFICES ASSUME RegistriesInit PROVE RegistryInv
    OBVIOUS
  <2>1. Acceptable({}, 0)
    BY NothingIsAcceptable DEF RegistriesInit
  <2> QED BY <2>1 DEF RegistriesInit, RegistryInv, NoRegistryCall
<1>2. RegistryInv /\ [RegistriesNext]_registryVars => RegistryInv'
  <2> SUFFICES ASSUME RegistryInv, [RegistriesNext]_registryVars PROVE RegistryInv'
    OBVIOUS
  <2>1. CASE \E c \in Callers : Change(c)
    BY <2>1, ChangeKeeps
  <2>2. ASSUME UNCHANGED <<kind, issued>>, document' = document \/ \E c \in Callers : document' = registryCalls[c].copy,
               registryCalls' = [c \in Callers |-> registryCalls'[c]],
               \A c \in Callers : registryCalls'[c].copy \in {{}, document, registryCalls[c].copy}
        PROVE  RegistryInv'
    <3>1. Acceptable({}, issued)
      BY NothingIsAcceptable DEF RegistryInv
    <3>2. Acceptable(document', issued') /\ \A c \in Callers : Acceptable(registryCalls'[c].copy, issued')
      BY <2>2, <3>1 DEF RegistryInv
    <3>3. Acceptable(document, issued)'
      BY <2>2, <3>2 DEF Acceptable, Parses
    <3>4. ASSUME NEW c \in Callers PROVE Acceptable(registryCalls[c].copy, issued)'
      BY <2>2, <3>2 DEF Acceptable, Parses
    <3> QED BY <2>2, <3>3, <3>4 DEF RegistryInv
  <2>3. CASE \E c \in Callers : Read(c) \/ Replace(c) \/ GiveUp(c)
    BY <2>2, <2>3 DEF Read, Replace, GiveUp, RegistryReturns, NoRegistryCall, RegistryInv
  <2>4. CASE UNCHANGED registryVars
    BY <2>2, <2>4 DEF registryVars, RegistryInv
  <2> QED BY <2>1, <2>3, <2>4 DEF RegistriesNext
<1>3. RegistryInv => RegistryIsAccepted
  BY DEF RegistryInv, Acceptable, RegistryIsAccepted
<1> QED
  BY <1>1, <1>2, <1>3, PTL DEF RegistriesSpec

-----------------------------------------------------------------------------
(* What a session resumes from                                             *)

(* Induction over the numbers without a predicate: a set that has 0, and   *)
(* n + 1 whenever it has n, has them all.                                  *)
LEMMA NumberInduction ==
  ASSUME NEW G, 0 \in G, \A n \in Nat : n \in G => n + 1 \in G
  PROVE  Nat \subseteq G
<1> SUFFICES ASSUME NEW m \in Nat, m \notin G PROVE FALSE
  OBVIOUS
<1> DEFINE less == {ij \in Nat \X Nat : ij[1] < ij[2]}
           rest == {n \in Nat : n \notin G}
<1>1. IsWellFoundedOn(less, Nat)
  BY NatLessThanWellFounded DEF OpToRel
<1>2. PICK n \in rest : \A k \in rest : <<k, n>> \notin less
  <2>1. rest \subseteq Nat /\ rest # {}
    OBVIOUS
  <2> HIDE DEF less, rest
  <2> QED
    BY <1>1, <2>1, WFMin
<1>3. n # 0
  OBVIOUS
<1>4. n - 1 \in Nat /\ (n - 1) + 1 = n /\ <<n - 1, n>> \in less
  BY <1>3
<1>5. n - 1 \in G
  BY <1>2, <1>4
<1> QED
  BY <1>4, <1>5

(* Commits are made on top of older ones.                                  *)
TreeOK ==
  /\ parent \in Seq(Nat) /\ Len(parent) >= 1 /\ parent[1] = 1
  /\ \A n \in 2..Len(parent) : parent[n] \in 1..(n - 1)
  /\ head \in 1..Len(parent)

AncestorsUpTo(k, f) ==
  f = [n \in 1..k |-> IF n = 1 THEN {1} ELSE {n} \union f[parent[n]]]

(* The ancestors of a commit are well defined, and it is one of them.      *)
LEMMA OwnAncestor ==
  ASSUME TreeOK
  PROVE  \A n \in 1..Len(parent) : n \in Ancestors[n]
<1> DEFINE G == {k \in Nat : k <= Len(parent) => \E f : AncestorsUpTo(k, f)}
<1>0. Len(parent) \in Nat /\ DOMAIN parent = 1..Len(parent)
  BY DEF TreeOK
<1>1. 0 \in G
  <2>1. AncestorsUpTo(0, [n \in 1..0 |-> {}])
    BY DEF AncestorsUpTo
  <2> QED
    BY <2>1
<1>2. ASSUME NEW k \in Nat, k \in G PROVE k + 1 \in G
  <2> SUFFICES ASSUME k + 1 <= Len(parent) PROVE \E f : AncestorsUpTo(k + 1, f)
    OBVIOUS
  <2>1. PICK g : AncestorsUpTo(k, g)
    BY <1>0, <1>2
  <2> DEFINE f == [n \in 1..(k + 1) |-> IF n = 1 THEN {1} ELSE {n} \union g[parent[n]]]
  <2>2. \A n \in 1..(k + 1) : n # 1 => parent[n] \in 1..k
    BY <1>0 DEF TreeOK
  <2>3. \A n \in 1..k : g[n] = (IF n = 1 THEN {1} ELSE {n} \union g[parent[n]])
    <3> HIDE DEF f
    <3> QED
      BY <2>1 DEF AncestorsUpTo
  <2>4. f = [n \in 1..(k + 1) |-> IF n = 1 THEN {1} ELSE {n} \union f[parent[n]]]
    <3>1. ASSUME NEW n \in 1..k PROVE f[n] = g[n]
      <4>1. n \in 1..(k + 1)
        OBVIOUS
      <4>2. f[n] = (IF n = 1 THEN {1} ELSE {n} \union g[parent[n]])
        BY <4>1
      <4> QED
        BY <2>3, <4>2
    <3>2. \A n \in 1..(k + 1) : n # 1 => f[parent[n]] = g[parent[n]]
      BY <2>2, <3>1
    <3> QED
      BY <3>2
  <2>5. AncestorsUpTo(k + 1, f)
    <3> HIDE DEF f
    <3> QED
      BY <2>4 DEF AncestorsUpTo
  <2> QED
    BY <2>5
<1>3. Len(parent) \in G
  <2> HIDE DEF G
  <2> QED
    BY <1>0, <1>1, <1>2, NumberInduction
<1>4. PICK f : AncestorsUpTo(Len(parent), f)
  BY <1>0, <1>3
<1>5. Ancestors = CHOOSE f_1 : AncestorsUpTo(Len(parent), f_1)
  BY <1>0 DEF Ancestors, AncestorsUpTo
<1>6. AncestorsUpTo(Len(parent), Ancestors)
  BY <1>4, <1>5
<1> QED
  BY <1>6 DEF AncestorsUpTo

AncestryAnswers == {"yes", "no", "failed"}

(* What the call has read is what there is, as long as nothing moves, and  *)
(* what Git told it is true.                                               *)
Ascends == resume.read.captured.headOid \in Ancestors[resume.current.headOid]

ResumeCallOK ==
  /\ DOMAIN resume = DOMAIN NotRunning
  /\ resume.at \in {"idle", "built", "forward", "reverse", "related", "answered"}
  /\ quiet /\ resume.at # "idle" => resume.current \in {CurrentState, NoState}
  /\ quiet /\ resume.at \notin {"idle", "built"} => resume.read = checkpoint
  /\ resume.at \in {"built", "forward"} => resume.forward = "unasked"
  /\ resume.at \in {"built", "forward", "reverse"} => resume.reverse = "unasked"
  /\ resume.at \in {"forward", "reverse"} => AsksGit(resume.read.captured, resume.current)
  /\ resume.at = "reverse" => resume.forward = "no"
  /\ resume.at = "related" =>
       IF AsksGit(resume.read.captured, resume.current)
         THEN resume.forward \in AncestryAnswers ELSE resume.forward = "unasked"
  /\ resume.at \in {"reverse", "related"} /\ quiet =>
       (resume.forward = "yes" => Ascends) /\ (resume.forward = "no" => ~Ascends)

ResumeInv == TreeOK /\ ResumeCallOK /\ QuietResumeTellsTheTruth

(* What has been said of the references so far is what compares the states *)
(* of their subjects with the one that was observed.                       *)
BoundStates == [headOid : Nat, changesFingerprint : Nat]
Observations == [availability : {"informational", "invalid", "missing", "unavailable", "observed"},
                 relation : {"none", "unverifiable", "fresh", "stale"}]

Compared(ref, said, bound, current) ==
  said.relation \in {"fresh", "stale"} =>
    /\ ref.kind \in {"preview", "ci"} /\ current # NoState
    /\ said.relation = "fresh" <=>
         IF ref.kind = "ci" THEN bound.headOid = current.headOid ELSE bound = current

ObservedOK ==
  /\ checkpoint.refs \in Seq(Reference) /\ resume.read.refs \in Seq(Reference)
  /\ resume.evidence \in Seq(Observations) /\ resume.bounds \in Seq(BoundStates)
  /\ Len(resume.bounds) = Len(resume.evidence) /\ Len(resume.evidence) <= Len(resume.read.refs)
  /\ resume.at \in {"idle", "built", "forward", "reverse"} => Len(resume.evidence) = 0
  /\ \A i \in 1..Len(resume.evidence) :
       Compared(resume.read.refs[i], resume.evidence[i], resume.bounds[i], resume.current)

LEMMA AncestorsStay == parent' = parent => Ancestors' = Ancestors
  BY DEF Ancestors

LEMMA ResumeStarts == ResumeInit => ResumeInv
<1> SUFFICES ASSUME ResumeInit PROVE ResumeInv
  OBVIOUS
<1>1. TreeOK
  BY DEF ResumeInit, TreeOK
<1>2. resume.at = "idle" /\ DOMAIN resume = DOMAIN NotRunning
  BY DEF ResumeInit, NotRunning
<1> QED
  BY <1>1, <1>2 DEF ResumeInv, ResumeCallOK, QuietResumeTellsTheTruth, ResumeAnswered

(* Whatever moves ends the quiet, and keeps the tree a tree.               *)
LEMMA ResumeMoveStep ==
  ASSUME ResumeInv,
         CommitOnTop \/ (\E n \in DOMAIN parent : Leave(n)) \/ Edit \/ Store \/ Clear
  PROVE  ResumeInv'
<1>1. ~quiet' /\ resume' = resume
  BY DEF CommitOnTop, Leave, Edit, Store, Clear, Moved
<1>2. ResumeCallOK'
  BY <1>1 DEF ResumeInv, ResumeCallOK, AsksGit, AncestryAnswers
<1>3. TreeOK'
  <2> USE DEF ResumeInv, TreeOK
  <2>1. CASE CommitOnTop
    <3>1. /\ Len(parent) \in Nat /\ head \in Nat /\ parent' = Append(parent, head) /\ head' = Len(parent) + 1
      BY <2>1 DEF CommitOnTop
    <3>2. /\ parent' \in Seq(Nat) /\ Len(parent') = Len(parent) + 1
          /\ parent'[Len(parent) + 1] = head
          /\ \A n \in 1..Len(parent) : parent'[n] = parent[n]
      BY <3>1, AppendProperties
    <3>3. ASSUME NEW n \in 2..Len(parent') PROVE parent'[n] \in 1..(n - 1)
      <4>1. CASE n = Len(parent) + 1
        BY <3>1, <3>2, <4>1
      <4>2. CASE n # Len(parent) + 1
        <5>1. n \in 2..Len(parent) /\ n \in 1..Len(parent)
          BY <3>1, <3>2, <4>2
        <5> QED
          BY <3>2, <5>1
      <4> QED
        BY <4>1, <4>2
    <3> QED
      BY <3>1, <3>2, <3>3
  <2>2. CASE \E n \in DOMAIN parent : Leave(n)
    BY <2>2 DEF Leave
  <2>3. CASE Edit \/ Store \/ Clear
    BY <2>3 DEF Edit, Store, Clear
  <2> QED
    BY <2>1, <2>2, <2>3
<1> QED
  BY <1>1, <1>2, <1>3 DEF ResumeInv, QuietResumeTellsTheTruth

(* The call looks at what there is, one thing after the other.             *)
LEMMA ResumeCallStep ==
  ASSUME ResumeInv, Capture \/ BuildContext \/ ReadCheckpoint \/ AskForward \/ AskReverse \/ LookUp
  PROVE  ResumeInv'
<1>0. UNCHANGED <<parent, head, changes, checkpoint>>
  BY DEF Capture, BuildContext, ReadCheckpoint, AskForward, AskReverse, LookUp
<1>1. TreeOK' /\ Ancestors' = Ancestors
  BY <1>0, AncestorsStay DEF ResumeInv, TreeOK
<1> USE DEF ResumeInv
<1>2. CASE Capture
  <2>1. UNCHANGED <<resume, quiet>>
    BY <1>2 DEF Capture
  <2>2. ResumeCallOK'
    BY <1>0, <1>1, <2>1 DEF ResumeCallOK, AsksGit, AncestryAnswers, CurrentState, NoState, Ascends
  <2>3. QuietResumeTellsTheTruth'
    BY <1>0, <1>1, <2>1 DEF QuietResumeTellsTheTruth, ResumeAnswered, EvidenceIsTrue, CurrentState, IsAncestor
  <2> QED
    BY <1>1, <2>2, <2>3
<1>3. CASE BuildContext
  <2>1. PICK current \in {CurrentState, NoState} : resume' = [NotRunning EXCEPT !.at = "built", !.current = current]
    BY <1>3 DEF BuildContext
  <2>2. /\ resume'.at = "built" /\ resume'.current = current /\ resume'.forward = "unasked" /\ resume'.reverse = "unasked"
        /\ DOMAIN resume' = DOMAIN NotRunning
    BY <2>1 DEF NotRunning
  <2>3. ResumeCallOK'
    BY <1>0, <2>2 DEF ResumeCallOK, CurrentState, NoState
  <2> QED
    BY <1>1, <2>2, <2>3 DEF QuietResumeTellsTheTruth, ResumeAnswered
<1>4. CASE ReadCheckpoint
  <2>1. /\ resume.at = "built" /\ resume'.read = checkpoint /\ resume'.current = resume.current
        /\ resume'.forward = resume.forward /\ resume'.reverse = resume.reverse
        /\ DOMAIN resume' = DOMAIN resume /\ quiet' = quiet
        /\ resume'.at = (CASE ~checkpoint.present                           -> "answered"
                           [] AsksGit(checkpoint.captured, resume.current) -> "forward"
                           [] OTHER                                         -> "related")
    BY <1>4 DEF ReadCheckpoint, ResumeCallOK, NotRunning
  <2>2. ResumeCallOK'
    BY <1>0, <2>1 DEF ResumeCallOK, CurrentState, NoState, AsksGit
  <2>3. ~ ResumeAnswered'
    BY <2>1 DEF ResumeAnswered
  <2> QED
    BY <1>1, <2>2, <2>3 DEF QuietResumeTellsTheTruth
<1>5. CASE AskForward
  <2> DEFINE goesOn == IF resume'.forward = "no" THEN "reverse" ELSE "related"
  <2>1. PICK answer \in Forward(resume.read.captured, resume.current) :
          resume' = [resume EXCEPT !.forward = answer, !.at = IF answer = "no" THEN "reverse" ELSE "related"]
    BY <1>5 DEF AskForward
  <2>2. /\ resume.at = "forward" /\ resume'.read = resume.read /\ resume'.current = resume.current
        /\ resume'.forward = answer /\ resume'.reverse = resume.reverse /\ resume'.at = goesOn
        /\ DOMAIN resume' = DOMAIN resume /\ quiet' = quiet
    BY <1>5, <2>1 DEF AskForward, ResumeCallOK, NotRunning
  <2>3. answer \in AncestryAnswers /\ (answer = "yes" => Ascends) /\ (answer = "no" => ~Ascends)
    BY DEF Forward, AncestryAnswer, AncestryAnswers, IsAncestor, Ascends
  <2>4. ResumeCallOK'
    BY <1>0, <1>1, <2>2, <2>3 DEF ResumeCallOK, CurrentState, NoState, AsksGit, Ascends
  <2>5. ~ ResumeAnswered'
    BY <2>2 DEF ResumeAnswered
  <2> QED
    BY <1>1, <2>4, <2>5 DEF QuietResumeTellsTheTruth
<1>6. CASE AskReverse
  <2>1. PICK answer : resume' = [resume EXCEPT !.reverse = answer, !.at = "related"]
    BY <1>6 DEF AskReverse
  <2>2. /\ resume.at = "reverse" /\ resume'.read = resume.read /\ resume'.current = resume.current
        /\ resume'.forward = resume.forward /\ resume'.at = "related"
        /\ DOMAIN resume' = DOMAIN resume /\ quiet' = quiet
    BY <1>6, <2>1 DEF AskReverse, ResumeCallOK, NotRunning
  <2>3. ResumeCallOK'
    BY <1>0, <1>1, <2>2 DEF ResumeCallOK, CurrentState, NoState, AsksGit, Ascends, AncestryAnswers
  <2>4. ~ ResumeAnswered'
    BY <2>2 DEF ResumeAnswered
  <2> QED
    BY <1>1, <2>3, <2>4 DEF QuietResumeTellsTheTruth
<1>7. CASE LookUp
  <2>1. PICK evidence, bounds : resume' = [resume EXCEPT !.evidence = evidence, !.bounds = bounds]
    BY <1>7 DEF LookUp
  <2>2. /\ resume.at = "related" /\ resume'.at = "related" /\ DOMAIN resume' = DOMAIN resume /\ quiet' = quiet
        /\ resume'.read = resume.read /\ resume'.current = resume.current
        /\ resume'.forward = resume.forward /\ resume'.reverse = resume.reverse
    BY <1>7, <2>1 DEF LookUp, ResumeCallOK, NotRunning
  <2>3. ResumeCallOK'
    BY <1>0, <1>1, <2>2 DEF ResumeCallOK, CurrentState, NoState, AsksGit, Ascends, AncestryAnswers
  <2>4. ~ ResumeAnswered'
    BY <2>2 DEF ResumeAnswered
  <2> QED
    BY <1>1, <2>3, <2>4 DEF QuietResumeTellsTheTruth
<1> QED
  BY <1>2, <1>3, <1>4, <1>5, <1>6, <1>7

(* What is said of a reference is what comparing the two states tells.     *)
LEMMA EvidenceCompares ==
  ASSUME NEW ref \in Reference, NEW current, NEW lookup \in Lookups, NEW bound \in BoundStates
  PROVE  /\ Evidence(ref, current, lookup, bound) \in Observations
         /\ Compared(ref, Evidence(ref, current, lookup, bound), bound, current)
<1> DEFINE said == Evidence(ref, current, lookup, bound)
<1>1. ref.kind \in EvidenceKinds /\ ref.valid \in BOOLEAN
  BY DEF Reference
<1>2. CASE ref.kind \in {"note", "git"} \/ ~ref.valid \/ lookup # "found"
  <2>1. said.relation = "none" /\ said \in Observations
    BY <1>2 DEF Evidence, Lookups, Observations
  <2> QED
    BY <2>1 DEF Compared
<1>3. CASE ~(ref.kind \in {"note", "git"} \/ ~ref.valid \/ lookup # "found")
  <2> DEFINE compared == Compare(ref, current, bound)
  <2>1. said = [availability |-> "observed", relation |-> compared]
    BY <1>3 DEF Evidence
  <2>2. compared \in {"none", "unverifiable", "fresh", "stale"}
    BY DEF Compare
  <2>3. compared \in {"fresh", "stale"} =>
          /\ ref.kind \in {"preview", "ci"} /\ current # NoState
          /\ compared = "fresh" <=>
               IF ref.kind = "ci" THEN bound.headOid = current.headOid ELSE bound = current
    BY <1>1, <1>3 DEF EvidenceKinds, Compare
  <2> HIDE DEF compared
  <2> QED
    BY <2>1, <2>2, <2>3 DEF Compared, Observations
<1> QED
  BY <1>2, <1>3

LEMMA ObservedStarts == ResumeInit => ObservedOK
<1> SUFFICES ASSUME ResumeInit PROVE ObservedOK
  OBVIOUS
<1>1. /\ resume.evidence = <<>> /\ resume.bounds = <<>> /\ resume.read.refs = <<>>
  BY DEF ResumeInit, NotRunning, NoCheckpoint
<1>2. checkpoint.refs \in Seq(Reference)
  <2>1. CASE checkpoint = NoCheckpoint
    BY <2>1 DEF NoCheckpoint
  <2>2. CASE \E refs \in Refs : checkpoint = [present |-> TRUE, captured |-> NoState, refs |-> refs]
    <3>1. PICK refs \in Refs : checkpoint = [present |-> TRUE, captured |-> NoState, refs |-> refs]
      BY <2>2
    <3> QED
      BY <3>1, RefsAssumption
  <2> QED
    BY <2>1, <2>2 DEF ResumeInit
<1> QED
  BY <1>1, <1>2 DEF ObservedOK

(* Each lookup adds one observation, which compares with what the call saw *)
(* first; nothing else adds or changes any.                                *)
LEMMA ObservedStep ==
  ASSUME ResumeInv, ObservedOK, [ResumeNext]_resumeVars
  PROVE  ObservedOK'
<1>1. CASE UNCHANGED resumeVars \/ Capture \/ CommitOnTop \/ (\E n \in DOMAIN parent : Leave(n)) \/ Edit \/ Store \/ Clear
  <2>1. resume' = resume
    BY <1>1 DEF resumeVars, Capture, CommitOnTop, Leave, Edit, Store, Clear
  <2>2. checkpoint'.refs \in Seq(Reference)
    <3>1. CASE checkpoint' = checkpoint
      BY <3>1 DEF ObservedOK
    <3>2. CASE Clear
      BY <3>2 DEF Clear, NoCheckpoint
    <3>3. CASE Store
      <4>1. PICK refs \in Refs : checkpoint' = [present |-> TRUE, captured |-> saving, refs |-> refs]
        BY <3>3 DEF Store
      <4> QED
        BY <4>1, RefsAssumption
    <3> QED
      BY <1>1, <3>1, <3>2, <3>3 DEF resumeVars, Capture, CommitOnTop, Leave, Edit
  <2> QED
    BY <2>1, <2>2 DEF ObservedOK, Compared
<1>2. CASE BuildContext
  <2>1. /\ resume'.evidence = <<>> /\ resume'.bounds = <<>> /\ resume'.read.refs = <<>>
        /\ checkpoint' = checkpoint
    BY <1>2 DEF BuildContext, NotRunning, NoCheckpoint
  <2> QED
    BY <2>1 DEF ObservedOK
<1>3. CASE ReadCheckpoint
  <2>1. /\ resume.at = "built" /\ resume'.read = checkpoint /\ resume'.evidence = resume.evidence
        /\ resume'.bounds = resume.bounds /\ checkpoint' = checkpoint
    BY <1>3 DEF ReadCheckpoint, ResumeInv, ResumeCallOK, NotRunning
  <2>2. Len(resume.evidence) = 0 /\ Len(checkpoint.refs) \in Nat
    BY <2>1 DEF ObservedOK
  <2> QED
    BY <2>1, <2>2 DEF ObservedOK
<1>4. CASE AskForward \/ AskReverse \/ Synthesize
  <2>1. /\ resume'.read = resume.read /\ resume'.evidence = resume.evidence /\ resume'.bounds = resume.bounds
        /\ resume'.current = resume.current /\ checkpoint' = checkpoint
        /\ resume'.at \in {"forward", "reverse"} => resume.at \in {"forward", "reverse"}
        /\ resume'.at \notin {"idle", "built"}
    BY <1>4 DEF AskForward, AskReverse, Synthesize, ResumeInv, ResumeCallOK, NotRunning
  <2> QED
    BY <2>1 DEF ObservedOK, Compared
<1>5. CASE LookUp
  <2> DEFINE n == Len(resume.evidence)
             ref == resume.read.refs[n + 1]
  <2>1. PICK lookup \in Lookups :
          \E bound \in IF lookup = "found" /\ ref.kind \in {"preview", "ci"} THEN SourceStates ELSE {NoState} :
            resume' = [resume EXCEPT !.evidence = Append(@, Evidence(ref, resume.current, lookup, bound)),
                                     !.bounds = Append(@, bound)]
    BY <1>5 DEF LookUp
  <2>2. PICK bound \in IF lookup = "found" /\ ref.kind \in {"preview", "ci"} THEN SourceStates ELSE {NoState} :
          resume' = [resume EXCEPT !.evidence = Append(@, Evidence(ref, resume.current, lookup, bound)),
                                   !.bounds = Append(@, bound)]
    BY <2>1
  <2> DEFINE said == Evidence(ref, resume.current, lookup, bound)
  <2>3. bound \in BoundStates
    <3>1. SourceStates \subseteq BoundStates
      BY DEF SourceStates, BoundStates, ResumeInv, TreeOK
    <3>2. NoState \in BoundStates
      BY DEF NoState, BoundStates
    <3> QED
      BY <3>1, <3>2
  <2>4. /\ n \in Nat /\ n < Len(resume.read.refs) /\ Len(resume.read.refs) \in Nat
        /\ resume.at = "related" /\ checkpoint' = checkpoint
    BY <1>5 DEF LookUp, ObservedOK
  <2>5. ref \in Reference
    BY <2>4 DEF ObservedOK
  <2>6. said \in Observations /\ Compared(ref, said, bound, resume.current)
    BY <2>3, <2>5, EvidenceCompares
  <2>7. /\ resume'.evidence = Append(resume.evidence, said) /\ resume'.bounds = Append(resume.bounds, bound)
        /\ resume'.read = resume.read /\ resume'.current = resume.current /\ resume'.at = "related"
    <3> HIDE DEF said
    <3> QED
      BY <2>2, <2>4 DEF said, ResumeInv, ResumeCallOK, NotRunning
  <2> HIDE DEF said, ref
  <2>8. /\ resume'.evidence \in Seq(Observations) /\ Len(resume'.evidence) = n + 1
        /\ resume'.evidence[n + 1] = said
        /\ \A i \in 1..n : resume'.evidence[i] = resume.evidence[i]
    BY <2>6, <2>7, AppendProperties DEF ObservedOK
  <2>9. /\ resume'.bounds \in Seq(BoundStates) /\ Len(resume'.bounds) = n + 1
        /\ resume'.bounds[n + 1] = bound
        /\ \A i \in 1..n : resume'.bounds[i] = resume.bounds[i]
    BY <2>3, <2>7, AppendProperties DEF ObservedOK
  <2>10. ASSUME NEW i \in 1..(n + 1)
         PROVE  Compared(resume.read.refs[i], resume'.evidence[i], resume'.bounds[i], resume.current)
    <3>1. CASE i = n + 1
      BY <2>6, <2>8, <2>9, <3>1 DEF ref
    <3>2. CASE i # n + 1
      <4>1. i \in 1..n
        BY <2>4, <3>2
      <4> QED
        BY <2>8, <2>9, <4>1 DEF ObservedOK
    <3> QED
      BY <3>1, <3>2
  <2> QED
    BY <2>4, <2>7, <2>8, <2>9, <2>10 DEF ObservedOK, Compared
<1> QED
  BY <1>1, <1>2, <1>3, <1>4, <1>5 DEF ResumeNext

(* What is answered when nothing has moved.                                *)
LEMMA ResumeAnswerStep == ASSUME ResumeInv, ObservedOK, Synthesize PROVE ResumeInv'
<1>0. UNCHANGED <<parent, head, changes, checkpoint, quiet>>
  BY DEF Synthesize
<1>1. TreeOK' /\ Ancestors' = Ancestors
  BY <1>0, AncestorsStay DEF ResumeInv, TreeOK
<1> DEFINE captured == resume.read.captured
           current == resume.current
<1>2. /\ resume.at = "related" /\ resume'.at = "answered" /\ DOMAIN resume' = DOMAIN resume
      /\ resume'.read = resume.read /\ resume'.current = current /\ resume'.evidence = resume.evidence
      /\ resume'.bounds = resume.bounds
      /\ resume'.relation = Relation(captured, current, resume.forward, resume.reverse)
      /\ Len(resume.evidence) = Len(resume.read.refs)
  BY DEF Synthesize, ResumeInv, ResumeCallOK, NotRunning
<1>3. ResumeCallOK'
  BY <1>0, <1>2 DEF ResumeInv, ResumeCallOK, CurrentState, NoState
<1>4. ASSUME quiet, ResumeAnswered' PROVE QuietResumeTellsTheTruth'
  <2>1. /\ current \in {CurrentState, NoState} /\ resume.read = checkpoint
        /\ IF AsksGit(captured, current) THEN resume.forward \in AncestryAnswers ELSE resume.forward = "unasked"
        /\ (resume.forward = "yes" => Ascends) /\ (resume.forward = "no" => ~Ascends)
    BY <1>2, <1>4 DEF ResumeInv, ResumeCallOK
  <2>2. head \in Ancestors[head] /\ head >= 1
    BY OwnAncestor DEF ResumeInv, TreeOK
  <2>3. resume'.relation = "fresh" => captured = CurrentState
    BY <1>2, <2>1 DEF Relation
  <2>4. resume'.relation = "stale" => captured # CurrentState /\ IsAncestor(captured.headOid, head)
    <3> SUFFICES ASSUME resume'.relation = "stale"
                 PROVE  captured # CurrentState /\ IsAncestor(captured.headOid, head)
      OBVIOUS
    <3>1. current = CurrentState /\ captured # NoState /\ captured # current /\ current # NoState
      BY <1>2, <2>1 DEF Relation
    <3>2. current.headOid = head
      BY <3>1 DEF CurrentState
    <3>3. CASE captured.headOid = head
      BY <2>2, <3>1, <3>3 DEF IsAncestor
    <3>4. CASE captured.headOid # head
      <4>1. resume.forward = "yes"
        BY <1>2, <3>1, <3>2, <3>4 DEF Relation
      <4> QED
        BY <2>1, <3>1, <3>2, <4>1 DEF Ascends, IsAncestor
    <3> QED
      BY <3>3, <3>4
  <2>5. resume'.relation = "superseded" => ~IsAncestor(captured.headOid, head)
    BY <1>2, <2>1 DEF Relation, CurrentState, IsAncestor, Ascends, AsksGit, AncestryAnswers
  <2>6. ASSUME NEW i \in 1..Len(resume.evidence)
        PROVE  EvidenceIsTrue(checkpoint.refs[i], resume.evidence[i], resume.bounds[i])
    <3>1. Compared(checkpoint.refs[i], resume.evidence[i], resume.bounds[i], current)
      BY <2>1 DEF ObservedOK
    <3>2. current # NoState => current = CurrentState /\ current.headOid = head
      BY <2>1 DEF CurrentState
    <3> QED
      BY <3>1, <3>2 DEF Compared, EvidenceIsTrue
  <2>7. \A i \in 1..Len(resume'.evidence) : EvidenceIsTrue(checkpoint.refs[i], resume.evidence[i], resume.bounds[i])'
    BY <1>0, <1>2, <2>6 DEF EvidenceIsTrue, CurrentState
  <2> QED
    BY <1>0, <1>1, <1>2, <2>1, <2>3, <2>4, <2>5, <2>7 DEF QuietResumeTellsTheTruth, CurrentState, IsAncestor
<1> QED
  BY <1>0, <1>1, <1>3, <1>4 DEF ResumeInv, QuietResumeTellsTheTruth

(* A resume that nothing disturbs tells the truth about the checkpoint and *)
(* the repository, whatever the history of commits, and about each of the  *)
(* checkpoint's references (resume-context.ts, reconcileCheckpointSource-  *)
(* State, reconcileEvidenceReference).                                     *)
THEOREM QuietResumeIsTrue == ResumeSpec => []QuietResumeTellsTheTruth
<1>1. ResumeInit => ResumeInv /\ ObservedOK
  BY ResumeStarts, ObservedStarts
<1>2. ResumeInv /\ ObservedOK /\ [ResumeNext]_resumeVars => (ResumeInv /\ ObservedOK)'
  <2> SUFFICES ASSUME ResumeInv, ObservedOK, [ResumeNext]_resumeVars PROVE ResumeInv'
    BY ObservedStep
  <2>1. CASE UNCHANGED resumeVars
    <3>1. Ancestors' = Ancestors
      BY <2>1, AncestorsStay DEF resumeVars
    <3> QED
      BY <2>1, <3>1
      DEF resumeVars, ResumeInv, TreeOK, ResumeCallOK, QuietResumeTellsTheTruth, ResumeAnswered, CurrentState,
          EvidenceIsTrue, IsAncestor, Ascends
  <2> QED
    BY <2>1, ResumeMoveStep, ResumeCallStep, ResumeAnswerStep DEF ResumeNext
<1>3. ResumeInv => QuietResumeTellsTheTruth
  BY DEF ResumeInv
<1> QED
  BY <1>1, <1>2, <1>3, PTL DEF ResumeSpec
=============================================================================
