--------------------------- MODULE ProviderGateway ---------------------------
(***************************************************************************)
(* The provider gateway: a semantic call (ProviderGatewayService.execute)  *)
(* in the server, and the operator's commands (ProviderOperatorService) in *)
(* processes of their own, around one provider instance of the registry.   *)
(* The identity of the provider's implementation (its credential helper    *)
(* above all) and its remote inventory change under both.                  *)
(*                                                                         *)
(* Every await is a step.  A command may end at any of them: then nothing  *)
(* is rolled back.                                                         *)
(***************************************************************************)
EXTENDS Naturals, Sequences

CONSTANTS
  Operators,   \* processes that run provider commands
  MaxReleases  \* bound: changes of the implementation and of the inventory

VARIABLES
  dynamic,   \* inventoryMode of the compiled manifest
  record,    \* the provider instance in the registry
  world,     \* the identity and the inventory there are
  releases,  \* changes of the two so far
  exec,      \* the semantic call
  execSince, \* history: the records, identities and inventories since it began
  operator   \* what each operator's command is at

gatewayVars == <<dynamic, record, world, releases, exec, execSince, operator>>

NoRecord == [enabled |-> FALSE, identity |-> 0, inventory |-> 0]    \* not admitted

-----------------------------------------------------------------------------
(* A semantic call                                                         *)

(* The compiled manifests never repeat a request.  validateMapping lets a  *)
(* mapping that only reads do so, once.                                    *)
CompiledReads == {[effect |-> "REMOTE_READ", retry |-> FALSE]}
CompiledWrites == {[effect |-> "REMOTE_MUTATION", retry |-> FALSE]}
Mappings == CompiledReads \union CompiledWrites \union {[effect |-> "REMOTE_READ", retry |-> TRUE]}

Retryable == {"PROVIDER_UNAVAILABLE", "PROVIDER_TIMEOUT"}
Ambiguous == Retryable \union {"PROVIDER_CANCELLED"}

(* How an attempt may fail: before there is a connection; by the status of *)
(* a provider that has refused; and on the way, when a provider that did   *)
(* what it was asked to is not heard, answers 5xx, or answers at too great *)
(* a length.                                                               *)
RefusedUnsent == {"PROVIDER_INPUT_INVALID", "PROVIDER_NETWORK_DENIED", "PROVIDER_CREDENTIAL_REJECTED"}
StatusFailures == {"PROVIDER_RATE_LIMITED", "PROVIDER_CREDENTIAL_REJECTED", "PROVIDER_TIMEOUT", "PROVIDER_UNAVAILABLE",
                   "PROVIDER_REQUEST_FAILED"}
FailuresAfterEffect == Ambiguous \union {"PROVIDER_RESPONSE_INVALID"}
Failures == RefusedUnsent \union StatusFailures \union FailuresAfterEffect

(* A body that does not decode, that the mapper refuses (another number or *)
(* repository, a merge that is none), or that cannot be fitted.            *)
OutputFailures == {"PROVIDER_RESPONSE_INVALID", "PROVIDER_OUTPUT_LIMIT_EXCEEDED"}

NoExec == [at |-> "idle", effect |-> "REMOTE_READ", retry |-> FALSE, provider |-> NoRecord, requests |-> 0,
           response |-> FALSE, performed |-> FALSE, log |-> <<>>, answer |-> "none"]
Nothing == [records |-> {}, identities |-> {}, inventories |-> {}]

NoCommand == [at |-> "idle", op |-> "none", current |-> NoRecord, updated |-> NoRecord, alone |-> TRUE,
              answer |-> "none"]

GatewayInit ==
  /\ dynamic \in BOOLEAN
  /\ record = NoRecord
  /\ world = [identity |-> 1, inventory |-> 1]
  /\ releases = 0
  /\ exec = NoExec
  /\ execSince = Nothing
  /\ operator = [o \in Operators |-> NoCommand]

(* A new release of the helper or of the adapter; another inventory.       *)
Move ==
  /\ releases < MaxReleases /\ releases' = releases + 1
  /\ \E what \in {"identity", "inventory"} : world' = [world EXCEPT ![what] = 3 - @]
  /\ execSince' = IF exec.at = "idle" THEN execSince
                  ELSE [execSince EXCEPT !.identities = @ \union {world'.identity},
                                         !.inventories = @ \union {world'.inventory}]
  /\ UNCHANGED <<dynamic, record, exec, operator>>

ExecTo(place) == exec' = [exec EXCEPT !.at = place]
ExecStep == UNCHANGED <<dynamic, record, world, releases, execSince, operator>>

ExecAnswers(log, answer) == exec' = [exec EXCEPT !.at = "answered", !.log = log, !.answer = answer]

(* `catch`: a mutation that may have happened has an unknown outcome, even *)
(* when that cannot be recorded; any other failure must be recorded.       *)
OutcomeUnknown(e, code) ==
  /\ e.effect = "REMOTE_MUTATION" /\ e.log # <<>>
  /\ e.response \/ (e.at = "sending" /\ code \in Ambiguous)
OutcomeKnownOnceAnswered(e, code) ==    \* mutant: only what happens to the request counts
  e.effect = "REMOTE_MUTATION" /\ e.at = "sending" /\ code \in Ambiguous
Unknown(e, code) == OutcomeUnknown(e, code)

FailedWith(e, code) ==
  \E recorded \in BOOLEAN :
    exec' = [e EXCEPT !.at = "answered",
                      !.log = IF e.log # <<>> /\ recorded THEN Append(@, "failed") ELSE @,
                      !.answer = IF Unknown(e, code) THEN "PROVIDER_MUTATION_OUTCOME_UNKNOWN"
                                 ELSE IF e.log # <<>> /\ ~recorded THEN "PROVIDER_AUDIT_UNAVAILABLE"
                                 ELSE code]
ExecFails(code) == FailedWith(exec, code)

(* The tool adapter picks the one enabled provider, before execute.        *)
SelectProvider ==
  /\ exec.at = "idle"
  /\ \E mapping \in Mappings :
       exec' = [NoExec EXCEPT !.at = IF record.enabled THEN "selected" ELSE "answered",
                              !.effect = mapping.effect, !.retry = mapping.retry,
                              !.answer = IF record.enabled THEN "none" ELSE "PROVIDER_DISABLED"]
  /\ execSince' = [records |-> {record}, identities |-> {world.identity}, inventories |-> {world.inventory}]
  /\ UNCHANGED <<dynamic, record, world, releases, operator>>

(* resolveProviderImplementationIdentity, against the approved one; and    *)
(* normalizeProviderInventory, likewise.                                   *)
IdentityMatches(r) == r.identity = world.identity
InventoryMatches(r) == r.inventory = world.inventory

Admitted(r) == r.enabled    \* requireProvider, and its switch
Require ==
  /\ exec.at = "selected"
  /\ IF Admitted(record) THEN exec' = [exec EXCEPT !.at = "required", !.provider = record]
                         ELSE ExecFails("PROVIDER_DISABLED")
  /\ ExecStep

(* Adapter, contract version and implementation fingerprint; a dynamic     *)
(* inventory must have been approved; then the workspace's network.        *)
CheckIdentity ==
  /\ exec.at = "required"
  /\ IF ~IdentityMatches(exec.provider) THEN ExecFails("PROVIDER_IDENTITY_CHANGED")
     ELSE IF dynamic /\ exec.provider.inventory = 0 THEN ExecFails("PROVIDER_INVENTORY_CHANGED")
     ELSE ExecTo("deciding") \/ ExecFails("PROVIDER_NETWORK_DENIED")
  /\ ExecStep

RecordDecision ==
  /\ exec.at = "deciding"
  /\ exec' = [exec EXCEPT !.at = "acquiring", !.log = <<"decision">>] \/ ExecFails("PROVIDER_AUDIT_UNAVAILABLE")
  /\ ExecStep

(* The helper is looked at once more, run, and its output decoded.         *)
Acquire ==
  /\ exec.at = "acquiring"
  /\ IF ~IdentityMatches(exec.provider) THEN ExecFails("PROVIDER_IDENTITY_CHANGED")
     ELSE \/ ExecTo(IF dynamic THEN "verifying" ELSE "sending")
          \/ \E code \in {"PROVIDER_CREDENTIAL_UNAVAILABLE", "PROVIDER_TIMEOUT", "PROVIDER_CANCELLED"} : ExecFails(code)
  /\ ExecStep

VerifyInventory ==
  /\ exec.at = "verifying"
  /\ IF ~InventoryMatches(exec.provider) THEN ExecFails("PROVIDER_INVENTORY_CHANGED")
     ELSE ExecTo("sending") \/ ExecFails("PROVIDER_UNAVAILABLE")
  /\ ExecStep

(* canRetry: one more attempt, at what may be repeated.                    *)
MayRetry(e, code) == e.retry /\ e.requests = 0 /\ code \in Retryable

(* One attempt.  claimRequest counts it; the provider does what it is      *)
(* asked to, or not; and this is what is heard of it.                      *)
Send ==
  /\ exec.at = "sending"
  /\ \E performed \in BOOLEAN :
       LET sent == [exec EXCEPT !.requests = @ + 1, !.performed = performed]
       IN \/ performed /\ exec' = [sent EXCEPT !.at = "parsing", !.response = TRUE]
          \/ \E code \in IF performed THEN FailuresAfterEffect ELSE Failures :
               IF MayRetry(exec, code) THEN exec' = sent ELSE FailedWith(sent, code)
  /\ ExecStep

(* parseProviderSemanticOutput and fitProviderSemanticResult.              *)
ParseOutput ==
  /\ exec.at = "parsing"
  /\ \/ ExecTo("recording")
     \/ \E code \in OutputFailures : ExecFails(code)
  /\ ExecStep

RecordResult ==
  /\ exec.at = "recording"
  /\ ExecAnswers(Append(exec.log, "success"), "ok") \/ ExecFails("PROVIDER_AUDIT_UNAVAILABLE")
  /\ ExecStep

Answered ==
  /\ exec.at = "answered"
  /\ exec' = NoExec
  /\ execSince' = Nothing
  /\ UNCHANGED <<dynamic, record, world, releases, operator>>

Execute ==
  Require \/ CheckIdentity \/ RecordDecision \/ Acquire \/ VerifyInventory \/ Send \/ ParseOutput \/ RecordResult

-----------------------------------------------------------------------------
(* An operator's command                                                   *)

CommandTo(o, place) == operator' = [operator EXCEPT ![o].at = place]
CommandStep == UNCHANGED <<dynamic, record, world, releases, exec, execSince>>
PutRecord(r) ==
  /\ record' = r
  /\ execSince' = IF exec.at = "idle" THEN execSince ELSE [execSince EXCEPT !.records = @ \union {r}]
  /\ UNCHANGED <<dynamic, world, releases, exec>>

(* inspect: everything but add is about a provider that is there.          *)
StartCommand(o) ==
  /\ operator[o].at = "idle"
  /\ \E op \in {"add", "disable", "remove", "reapprove", "enable"} :
       /\ (op = "add") = (record = NoRecord)
       /\ operator' = [p \in Operators |->
            IF p = o THEN [NoCommand EXCEPT
                !.at = IF op \in {"disable", "remove"} THEN "deciding" ELSE "resolving", !.op = op,
                !.current = record,
                !.updated = IF op = "disable" THEN [record EXCEPT !.enabled = FALSE] ELSE NoRecord,
                !.alone = \A q \in Operators \ {o} : operator[q].at = "idle"]
            ELSE [operator[p] EXCEPT !.alone = operator[p].at = "idle"]]
  /\ CommandStep

(* reapprove leaves the switch where it is; enable insists on the identity *)
(* that was approved.                                                      *)
ResolveIdentity(o) ==
  LET c == operator[o] IN
  /\ c.at = "resolving"
  /\ IF c.op = "enable" /\ ~IdentityMatches(c.current)
       THEN operator' = [operator EXCEPT ![o].at = "answered", ![o].answer = "PROVIDER_IDENTITY_CHANGED"]
       ELSE operator' = [operator EXCEPT ![o].at = "deciding",
              ![o].updated = [enabled   |-> IF c.op = "reapprove" THEN c.current.enabled ELSE TRUE,
                              identity  |-> world.identity,
                              inventory |-> IF c.op = "enable" THEN c.current.inventory ELSE 0]]
  /\ CommandStep

DecideCommand(o) ==
  LET fetches == dynamic /\ operator[o].op \in {"add", "reapprove", "enable"} IN
  /\ operator[o].at = "deciding"
  /\ \/ CommandTo(o, IF fetches THEN "fetching" ELSE "writing")
     \/ operator' = [operator EXCEPT ![o].at = "answered", ![o].answer = "PROVIDER_AUDIT_UNAVAILABLE"]
  /\ CommandStep

FetchInventory(o) ==
  LET c == operator[o] IN
  /\ c.at = "fetching"
  /\ \/ CommandTo(o, "undoing")
     \/ IF c.op = "enable"
          THEN CommandTo(o, IF InventoryMatches(c.current) THEN "writing" ELSE "undoing")
          ELSE operator' = [operator EXCEPT ![o].at = "writing", ![o].updated.inventory = world.inventory]
  /\ CommandStep

(* insert, replace and remove find the record as they expect, and may fail *)
(* when it is written already.                                             *)
FindsAsExpected(o) == (operator[o].op = "add") = (record = NoRecord)
WriteRecord(o) ==
  /\ operator[o].at = "writing" /\ FindsAsExpected(o)
  /\ PutRecord(operator[o].updated)
  /\ \E place \in {"recording", "undoing"} : CommandTo(o, place)
WriteFails(o) ==
  /\ operator[o].at = "writing"
  /\ CommandTo(o, "undoing")
  /\ CommandStep

RecordCommand(o) ==
  /\ operator[o].at = "recording"
  /\ \/ operator' = [operator EXCEPT ![o].at = "answered", ![o].answer = "ok"]
     \/ CommandTo(o, "undoing")
  /\ CommandStep

(* The roll-back restores what the command has read: by replacing, by      *)
(* removing what add inserted, by inserting what remove removed.           *)
UndoFinds(o) ==
  CASE operator[o].op = "add"    -> TRUE
    [] operator[o].op = "remove" -> TRUE
    [] OTHER                     -> record # NoRecord
Restored(o) ==
  CASE operator[o].op = "add"                          -> NoRecord
    [] operator[o].op = "remove" /\ record # NoRecord  -> record
    [] OTHER                                           -> operator[o].current
AsItIs(o) == record    \* mutant: a failure leaves what has been written
Undone(o) == Restored(o)

(* When that cannot be recorded, this is the answer.                       *)
Undo(o) ==
  /\ operator[o].at = "undoing" /\ UndoFinds(o)
  /\ PutRecord(Undone(o))
  /\ \E answer \in {"failed", "PROVIDER_STATE_INVALID", "PROVIDER_AUDIT_UNAVAILABLE"} :
       operator' = [operator EXCEPT ![o].at = "answered", ![o].answer = answer]
UndoFails(o) ==
  /\ operator[o].at = "undoing"
  /\ \E answer \in {"PROVIDER_STATE_INVALID", "PROVIDER_AUDIT_UNAVAILABLE"} :
       operator' = [operator EXCEPT ![o].at = "answered", ![o].answer = answer]
  /\ CommandStep

(* The command has printed its answer; or its process ends.                *)
EndCommand(o) ==
  /\ operator[o].at # "idle"
  /\ operator' = [operator EXCEPT ![o] = NoCommand]
  /\ CommandStep

Command(o) ==
  \/ StartCommand(o) \/ ResolveIdentity(o) \/ DecideCommand(o) \/ FetchInventory(o) \/ WriteRecord(o)
  \/ WriteFails(o) \/ RecordCommand(o) \/ Undo(o) \/ UndoFails(o)

GatewayNext ==
  \/ Move \/ SelectProvider \/ Execute \/ Answered
  \/ \E o \in Operators : Command(o) \/ EndCommand(o)

GatewaySpec == GatewayInit /\ [][GatewayNext]_gatewayVars

-----------------------------------------------------------------------------
(* However commands and releases interleave with a call, it is made with a *)
(* provider that was admitted, switched on and approved with an identity   *)
(* and an inventory that were the real ones, each at some moment since the *)
(* call began; a decision was recorded first; a mutation is sent once; and *)
(* one that was made is not reported as one the provider refused.          *)
ExecutionIsAdmitted ==
  /\ exec.requests > 0 =>
       /\ exec.provider \in execSince.records /\ exec.provider.enabled
       /\ exec.provider.identity \in execSince.identities
       /\ dynamic => exec.provider.inventory \in execSince.inventories
       /\ exec.log # <<>> /\ exec.requests <= IF exec.retry THEN 2 ELSE 1
  /\ exec.answer = "ok" => exec.performed /\ exec.log = <<"decision", "success">>
  /\ (exec.effect = "REMOTE_MUTATION" /\ exec.performed /\ exec.at = "answered") =>
       exec.answer \in {"ok", "PROVIDER_MUTATION_OUTCOME_UNKNOWN", "PROVIDER_RESPONSE_INVALID",
                        "PROVIDER_AUDIT_UNAVAILABLE"}

(* A command that ran alone has done what it answers: the new record when  *)
(* it succeeds, the old one when it fails, unless it says that it could    *)
(* not roll back or that its failure is not recorded.                      *)
CommandTellsTheTruth ==
  \A o \in Operators :
    LET c == operator[o] IN
    c.at = "answered" /\ c.alone =>
      /\ c.answer = "ok" => record = c.updated
      /\ c.answer \in {"failed", "PROVIDER_IDENTITY_CHANGED"} => record = c.current

(* A registry and a call that nobody else disturbs, and those that are.    *)
GatewayTellsTheTruth == ExecutionIsAdmitted /\ CommandTellsTheTruth

(* docs/superpowers/specs/2026-08-19-kodegpt-typed-preview-deployment-     *)
(* design.md: "If a mutation response is received but cannot be            *)
(* normalized/proven, or an ambiguous transport failure occurs after       *)
(* mutation request start, the existing gateway returns                    *)
(* PROVIDER_MUTATION_OUTCOME_UNKNOWN."                                     *)
UnprovenMutationIsUnknown ==
  (exec.effect = "REMOTE_MUTATION" /\ exec.performed /\ exec.at = "answered") =>
    exec.answer \in {"ok", "PROVIDER_MUTATION_OUTCOME_UNKNOWN"}
=============================================================================
