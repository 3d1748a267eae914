------------------------ MODULE WorkspaceLifecycle -------------------------
(***************************************************************************)
(* Workspaces across the two processes: WorkspaceManager in the Node       *)
(* server keeps the public mapping ws_ -> state, the Rust registry keeps   *)
(* one context per capability, and the durable trust store decides what    *)
(* may be opened.  workspace.open, .close, .trust and .untrust are async   *)
(* calls that interleave at every await; close abandons a request at its   *)
(* deadline while the runtime may still execute it.                        *)
(*                                                                         *)
(* One open call per workspace id, so the id also names its capability.    *)
(***************************************************************************)
EXTENDS Naturals

CONSTANTS
  Ids,          \* workspace ids (ws_...)
  Roots,        \* canonical roots
  RootOf,       \* the root each open call asks for
  Overlap,      \* pairs of roots roots_overlap holds for
  TrustIds,     \* trust ids, issued at random and so never twice
  Untrusts,     \* workspace.untrust calls
  MaxCloses,    \* bound on workspace.close calls per workspace
  NoTrust, Client

ASSUME RootOfAssumption   == RootOf \in [Ids -> Roots]
ASSUME OverlapAssumption  ==
  /\ Overlap \subseteq Roots \X Roots
  /\ \A r \in Roots : <<r, r>> \in Overlap
  /\ \A r, s \in Roots : <<r, s>> \in Overlap => <<s, r>> \in Overlap
ASSUME SentinelAssumption == NoTrust \notin TrustIds /\ Client \notin Untrusts
ASSUME MaxClosesAssumption == MaxCloses \in [Ids -> Nat]

VARIABLES
  trust,      \* trust store: the entry id of each root
  issued,     \* trust ids ever issued
  audit,      \* sticky health of the runtime's audit sink
  ctx,        \* phase of each capability in the Rust registry
  ws,         \* the manager's mapping; "closed" and "failed" are deleted entries
  openPc,     \* await at which each open call stands
  found,      \* what its requireTrusted read
  rootKnown,  \* states whose canonicalRoot is set
  trustId,    \* trustId of each state
  closePc,    \* request the close in flight waits for, "none" without one
  reply,      \* its response
  closeFor,   \* who called close
  closes,     \* close calls so far
  stray,      \* requests abandoned at the deadline, not yet executed
  un          \* the untrust calls

openVars  == <<openPc, found, rootKnown, trustId>>
closeVars == <<closePc, reply, closeFor, closes, stray>>
vars == <<trust, issued, audit, ctx, ws, openPc, found, rootKnown, trustId, closePc, reply,
          closeFor, closes, stray, un>>

Methods  == {"begin_close", "cancel_executions", "unregister"}
Live     == {"OPENING", "READY", "CLOSING"}
Settled  == {"ok", "refused", "error"}
UnStates == {"idle", "listing", "listed", "auditing", "closing", "waiting", "removing",
             "succeeding", "failing"} \union Settled
MaybeTrust == TrustIds \union {NoTrust}
Calls == [pc : UnStates, tid : MaybeTrust, roots : SUBSET Roots, bound : SUBSET Ids,
          todo : SUBSET Ids]

TypeOK ==
  /\ trust \in [Roots -> MaybeTrust]
  /\ issued \subseteq TrustIds
  /\ audit \in {"healthy", "broken"}
  /\ ctx \in [Ids -> {"none", "opening", "ready", "closing", "gone"}]
  /\ ws \in [Ids -> Live \union {"absent", "closed", "failed"}]
  /\ openPc \in [Ids -> {"idle", "inspecting", "trusting", "trusted", "registering",
                         "restricting", "activating", "unregistering", "done"}]
  /\ found \in [Ids -> MaybeTrust]
  /\ rootKnown \subseteq Ids
  /\ trustId \in [Ids -> MaybeTrust]
  /\ closePc \in [Ids -> Methods \union {"none"}]
  /\ reply \in [Ids -> {"none", "ok", "error"}]
  /\ closeFor \in [Ids -> Untrusts \union {Client}]
  /\ closes \in [Ids -> Nat] /\ \A i \in Ids : closes[i] <= MaxCloses[i]
  /\ stray \subseteq Ids \X Methods
  /\ un \in [Untrusts -> Calls]

Init ==
  /\ trust = [r \in Roots |-> NoTrust]
  /\ issued = {}
  /\ audit = "healthy"
  /\ ctx = [i \in Ids |-> "none"]
  /\ ws = [i \in Ids |-> "absent"]
  /\ openPc = [i \in Ids |-> "idle"]
  /\ found = [i \in Ids |-> NoTrust]
  /\ rootKnown = {}
  /\ trustId = [i \in Ids |-> NoTrust]
  /\ closePc = [i \in Ids |-> "none"]
  /\ reply = [i \in Ids |-> "none"]
  /\ closeFor = [i \in Ids |-> Client]
  /\ closes = [i \in Ids |-> 0]
  /\ stray = {}
  /\ un = [u \in Untrusts |-> [pc |-> "idle", tid |-> NoTrust, roots |-> {}, bound |-> {},
                               todo |-> {}]]

-----------------------------------------------------------------------------
(* audited_workspace_operation: decision, operation under the registry     *)
(* lock, outcome.  A failed append answers AUDIT_UNAVAILABLE, the operation *)
(* done or not, and leaves the sink unhealthy.                             *)
Executes(allowed, done, ok) ==
  \/ /\ audit = "healthy" /\ allowed /\ done /\ ok
     /\ UNCHANGED audit
  \/ /\ audit = "healthy" /\ ~ ok /\ (done => allowed)
     /\ audit' = "broken"
  \/ /\ ~ allowed \/ audit = "broken"
     /\ ~ done /\ ~ ok
     /\ UNCHANGED audit

(* trust.audit has no effect but the appended record.                      *)
Audits(ok) == Executes(TRUE, ok, ok)

-----------------------------------------------------------------------------
(* workspace.trust                                                         *)

(* Decision, then the store write; a second trust of a root keeps its id.  *)
TrustWorkspace(r) ==
  /\ audit = "healthy"
  /\ \/ /\ trust[r] # NoTrust
        /\ UNCHANGED <<trust, issued>>
     \/ /\ trust[r] = NoTrust
        /\ \E t \in TrustIds \ issued :
             /\ trust' = [trust EXCEPT ![r] = t]
             /\ issued' = issued \union {t}
  /\ UNCHANGED <<audit, ctx, ws, openVars, closeVars, un>>

-----------------------------------------------------------------------------
(* workspace.open                                                          *)

OpenStep(i, from, to) == openPc[i] = from /\ openPc' = [openPc EXCEPT ![i] = to]
Forget(i) == ws' = [ws EXCEPT ![i] = "failed"]

OpenWorkspace(i) ==
  /\ OpenStep(i, "idle", "inspecting")
  /\ ws' = [ws EXCEPT ![i] = "OPENING"]
  /\ UNCHANGED <<trust, issued, audit, ctx, found, rootKnown, trustId, closeVars, un>>

Inspected(i) ==
  /\ \/ /\ OpenStep(i, "inspecting", "trusting")
        /\ rootKnown' = rootKnown \union {i}
        /\ UNCHANGED ws
     \/ OpenStep(i, "inspecting", "done") /\ Forget(i) /\ UNCHANGED rootKnown
  /\ UNCHANGED <<trust, issued, audit, ctx, found, trustId, closeVars, un>>

(* requireTrusted reads the file; the call goes on when its promise resolves. *)
ReadTrust(i) ==
  /\ OpenStep(i, "trusting", "trusted")
  /\ found' = [found EXCEPT ![i] = trust[RootOf[i]]]
  /\ UNCHANGED <<trust, issued, audit, ctx, ws, rootKnown, trustId, closeVars, un>>

(* Not trusted, or the root's identity is no longer the trusted one.       *)
RequireTrusted(i) ==
  /\ \/ /\ found[i] # NoTrust
        /\ OpenStep(i, "trusted", "registering")
        /\ trustId' = [trustId EXCEPT ![i] = found[i]]
        /\ UNCHANGED ws
     \/ OpenStep(i, "trusted", "done") /\ Forget(i) /\ UNCHANGED trustId
  /\ UNCHANGED <<trust, issued, audit, ctx, found, rootKnown, closeVars, un>>

ConflictsWithReady(i) ==    \* mutant: only activated contexts count
  \E j \in Ids : ctx[j] = "ready" /\ <<RootOf[i], RootOf[j]>> \in Overlap
Conflicts(i) ==
  \E j \in Ids : ctx[j] \in {"opening", "ready", "closing"} /\ <<RootOf[i], RootOf[j]>> \in Overlap

(* A failed register leaves the call without a capability to unregister.   *)
Register(i) ==
  /\ \E done, ok \in BOOLEAN :
       /\ Executes(~ Conflicts(i), done, ok)
       /\ OpenStep(i, "registering", IF ok THEN "restricting" ELSE "done")
       /\ ctx' = IF done THEN [ctx EXCEPT ![i] = "opening"] ELSE ctx
       /\ IF ok THEN UNCHANGED ws ELSE Forget(i)
  /\ UNCHANGED <<trust, issued, found, rootKnown, trustId, closeVars, un>>

AbandonedPc == "done"    \* mutant: a failed open does not unregister
CleanupPc   == "unregistering"

(* read_project_profile, resolveProfile and restrict_policy.               *)
Restrict(i) ==
  /\ \E ok \in BOOLEAN :
       /\ Audits(ok) \/ (~ ok /\ UNCHANGED audit)
       /\ OpenStep(i, "restricting", IF ok THEN "activating" ELSE CleanupPc)
       /\ IF ok THEN UNCHANGED ws ELSE Forget(i)
  /\ UNCHANGED <<trust, issued, ctx, found, rootKnown, trustId, closeVars, un>>

Activate(i) ==
  /\ \E done, ok \in BOOLEAN :
       /\ Executes(ctx[i] = "opening", done, ok)
       /\ OpenStep(i, "activating", IF ok THEN "done" ELSE CleanupPc)
       /\ ctx' = IF done THEN [ctx EXCEPT ![i] = "ready"] ELSE ctx
       /\ IF ok THEN ws' = [ws EXCEPT ![i] = "READY"] ELSE Forget(i)
  /\ UNCHANGED <<trust, issued, found, rootKnown, trustId, closeVars, un>>

MayUnregister(i) == ctx[i] \in {"opening", "closing"}

(* The error path's unregister; its own failure is swallowed.              *)
UnregisterFailedOpen(i) ==
  /\ OpenStep(i, "unregistering", "done")
  /\ \E done, ok \in BOOLEAN :
       /\ Executes(MayUnregister(i), done, ok)
       /\ ctx' = IF done THEN [ctx EXCEPT ![i] = "gone"] ELSE ctx
  /\ UNCHANGED <<trust, issued, ws, found, rootKnown, trustId, closeVars, un>>

-----------------------------------------------------------------------------
(* workspace.close                                                         *)

(* closeWorkspace throws for any other state.                              *)
MayClose(i) == ws[i] \in {"READY", "CLOSING"} /\ closePc[i] = "none"

StartClose(i, caller) ==
  /\ MayClose(i)
  /\ ws' = [ws EXCEPT ![i] = "CLOSING"]
  /\ closePc' = [closePc EXCEPT ![i] = "begin_close"]
  /\ reply' = [reply EXCEPT ![i] = "none"]
  /\ closeFor' = [closeFor EXCEPT ![i] = caller]
  /\ UNCHANGED <<trust, issued, audit, ctx, openVars, stray>>

CloseWorkspace(i) ==
  /\ closes[i] < MaxCloses[i]
  /\ closes' = [closes EXCEPT ![i] = @ + 1]
  /\ StartClose(i, Client)
  /\ UNCHANGED un

Allowed(i, m) ==
  CASE m = "begin_close"       -> ctx[i] \in {"ready", "closing"}
    [] m = "cancel_executions" -> ctx[i] = "closing"
    [] m = "unregister"        -> MayUnregister(i)

After(i, m) ==
  CASE m = "begin_close"       -> [ctx EXCEPT ![i] = "closing"]
    [] m = "cancel_executions" -> ctx
    [] m = "unregister"        -> [ctx EXCEPT ![i] = "gone"]

ExecuteClose(i) ==
  /\ closePc[i] # "none" /\ reply[i] = "none"
  /\ \E done, ok \in BOOLEAN :
       /\ Executes(Allowed(i, closePc[i]), done, ok)
       /\ ctx' = IF done THEN After(i, closePc[i]) ELSE ctx
       /\ reply' = [reply EXCEPT ![i] = IF ok THEN "ok" ELSE "error"]
  /\ UNCHANGED <<trust, issued, ws, openVars, closePc, closeFor, closes, stray, un>>

(* Its response finds nobody waiting.                                      *)
ExecuteStray(i, m) ==
  /\ <<i, m>> \in stray
  /\ stray' = stray \ {<<i, m>>}
  /\ \E done, ok \in BOOLEAN :
       /\ Executes(Allowed(i, m), done, ok)
       /\ ctx' = IF done THEN After(i, m) ELSE ctx
  /\ UNCHANGED <<trust, issued, ws, openVars, closePc, reply, closeFor, closes, un>>

(* The caller resumes: an untrust goes on with its next workspace.         *)
ResumeWith(i, outcome) ==    \* mutant: the outcome becomes the caller's state
  un' = IF closeFor[i] = Client THEN un
        ELSE [un EXCEPT ![closeFor[i]].pc = outcome]
Resume(i, outcome) ==
  un' = IF closeFor[i] = Client THEN un
        ELSE LET u == closeFor[i]
             IN  [un EXCEPT ![u].pc = IF outcome = "closed" THEN "closing" ELSE "failing",
                            ![u].todo = @ \ {i}]

AcceptAnyReply(i) == reply[i] \in {"ok", "error"}    \* mutant: errors are swallowed
Acknowledged(i)   == reply[i] = "ok"

CloseAdvances(i) ==
  /\ closePc[i] \in {"begin_close", "cancel_executions"} /\ Acknowledged(i)
  /\ closePc' = [closePc EXCEPT ![i] =
                   IF @ = "begin_close" THEN "cancel_executions" ELSE "unregister"]
  /\ reply' = [reply EXCEPT ![i] = "none"]
  /\ UNCHANGED <<trust, issued, audit, ctx, ws, openVars, closeFor, closes, stray, un>>

CloseCompletes(i) ==
  /\ closePc[i] = "unregister" /\ Acknowledged(i)
  /\ ws' = [ws EXCEPT ![i] = "closed"]
  /\ closePc' = [closePc EXCEPT ![i] = "none"]
  /\ Resume(i, "closed")
  /\ UNCHANGED <<trust, issued, audit, ctx, openVars, reply, closeFor, closes, stray>>

Reopened(i)  == [ws EXCEPT ![i] = "READY"]    \* mutant: a failed close gives up
Unresolved(i) == ws

(* WORKSPACE_CLOSE_INCOMPLETE: an error, or the deadline while the request *)
(* is on its way, executing, or answered a moment too late.                *)
ErrorOnly(i) == reply[i] = "error"    \* mutant: no deadline
Expires(i)   == TRUE

CloseIncomplete(i) ==
  /\ closePc[i] # "none" /\ Expires(i)
  /\ closePc' = [closePc EXCEPT ![i] = "none"]
  /\ stray' = IF reply[i] = "none" THEN stray \union {<<i, closePc[i]>>} ELSE stray
  /\ ws' = Unresolved(i)
  /\ Resume(i, "incomplete")
  /\ UNCHANGED <<trust, issued, audit, ctx, openVars, reply, closeFor, closes>>

-----------------------------------------------------------------------------
(* workspace.untrust                                                       *)

UnStep(u, from, q) ==
  /\ un[u].pc = from
  /\ un' = [un EXCEPT ![u] = q]
  /\ UNCHANGED <<issued, ctx, openVars>>

Untouched == UNCHANGED <<trust, ws, closeVars>>

UntrustWorkspace(u, t) ==
  /\ UnStep(u, "idle", [un[u] EXCEPT !.pc = "listing", !.tid = t])
  /\ Untouched /\ UNCHANGED audit

(* trust.list reads the file: the roots the trust id stands for, if any.   *)
UntrustLists(u) ==
  /\ UnStep(u, "listing", [un[u] EXCEPT !.pc = "listed",
                             !.roots = {r \in Roots : trust[r] = un[u].tid}])
  /\ Untouched /\ UNCHANGED audit

Bound(u) ==
  {i \in Ids : /\ ws[i] \in Live
               /\ trustId[i] = un[u].tid \/ (i \in rootKnown /\ RootOf[i] \in un[u].roots)}

UntrustBinds(u) ==
  /\ UnStep(u, "listed",
            IF \A i \in Bound(u) : ws[i] = "READY"
              THEN [un[u] EXCEPT !.pc = "auditing", !.bound = Bound(u), !.todo = Bound(u)]
              ELSE [un[u] EXCEPT !.pc = "refused"])
  /\ Untouched /\ UNCHANGED audit

UntrustDecision(u) ==
  /\ \E ok \in BOOLEAN :
       /\ Audits(ok)
       /\ UnStep(u, "auditing", [un[u] EXCEPT !.pc = IF ok THEN "closing" ELSE "error"])
  /\ Untouched

UntrustCloses(u) ==
  /\ un[u].pc = "closing"
  /\ \E i \in un[u].todo :
       \/ StartClose(i, u) /\ UNCHANGED closes
          /\ un' = [un EXCEPT ![u].pc = "waiting"]
       \/ ~ MayClose(i) /\ Untouched /\ UNCHANGED audit
          /\ UnStep(u, "closing", [un[u] EXCEPT !.pc = "failing"])

(* checkpointStore.purge, then trustStore.untrust; either may fail.        *)
NothingLeft(u)  == un[u].todo = {}
PurgeFirst(u)   == TRUE    \* mutant: the store is updated before the closes
MayRemove(u) == NothingLeft(u)

PurgeCheckpoint(u) ==
  /\ MayRemove(u)
  /\ \E to \in {"removing", "failing"} : UnStep(u, "closing", [un[u] EXCEPT !.pc = to])
  /\ Untouched /\ UNCHANGED audit

RemoveTrust(u) ==
  /\ \/ /\ UnStep(u, "removing", [un[u] EXCEPT !.pc = "succeeding"])
        /\ trust' = [r \in Roots |-> IF trust[r] = un[u].tid THEN NoTrust ELSE trust[r]]
     \/ /\ UnStep(u, "removing", [un[u] EXCEPT !.pc = "failing"])
        /\ UNCHANGED trust
  /\ UNCHANGED <<audit, ws, closeVars>>

UntrustOutcome(u) ==
  /\ \E ok \in BOOLEAN :
       /\ Audits(ok)
       /\ \/ UnStep(u, "succeeding", [un[u] EXCEPT !.pc = IF ok THEN "ok" ELSE "error"])
          \/ UnStep(u, "failing", [un[u] EXCEPT !.pc = "error"])
  /\ Untouched

-----------------------------------------------------------------------------
Open(i) == Inspected(i) \/ ReadTrust(i) \/ RequireTrusted(i) \/ Register(i) \/ Restrict(i)
           \/ Activate(i) \/ UnregisterFailedOpen(i)

Close(i) == ExecuteClose(i) \/ CloseAdvances(i) \/ CloseCompletes(i)

Untrust(u) == UntrustLists(u) \/ UntrustBinds(u) \/ UntrustDecision(u) \/ UntrustCloses(u)
              \/ PurgeCheckpoint(u) \/ RemoveTrust(u) \/ UntrustOutcome(u)

Next ==
  \/ \E r \in Roots : TrustWorkspace(r)
  \/ \E i \in Ids : \/ OpenWorkspace(i) \/ Open(i)
                    \/ CloseWorkspace(i) \/ Close(i) \/ CloseIncomplete(i)
                    \/ \E m \in Methods : ExecuteStray(i, m)
  \/ \E u \in Untrusts : Untrust(u) \/ \E t \in TrustIds : UntrustWorkspace(u, t)

(* Promises of open and untrust resolve because the runtime answers every  *)
(* request; a close ends because its deadline is a timer of the server.    *)
Fairness ==
  /\ \A i \in Ids : WF_vars(Open(i)) /\ WF_vars(CloseIncomplete(i))
  /\ \A u \in Untrusts : WF_vars(Untrust(u))

Safety == Init /\ [][Next]_vars
Spec   == Safety /\ Fairness

-----------------------------------------------------------------------------
(* Properties                                                              *)

(* A workspace the manager hands out is Ready in the runtime: no abandoned *)
(* or late request of an earlier call can take its context away.           *)
ReadyIsBacked == \A i \in Ids : ws[i] = "READY" => ctx[i] = "ready"

(* Two workspaces in use never overlap, though the manager checks nothing  *)
(* and the registry only compares when a root is registered.               *)
ReadyRootsAreDisjoint ==
  \A i, j \in Ids : i # j /\ ws[i] = "READY" /\ ws[j] = "READY" =>
    <<RootOf[i], RootOf[j]>> \notin Overlap

(* workspace.close answers success only when the context is gone.          *)
ClosedIsGone == \A i \in Ids : ws[i] = "closed" => ctx[i] = "gone"

(* A failed open leaves no context behind that would block its root with   *)
(* WORKSPACE_ROOT_OVERLAP, as long as the runtime accepts requests at all. *)
FailedOpenLeavesNothing ==
  audit = "healthy" =>
    \A i \in Ids : ws[i] = "failed" /\ openPc[i] = "done" => ctx[i] \in {"none", "gone"}

(* untrust removes the entry only after it closed every workspace it found *)
(* bound to it, whatever other closes of the same workspaces interfere.    *)
UntrustClosesItsWorkspaces ==
  \A u \in Untrusts : un[u].pc \in {"removing", "succeeding", "ok"} =>
    \A i \in un[u].bound : ws[i] = "closed"

(* The five together: what the server shows is what the runtime holds.     *)
SidesAgree ==
  /\ ReadyIsBacked /\ ReadyRootsAreDisjoint /\ ClosedIsGone
  /\ FailedOpenLeavesNothing /\ UntrustClosesItsWorkspaces

(* An open, a close (within its deadline) and an untrust call end,         *)
(* whatever fails, is answered late or is not answered at all.  The calls  *)
(* are finitely many, so none goes on for ever just when again and again   *)
(* none is under way.                                                      *)
UnderWay ==
  \/ \E i \in Ids : closePc[i] # "none" \/ ws[i] = "OPENING"
  \/ \E u \in Untrusts : un[u].pc \notin Settled \union {"idle"}

EveryCallEnds == []<>(~UnderWay)

(* "supports safe retry while remaining CLOSING": a workspace left CLOSING *)
(* by an incomplete close still has the context its retry starts from, as  *)
(* long as the runtime accepts requests at all.                            *)
CloseCanBeRetried ==
  audit = "healthy" =>
    \A i \in Ids : ws[i] = "CLOSING" /\ closePc[i] = "none" => ctx[i] \in {"ready", "closing"}
=============================================================================
