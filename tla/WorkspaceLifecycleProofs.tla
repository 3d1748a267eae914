---------------------- MODULE WorkspaceLifecycleProofs ----------------------
(***************************************************************************)
(* What the server shows of its workspaces is what the runtime holds, for  *)
(* any number of workspaces, roots, and calls of untrust.                  *)
(***************************************************************************)
EXTENDS WorkspaceLifecycle, TLAPS

-----------------------------------------------------------------------------
(* Typing                                                                  *)

(* An audited operation is done only when it is allowed, answered only     *)
(* when it is done, and leaves the sink healthy only where nothing failed. *)
LEMMA ExecutesFacts ==
  ASSUME NEW allowed \in BOOLEAN, NEW done \in BOOLEAN, NEW ok \in BOOLEAN,
         audit \in {"healthy", "broken"}, Executes(allowed, done, ok)
  PROVE  /\ done => allowed
         /\ ok => done
         /\ audit' \in {"healthy", "broken"}
         /\ audit' = "healthy" => audit = "healthy" /\ done = ok /\ (allowed => ok)
BY DEF Executes

(* The states have their types at the start.                               *)
LEMMA InitTypeOK == Init => TypeOK
BY RootOfAssumption, MaxClosesAssumption DEF Init, TypeOK, MaybeTrust, Calls, UnStates, Settled, Live, Methods

(* A step of an open call keeps the types.                                 *)
LEMMA OpenKeepsTypes ==
  ASSUME TypeOK, NEW i \in Ids, OpenWorkspace(i) \/ Open(i)
  PROVE  TypeOK'
<1>1. /\ ctx \in [Ids -> {"none", "opening", "ready", "closing", "gone"}]
      /\ ws \in [Ids -> Live \union {"absent", "closed", "failed"}]
      /\ openPc \in [Ids -> {"idle", "inspecting", "trusting", "trusted", "registering",
                             "restricting", "activating", "unregistering", "done"}]
      /\ found \in [Ids -> MaybeTrust] /\ rootKnown \subseteq Ids /\ trustId \in [Ids -> MaybeTrust]
      /\ trust \in [Roots -> MaybeTrust] /\ audit \in {"healthy", "broken"}
      /\ RootOf[i] \in Roots
  BY RootOfAssumption DEF TypeOK
<1>2. /\ trust' = trust /\ issued' = issued /\ closePc' = closePc /\ reply' = reply
      /\ closeFor' = closeFor /\ closes' = closes /\ stray' = stray /\ un' = un
  BY DEF OpenWorkspace, Open, Inspected, ReadTrust, RequireTrusted, Register, Restrict, Activate,
         UnregisterFailedOpen, closeVars
<1>3. audit' \in {"healthy", "broken"}
  BY <1>1 DEF OpenWorkspace, Open, Inspected, ReadTrust, RequireTrusted, Register, Restrict, Activate,
         UnregisterFailedOpen, Executes, Audits
<1>4. ctx' \in [Ids -> {"none", "opening", "ready", "closing", "gone"}]
  BY <1>1 DEF OpenWorkspace, Open, Inspected, ReadTrust, RequireTrusted, Register, Restrict, Activate,
         UnregisterFailedOpen
<1>5. ws' \in [Ids -> Live \union {"absent", "closed", "failed"}]
  BY <1>1 DEF OpenWorkspace, Open, Inspected, ReadTrust, RequireTrusted, Register, Restrict, Activate,
         UnregisterFailedOpen, Forget, Live
<1>6. openPc' \in [Ids -> {"idle", "inspecting", "trusting", "trusted", "registering",
                           "restricting", "activating", "unregistering", "done"}]
  BY <1>1 DEF OpenWorkspace, Open, Inspected, ReadTrust, RequireTrusted, Register, Restrict, Activate,
         UnregisterFailedOpen, OpenStep, CleanupPc
<1>7. found' \in [Ids -> MaybeTrust] /\ rootKnown' \subseteq Ids /\ trustId' \in [Ids -> MaybeTrust]
  BY <1>1 DEF OpenWorkspace, Open, Inspected, ReadTrust, RequireTrusted, Register, Restrict, Activate,
         UnregisterFailedOpen
<1> QED BY <1>2, <1>3, <1>4, <1>5, <1>6, <1>7 DEF TypeOK

(* The end of a close leaves the untrust that waited for it well typed.    *)
LEMMA ResumeKeepsTypes ==
  ASSUME TypeOK, NEW i \in Ids, NEW outcome, Resume(i, outcome)
  PROVE  un' \in [Untrusts -> Calls]
<1>1. closeFor[i] \in Untrusts \union {Client} /\ un \in [Untrusts -> Calls]
  BY DEF TypeOK
<1>2. CASE closeFor[i] = Client
  BY <1>1, <1>2 DEF Resume
<1>3. CASE closeFor[i] # Client
  <2> DEFINE u == closeFor[i]
             c == [un[u] EXCEPT !.pc = IF outcome = "closed" THEN "closing" ELSE "failing", !.todo = @ \ {i}]
  <2>1. u \in Untrusts /\ un[u] \in Calls
    BY <1>1, <1>3
  <2>2. c \in Calls
    BY <2>1 DEF Calls, UnStates, Settled
  <2>3. un' = [un EXCEPT ![u] = c]
    BY <1>1, <1>3, <2>1 DEF Resume
  <2> QED BY <1>1, <2>1, <2>2, <2>3
<1> QED BY <1>2, <1>3

(* What a request of a close leaves of the context.                        *)
LEMMA AfterType ==
  ASSUME TypeOK, NEW i \in Ids, NEW m \in Methods
  PROVE  After(i, m) \in [Ids -> {"none", "opening", "ready", "closing", "gone"}]
<1> DEFINE T == [Ids -> {"none", "opening", "ready", "closing", "gone"}]
<1>1. ctx \in T
  BY DEF TypeOK
<1>2. [ctx EXCEPT ![i] = "closing"] \in T /\ [ctx EXCEPT ![i] = "gone"] \in T
  BY <1>1
<1>3. CASE m = "begin_close"
  BY <1>2, <1>3 DEF After
<1>4. CASE m = "cancel_executions"
  BY <1>1, <1>4 DEF After
<1>5. CASE m = "unregister"
  BY <1>2, <1>5 DEF After
<1> QED BY <1>3, <1>4, <1>5 DEF Methods

(* A step of a close, abandoned or not, keeps the types.                   *)
LEMMA CloseKeepsTypes ==
  ASSUME TypeOK, NEW i \in Ids,
         CloseWorkspace(i) \/ Close(i) \/ CloseIncomplete(i) \/ \E m \in Methods : ExecuteStray(i, m)
  PROVE  TypeOK'
<1> USE DEF TypeOK
<1>1. CASE CloseWorkspace(i)
  <2>1. closes' \in [Ids -> Nat] /\ \A j \in Ids : closes'[j] <= MaxCloses[j]
    <3>1. closes[i] \in Nat /\ MaxCloses[i] \in Nat /\ closes[i] < MaxCloses[i] /\ closes' = [closes EXCEPT ![i] = closes[i] + 1]
      BY <1>1, MaxClosesAssumption DEF CloseWorkspace
    <3>2. closes[i] + 1 \in Nat /\ closes[i] + 1 <= MaxCloses[i]
      BY <3>1
    <3>3. \A j \in Ids : closes'[j] = IF j = i THEN closes[i] + 1 ELSE closes[j]
      BY <3>1
    <3>4. closes' \in [Ids -> Nat]
      BY <3>1, <3>2
    <3>5. \A j \in Ids : closes'[j] <= MaxCloses[j]
      BY <3>2, <3>3
    <3> QED BY <3>4, <3>5
  <2> QED BY <1>1, <2>1 DEF CloseWorkspace, StartClose, Methods, Live, openVars
<1>2. CASE ExecuteClose(i)
  <2>1. ctx' \in [Ids -> {"none", "opening", "ready", "closing", "gone"}]
    BY <1>2, AfterType DEF ExecuteClose
  <2>2. audit' \in {"healthy", "broken"}
    BY <1>2 DEF ExecuteClose, Executes
  <2>3. reply' \in [Ids -> {"none", "ok", "error"}]
    BY <1>2 DEF ExecuteClose
  <2> QED BY <1>2, <2>1, <2>2, <2>3 DEF ExecuteClose, openVars
<1>3. CASE CloseAdvances(i)
  BY <1>3 DEF CloseAdvances, Methods, openVars
<1>4. CASE CloseCompletes(i)
  BY <1>4, ResumeKeepsTypes DEF CloseCompletes, Live, openVars
<1>5. CASE CloseIncomplete(i)
  BY <1>5, ResumeKeepsTypes DEF CloseIncomplete, Unresolved, openVars
<1>6. ASSUME NEW m \in Methods, ExecuteStray(i, m) PROVE TypeOK'
  <2>1. ctx' \in [Ids -> {"none", "opening", "ready", "closing", "gone"}]
    BY <1>6, AfterType DEF ExecuteStray
  <2>2. audit' \in {"healthy", "broken"}
    BY <1>6 DEF ExecuteStray, Executes
  <2> QED BY <1>6, <2>1, <2>2 DEF ExecuteStray, openVars
<1> QED BY <1>1, <1>2, <1>3, <1>4, <1>5, <1>6 DEF Close

(* A step of untrust keeps the types.                                      *)
LEMMA UntrustKeepsTypes ==
  ASSUME TypeOK, NEW u \in Untrusts, Untrust(u) \/ \E t \in TrustIds : UntrustWorkspace(u, t)
  PROVE  TypeOK'
<1>1. un \in [Untrusts -> Calls] /\ un[u] \in Calls /\ Bound(u) \subseteq Ids
  BY DEF TypeOK, Bound
<1>2. ASSUME NEW from, NEW q \in Calls, UnStep(u, from, q)
      PROVE  un' \in [Untrusts -> Calls]
  BY <1>1, <1>2 DEF UnStep
<1>3. ASSUME NEW t \in TrustIds, UntrustWorkspace(u, t) PROVE TypeOK'
  <2>1. [un[u] EXCEPT !.pc = "listing", !.tid = t] \in Calls
    BY <1>1 DEF Calls, UnStates, MaybeTrust
  <2> QED BY <1>2, <1>3, <2>1 DEF UntrustWorkspace, UnStep, Untouched, TypeOK, openVars, closeVars
<1>4. CASE UntrustLists(u)
  <2>1. [un[u] EXCEPT !.pc = "listed", !.roots = {r \in Roots : trust[r] = un[u].tid}] \in Calls
    BY <1>1 DEF Calls, UnStates
  <2> QED BY <1>2, <1>4, <2>1 DEF UntrustLists, UnStep, Untouched, TypeOK, openVars, closeVars
<1>5. CASE UntrustBinds(u)
  <2>1. [un[u] EXCEPT !.pc = "auditing", !.bound = Bound(u), !.todo = Bound(u)] \in Calls
    BY <1>1 DEF Calls, UnStates
  <2>2. [un[u] EXCEPT !.pc = "refused"] \in Calls
    BY <1>1 DEF Calls, UnStates, Settled
  <2> QED BY <1>2, <1>5, <2>1, <2>2 DEF UntrustBinds, UnStep, Untouched, TypeOK, openVars, closeVars
<1>6. CASE UntrustDecision(u)
  <2>1. \A s \in UnStates : [un[u] EXCEPT !.pc = s] \in Calls
    BY <1>1 DEF Calls
  <2>2. un' \in [Untrusts -> Calls]
    BY <1>1, <1>6, <2>1 DEF UntrustDecision, UnStep, UnStates, Settled
  <2> QED BY <1>6, <2>2 DEF UntrustDecision, Audits, Executes, UnStep, Untouched, TypeOK, openVars, closeVars
<1>7. CASE UntrustCloses(u)
  <2>1. \A s \in UnStates : [un[u] EXCEPT !.pc = s] \in Calls
    BY <1>1 DEF Calls
  <2>2. un' \in [Untrusts -> Calls]
    BY <1>1, <1>7, <2>1 DEF UntrustCloses, UnStep, UnStates
  <2>3. PICK i \in un[u].todo :
          \/ StartClose(i, u) /\ UNCHANGED closes
          \/ ~ MayClose(i) /\ Untouched /\ UNCHANGED audit /\ UnStep(u, "closing", [un[u] EXCEPT !.pc = "failing"])
    BY <1>7 DEF UntrustCloses
  <2>4. i \in Ids
    BY <1>1, <2>3 DEF Calls
  <2>5. CASE StartClose(i, u) /\ UNCHANGED closes
    BY <2>2, <2>4, <2>5 DEF StartClose, TypeOK, Methods, Live, openVars
  <2>6. CASE Untouched /\ UNCHANGED audit /\ UnStep(u, "closing", [un[u] EXCEPT !.pc = "failing"])
    BY <2>2, <2>6 DEF UnStep, Untouched, TypeOK, openVars, closeVars
  <2> QED BY <2>3, <2>5, <2>6
<1>8. CASE PurgeCheckpoint(u)
  <2>1. \A s \in UnStates : [un[u] EXCEPT !.pc = s] \in Calls
    BY <1>1 DEF Calls
  <2>2. un' \in [Untrusts -> Calls]
    BY <1>1, <1>8, <2>1 DEF PurgeCheckpoint, UnStep, UnStates
  <2> QED BY <1>8, <2>2 DEF PurgeCheckpoint, UnStep, Untouched, TypeOK, openVars, closeVars
<1>9. CASE RemoveTrust(u)
  <2>1. \A s \in UnStates : [un[u] EXCEPT !.pc = s] \in Calls
    BY <1>1 DEF Calls
  <2>2. un' \in [Untrusts -> Calls]
    BY <1>1, <1>9, <2>1 DEF RemoveTrust, UnStep, UnStates
  <2>3. trust' \in [Roots -> MaybeTrust]
    BY <1>9 DEF RemoveTrust, TypeOK, MaybeTrust
  <2> QED BY <1>9, <2>2, <2>3 DEF RemoveTrust, UnStep, TypeOK, openVars, closeVars
<1>10. CASE UntrustOutcome(u)
  <2>1. \A s \in UnStates : [un[u] EXCEPT !.pc = s] \in Calls
    BY <1>1 DEF Calls
  <2>2. un' \in [Untrusts -> Calls]
    BY <1>1, <1>10, <2>1 DEF UntrustOutcome, UnStep, UnStates, Settled
  <2> QED BY <1>10, <2>2 DEF UntrustOutcome, Audits, Executes, UnStep, Untouched, TypeOK, openVars, closeVars
<1> QED BY <1>3, <1>4, <1>5, <1>6, <1>7, <1>8, <1>9, <1>10 DEF Untrust

(* Trusting a root keeps the types.                                        *)
LEMMA TrustKeepsTypes ==
  ASSUME TypeOK, NEW r \in Roots, TrustWorkspace(r)
  PROVE  TypeOK'
BY DEF TrustWorkspace, TypeOK, MaybeTrust, openVars, closeVars

(* Every step keeps the types.                                             *)
LEMMA StepKeepsTypes == TypeOK /\ [Next]_vars => TypeOK'
<1>1. TypeOK /\ UNCHANGED vars => TypeOK'
  BY DEF TypeOK, vars
<1> QED BY <1>1, OpenKeepsTypes, CloseKeepsTypes, UntrustKeepsTypes, TrustKeepsTypes DEF Next

(* Typing of the lifecycle for any workspaces, roots and trust ids.        *)
THEOREM LifecycleTypeCorrect == Safety => []TypeOK
BY InitTypeOK, StepKeepsTypes, PTL DEF Safety

-----------------------------------------------------------------------------
(* The inductive invariant                                                 *)

(* Where an open call stands tells what both sides have of its workspace.  *)
OpenAt(i) ==
  /\ openPc[i] = "idle" => ws[i] = "absent" /\ ctx[i] = "none"
  /\ openPc[i] \in {"inspecting", "trusting", "trusted", "registering"} => ws[i] = "OPENING" /\ ctx[i] = "none"
  /\ openPc[i] \in {"restricting", "activating"} => ws[i] = "OPENING" /\ ctx[i] = "opening"
  /\ openPc[i] = "unregistering" => ws[i] = "failed" /\ (audit = "healthy" => ctx[i] = "opening")
  /\ openPc[i] = "done" => ws[i] \in {"READY", "CLOSING", "closed", "failed"}

(* What a state of the mapping says of the context.                        *)
ShownAt(i) ==
  /\ ws[i] = "READY" => ctx[i] = "ready"
  /\ ws[i] = "closed" => ctx[i] = "gone"
  /\ ws[i] = "failed" /\ openPc[i] = "done" /\ audit = "healthy" => ctx[i] \in {"none", "gone"}

(* Requests of a close, abandoned ones too, are of workspaces that stay    *)
(* CLOSING, and the last one's answer says that the context is gone.       *)
CloseAt(i) ==
  /\ closePc[i] # "none" => ws[i] = "CLOSING"
  /\ closePc[i] = "unregister" /\ reply[i] = "ok" => ctx[i] = "gone"
  /\ \A m \in Methods : <<i, m>> \in stray => ws[i] \in {"CLOSING", "closed"}

WorkspaceInv == \A i \in Ids : OpenAt(i) /\ ShownAt(i) /\ CloseAt(i)

(* The registry's contexts do not overlap.                                 *)
InUse == {"opening", "ready", "closing"}
DisjointInv == \A i, j \in Ids :
  i # j /\ ctx[i] \in InUse /\ ctx[j] \in InUse => <<RootOf[i], RootOf[j]>> \notin Overlap

(* An untrust waits for at most one close, and what it has dealt with is   *)
(* closed.                                                                 *)
UntrustInv ==
  /\ \A i \in Ids : closePc[i] # "none" /\ closeFor[i] # Client => un[closeFor[i]].pc = "waiting"
  /\ \A i, j \in Ids : closePc[i] # "none" /\ closePc[j] # "none" /\ closeFor[i] = closeFor[j] /\ closeFor[i] # Client => i = j
  /\ \A u \in Untrusts :
       /\ un[u].pc = "auditing" => un[u].todo = un[u].bound
       /\ un[u].pc \in {"closing", "waiting", "removing", "succeeding", "ok"} =>
            \A i \in un[u].bound \ un[u].todo : ws[i] = "closed"
       /\ un[u].pc \in {"removing", "succeeding", "ok"} => un[u].todo = {}

IInv == TypeOK /\ WorkspaceInv /\ DisjointInv /\ UntrustInv

(* It holds at the start.                                                  *)
LEMMA InitIInv == Init => IInv
<1>1. Init => WorkspaceInv /\ DisjointInv
  BY DEF Init, WorkspaceInv, OpenAt, ShownAt, CloseAt, DisjointInv, InUse
<1>2. Init => UntrustInv
  BY DEF Init, UntrustInv
<1> QED BY <1>1, <1>2, InitTypeOK DEF IInv

(* What is shown follows from it.                                          *)
LEMMA IInvShows == IInv => SidesAgree
<1> SUFFICES ASSUME IInv PROVE SidesAgree
  OBVIOUS
<1>1. ReadyIsBacked /\ ClosedIsGone /\ FailedOpenLeavesNothing
  BY DEF IInv, WorkspaceInv, ShownAt, ReadyIsBacked, ClosedIsGone, FailedOpenLeavesNothing
<1>2. ReadyRootsAreDisjoint
  BY DEF IInv, WorkspaceInv, ShownAt, DisjointInv, InUse, ReadyRootsAreDisjoint
<1>3. UntrustClosesItsWorkspaces
  BY DEF IInv, UntrustInv, UntrustClosesItsWorkspaces
<1> QED BY <1>1, <1>2, <1>3 DEF SidesAgree

-----------------------------------------------------------------------------
(* Every step preserves it                                                 *)

(* Contexts that come into use are the only ones that could overlap.       *)
LEMMA DisjointStays ==
  ASSUME DisjointInv, \A j \in Ids : ctx'[j] \in InUse => ctx[j] \in InUse
  PROVE  DisjointInv'
BY DEF DisjointInv, InUse

(* A step that is about one workspace keeps the invariant of the others.   *)
LEMMA OthersStay ==
  ASSUME WorkspaceInv, NEW i \in Ids,
         audit' = "healthy" => audit = "healthy",
         \A j \in Ids \ {i} :
           /\ openPc'[j] = openPc[j] /\ ws'[j] = ws[j] /\ ctx'[j] = ctx[j]
           /\ closePc'[j] = closePc[j] /\ reply'[j] = reply[j]
           /\ \A m \in Methods : <<j, m>> \in stray' => <<j, m>> \in stray,
         OpenAt(i)', ShownAt(i)', CloseAt(i)'
  PROVE  WorkspaceInv'
<1> SUFFICES ASSUME NEW j \in Ids \ {i} PROVE OpenAt(j)' /\ ShownAt(j)' /\ CloseAt(j)'
  BY DEF WorkspaceInv
<1>1. OpenAt(j) /\ ShownAt(j) /\ CloseAt(j)
  BY DEF WorkspaceInv
<1>2. OpenAt(j)'
  BY <1>1 DEF OpenAt
<1>3. ShownAt(j)'
  BY <1>1 DEF ShownAt
<1>4. CloseAt(j)'
  BY <1>1 DEF CloseAt
<1> QED BY <1>2, <1>3, <1>4

(* What a step of an open call leaves of its own workspace.                *)
LEMMA OpenStepsAt ==
  ASSUME TypeOK, NEW i \in Ids, OpenAt(i), OpenWorkspace(i) \/ Open(i)
  PROVE  /\ OpenAt(i)' /\ ShownAt(i)'
         /\ ws[i] \notin {"READY", "CLOSING", "closed"}
         /\ ctx'[i] \in InUse /\ ctx[i] \notin InUse => ~ Conflicts(i)
         /\ audit' = "healthy" => audit = "healthy"
<1>1. /\ DOMAIN ctx = Ids /\ DOMAIN ws = Ids /\ DOMAIN openPc = Ids
      /\ audit \in {"healthy", "broken"}
  BY DEF TypeOK
<1> USE DEF OpenAt, ShownAt, InUse
<1>2. CASE OpenWorkspace(i)
  BY <1>1, <1>2 DEF OpenWorkspace, OpenStep
<1>3. CASE Inspected(i)
  BY <1>1, <1>3 DEF Inspected, OpenStep, Forget
<1>4. CASE ReadTrust(i)
  BY <1>1, <1>4 DEF ReadTrust, OpenStep
<1>5. CASE RequireTrusted(i)
  BY <1>1, <1>5 DEF RequireTrusted, OpenStep, Forget
<1>6. CASE Register(i)
  <2>1. PICK done \in BOOLEAN, ok \in BOOLEAN :
          /\ Executes(~ Conflicts(i), done, ok)
          /\ OpenStep(i, "registering", IF ok THEN "restricting" ELSE "done")
          /\ ctx' = IF done THEN [ctx EXCEPT ![i] = "opening"] ELSE ctx
          /\ IF ok THEN UNCHANGED ws ELSE Forget(i)
    BY <1>6 DEF Register
  <2>2. /\ done => ~ Conflicts(i)
        /\ ok => done
        /\ audit' = "healthy" => audit = "healthy" /\ done = ok
    BY <2>1, <1>1 DEF Executes
  <2>3. CASE ok
    BY <1>1, <2>1, <2>2, <2>3 DEF OpenStep
  <2>4. CASE ~ ok
    BY <1>1, <2>1, <2>2, <2>4 DEF OpenStep, Forget
  <2> QED BY <2>3, <2>4
<1>7. CASE Restrict(i)
  <2>1. PICK ok \in BOOLEAN :
          /\ Audits(ok) \/ (~ ok /\ UNCHANGED audit)
          /\ OpenStep(i, "restricting", IF ok THEN "activating" ELSE CleanupPc)
          /\ IF ok THEN UNCHANGED ws ELSE Forget(i)
    BY <1>7 DEF Restrict
  <2>2. ctx' = ctx /\ (audit' = "healthy" => audit = "healthy")
    BY <1>7, <2>1, <1>1 DEF Restrict, Audits, Executes
  <2>3. CASE ok
    BY <1>1, <2>1, <2>2, <2>3 DEF OpenStep
  <2>4. CASE ~ ok
    BY <1>1, <2>1, <2>2, <2>4 DEF OpenStep, Forget, CleanupPc
  <2> QED BY <2>3, <2>4
<1>8. CASE Activate(i)
  <2>1. PICK done \in BOOLEAN, ok \in BOOLEAN :
          /\ Executes(ctx[i] = "opening", done, ok)
          /\ OpenStep(i, "activating", IF ok THEN "done" ELSE CleanupPc)
          /\ ctx' = IF done THEN [ctx EXCEPT ![i] = "ready"] ELSE ctx
          /\ IF ok THEN ws' = [ws EXCEPT ![i] = "READY"] ELSE Forget(i)
    BY <1>8 DEF Activate
  <2>2. /\ ok => done
        /\ audit' = "healthy" => audit = "healthy" /\ done = ok
    BY <2>1, <1>1 DEF Executes
  <2>3. CASE ok
    BY <1>1, <2>1, <2>2, <2>3 DEF OpenStep
  <2>4. CASE ~ ok
    BY <1>1, <2>1, <2>2, <2>4 DEF OpenStep, Forget, CleanupPc
  <2> QED BY <2>3, <2>4
<1>9. CASE UnregisterFailedOpen(i)
  <2>1. PICK done \in BOOLEAN, ok \in BOOLEAN :
          /\ Executes(MayUnregister(i), done, ok)
          /\ ctx' = IF done THEN [ctx EXCEPT ![i] = "gone"] ELSE ctx
    BY <1>9 DEF UnregisterFailedOpen
  <2>2. openPc[i] = "unregistering" /\ openPc'[i] = "done" /\ ws' = ws
    BY <1>1, <1>9 DEF UnregisterFailedOpen, OpenStep
  <2>3. audit' = "healthy" => audit = "healthy" /\ (MayUnregister(i) => done)
    BY <2>1, <1>1 DEF Executes
  <2>4. audit = "healthy" => MayUnregister(i)
    BY <2>2 DEF MayUnregister
  <2> QED BY <1>1, <2>1, <2>2, <2>3, <2>4
<1> QED BY <1>2, <1>3, <1>4, <1>5, <1>6, <1>7, <1>8, <1>9 DEF Open

(* A step of an open call keeps the invariant.                             *)
LEMMA OpenKeepsIInv ==
  ASSUME IInv, NEW i \in Ids, OpenWorkspace(i) \/ Open(i)
  PROVE  IInv'
<1>1. TypeOK /\ OpenAt(i) /\ CloseAt(i) /\ TypeOK'
  BY OpenKeepsTypes DEF IInv, WorkspaceInv
<1>2. /\ OpenAt(i)' /\ ShownAt(i)'
      /\ ws[i] \notin {"READY", "CLOSING", "closed"}
      /\ ctx'[i] \in InUse /\ ctx[i] \notin InUse => ~ Conflicts(i)
      /\ audit' = "healthy" => audit = "healthy"
  BY <1>1, OpenStepsAt
<1>3. /\ closePc' = closePc /\ reply' = reply /\ closeFor' = closeFor /\ stray' = stray /\ un' = un
      /\ \A j \in Ids \ {i} : openPc'[j] = openPc[j] /\ ws'[j] = ws[j] /\ ctx'[j] = ctx[j]
  BY <1>1 DEF OpenWorkspace, Open, Inspected, ReadTrust, RequireTrusted, Register, Restrict, Activate,
     UnregisterFailedOpen, OpenStep, Forget, closeVars, TypeOK
<1>4. CloseAt(i)'
  BY <1>1, <1>2, <1>3 DEF CloseAt
<1>5. WorkspaceInv'
  BY <1>2, <1>3, <1>4, OthersStay DEF IInv
<1>6. DisjointInv'
  <2>1. ASSUME NEW j \in Ids \ {i}, ctx'[i] \in InUse, ctx'[j] \in InUse
        PROVE  <<RootOf[i], RootOf[j]>> \notin Overlap /\ <<RootOf[j], RootOf[i]>> \notin Overlap
    <3>1. RootOf[i] \in Roots /\ RootOf[j] \in Roots
      BY RootOfAssumption
    <3>2. <<RootOf[i], RootOf[j]>> \notin Overlap
      BY <1>2, <1>3, <2>1 DEF IInv, DisjointInv, Conflicts, InUse
    <3> QED BY <3>1, <3>2, OverlapAssumption
  <2> QED BY <1>3, <2>1 DEF IInv, DisjointInv
<1>7. UntrustInv'
  BY <1>2, <1>3 DEF IInv, UntrustInv, TypeOK, Calls
<1> QED BY <1>1, <1>5, <1>6, <1>7 DEF IInv

(* A close begins: its workspace was READY, or is CLOSING still.           *)
LEMMA StartCloseAt ==
  ASSUME TypeOK, WorkspaceInv, DisjointInv, NEW i \in Ids, NEW caller, StartClose(i, caller)
  PROVE  /\ WorkspaceInv' /\ DisjointInv'
         /\ closePc[i] = "none" /\ ws[i] # "closed" /\ ws'[i] = "CLOSING"
         /\ closeFor'[i] = caller /\ closePc'[i] # "none"
         /\ \A j \in Ids \ {i} : ws'[j] = ws[j] /\ closePc'[j] = closePc[j] /\ closeFor'[j] = closeFor[j]
<1>1. /\ DOMAIN ws = Ids /\ DOMAIN closePc = Ids /\ DOMAIN reply = Ids /\ DOMAIN closeFor = Ids
      /\ OpenAt(i) /\ ShownAt(i) /\ CloseAt(i)
  BY DEF TypeOK, WorkspaceInv
<1>2. /\ ws[i] \in {"READY", "CLOSING"} /\ closePc[i] = "none"
      /\ ws' = [ws EXCEPT ![i] = "CLOSING"] /\ closePc' = [closePc EXCEPT ![i] = "begin_close"]
      /\ reply' = [reply EXCEPT ![i] = "none"] /\ closeFor' = [closeFor EXCEPT ![i] = caller]
      /\ ctx' = ctx /\ openPc' = openPc /\ audit' = audit /\ stray' = stray
  BY DEF StartClose, MayClose, openVars
<1>3. OpenAt(i)' /\ ShownAt(i)' /\ CloseAt(i)'
  BY <1>1, <1>2 DEF OpenAt, ShownAt, CloseAt
<1>4. WorkspaceInv'
  <2>1. \A j \in Ids \ {i} :
           /\ openPc'[j] = openPc[j] /\ ws'[j] = ws[j] /\ ctx'[j] = ctx[j]
           /\ closePc'[j] = closePc[j] /\ reply'[j] = reply[j]
           /\ \A m \in Methods : <<j, m>> \in stray' => <<j, m>> \in stray
    BY <1>1, <1>2
  <2> QED BY <1>2, <1>3, <2>1, OthersStay
<1>5. DisjointInv'
  BY <1>2, DisjointStays
<1> QED BY <1>1, <1>2, <1>4, <1>5

(* What a request of a close does to its context, awaited or abandoned.    *)
LEMMA RequestAt ==
  ASSUME TypeOK, WorkspaceInv, DisjointInv, NEW i \in Ids, NEW m \in Methods,
         ws[i] \in {"CLOSING", "closed"},
         NEW done \in BOOLEAN, NEW ok \in BOOLEAN, Executes(Allowed(i, m), done, ok),
         ctx' = IF done THEN After(i, m) ELSE ctx
  PROVE  /\ audit' = "healthy" => audit = "healthy"
         /\ \A j \in Ids \ {i} : ctx'[j] = ctx[j]
         /\ ctx[i] = "gone" => ctx'[i] = "gone"
         /\ ok /\ m = "unregister" => ctx'[i] = "gone"
         /\ DisjointInv'
<1>1. DOMAIN ctx = Ids /\ audit \in {"healthy", "broken"}
  BY DEF TypeOK
<1>2. /\ audit' = "healthy" => audit = "healthy"
      /\ done => Allowed(i, m)
      /\ ok => done
  BY <1>1 DEF Executes
<1>3. m = "begin_close" => After(i, m) = [ctx EXCEPT ![i] = "closing"]
  BY DEF After
<1>4. m = "cancel_executions" => After(i, m) = ctx
  BY DEF After
<1>5. m = "unregister" => After(i, m) = [ctx EXCEPT ![i] = "gone"]
  BY DEF After
<1>6. Allowed(i, m) => ctx[i] \in InUse
  <2>1. m = "begin_close" => (Allowed(i, m) => ctx[i] \in {"ready", "closing"})
    BY DEF Allowed
  <2>2. m = "cancel_executions" => (Allowed(i, m) => ctx[i] = "closing")
    BY DEF Allowed
  <2>3. m = "unregister" => (Allowed(i, m) => ctx[i] \in {"opening", "closing"})
    BY DEF Allowed, MayUnregister
  <2> QED BY <2>1, <2>2, <2>3 DEF Methods, InUse
<1>7. \A j \in Ids \ {i} : ctx'[j] = ctx[j]
  BY <1>1, <1>3, <1>4, <1>5 DEF Methods
<1>8. ctx'[i] \in InUse => ctx[i] \in InUse
  <2>1. CASE done
    BY <1>2, <1>6, <2>1
  <2>2. CASE ~ done
    BY <2>2
  <2> QED BY <2>1, <2>2
<1>9. DisjointInv'
  BY <1>7, <1>8, DisjointStays
<1>10. ctx[i] = "gone" => ctx'[i] = "gone"
  <2>1. ctx[i] = "gone" => ~ done
    BY <1>2, <1>6 DEF InUse
  <2> QED BY <2>1
<1>11. ok /\ m = "unregister" => ctx'[i] = "gone"
  BY <1>1, <1>2, <1>5
<1> QED BY <1>2, <1>7, <1>9, <1>10, <1>11

(* The close of i ends with its workspace closed or still CLOSING: the     *)
(* untrust that waits for it goes on, all others are as they were.         *)
LEMMA ResumeKeepsUntrustInv ==
  ASSUME IInv, NEW i \in Ids, closePc[i] # "none",
         NEW outcome \in {"closed", "incomplete"}, Resume(i, outcome),
         closePc' = [closePc EXCEPT ![i] = "none"], closeFor' = closeFor,
         \A j \in Ids \ {i} : ws'[j] = ws[j],
         outcome = "closed" => ws'[i] = "closed"
  PROVE  UntrustInv'
<1>1. /\ DOMAIN closePc = Ids /\ closeFor[i] \in Untrusts \union {Client}
      /\ un \in [Untrusts -> Calls] /\ ws[i] # "closed"
  BY DEF IInv, TypeOK, WorkspaceInv, CloseAt
<1>2. CASE closeFor[i] = Client
  <2>1. un' = un /\ \A j \in Ids : closePc'[j] # "none" => closePc[j] # "none"
    BY <1>1, <1>2 DEF Resume
  <2>2. ASSUME NEW v \in Untrusts, NEW j \in un[v].bound \ un[v].todo, ws[j] = "closed"
        PROVE  ws'[j] = "closed"
    BY <1>1, <2>2 DEF Calls
  <2> QED BY <2>1, <2>2 DEF IInv, UntrustInv
<1>3. CASE closeFor[i] # Client
  <2> DEFINE u == closeFor[i]
  <2>1. u \in Untrusts /\ un[u].pc = "waiting" /\ un[u] \in Calls
    BY <1>1, <1>3 DEF IInv, UntrustInv
  <2>2. /\ DOMAIN un' = Untrusts
        /\ un'[u].pc = IF outcome = "closed" THEN "closing" ELSE "failing"
        /\ un'[u].todo = un[u].todo \ {i} /\ un'[u].bound = un[u].bound
        /\ \A v \in Untrusts \ {u} : un'[v] = un[v]
    BY <1>1, <1>3, <2>1 DEF Resume, Calls
  <2>3. \A j \in Ids : closePc'[j] # "none" => j # i /\ closePc[j] # "none" /\ closeFor[j] # u
    BY <1>1, <1>3 DEF IInv, UntrustInv
  <2>4. \A j \in Ids : closePc'[j] # "none" /\ closeFor'[j] # Client => un'[closeFor'[j]].pc = "waiting"
    <3> SUFFICES ASSUME NEW j \in Ids, closePc'[j] # "none", closeFor'[j] # Client
                 PROVE  un'[closeFor'[j]].pc = "waiting"
      OBVIOUS
    <3>1. closeFor[j] \in Untrusts
      BY DEF IInv, TypeOK
    <3> QED BY <3>1, <2>2, <2>3 DEF IInv, UntrustInv
  <2>5. ASSUME NEW v \in Untrusts
        PROVE  /\ un'[v].pc = "auditing" => un'[v].todo = un'[v].bound
               /\ un'[v].pc \in {"closing", "waiting", "removing", "succeeding", "ok"} =>
                    \A j \in un'[v].bound \ un'[v].todo : ws'[j] = "closed"
               /\ un'[v].pc \in {"removing", "succeeding", "ok"} => un'[v].todo = {}
    <3>1. un[v].bound \subseteq Ids
      BY <1>1 DEF Calls
    <3>2. CASE v = u
      BY <1>1, <2>1, <2>2, <3>1, <3>2 DEF IInv, UntrustInv
    <3>3. CASE v # u
      BY <1>1, <2>2, <3>1, <3>3 DEF IInv, UntrustInv
    <3> QED BY <3>2, <3>3
  <2>6. \A j, k \in Ids : closePc'[j] # "none" /\ closePc'[k] # "none" /\ closeFor'[j] = closeFor'[k] /\ closeFor'[j] # Client => j = k
    BY <2>3 DEF IInv, UntrustInv
  <2> QED BY <2>4, <2>5, <2>6 DEF UntrustInv
<1> QED BY <1>2, <1>3

(* A step of a close, awaited, abandoned or late, keeps the invariant.     *)
LEMMA CloseKeepsIInv ==
  ASSUME IInv, NEW i \in Ids,
         CloseWorkspace(i) \/ Close(i) \/ CloseIncomplete(i) \/ \E m \in Methods : ExecuteStray(i, m)
  PROVE  IInv'
<1>1. /\ TypeOK' /\ OpenAt(i) /\ ShownAt(i) /\ CloseAt(i)
      /\ DOMAIN ws = Ids /\ DOMAIN closePc = Ids /\ DOMAIN reply = Ids /\ DOMAIN closeFor = Ids
      /\ un \in [Untrusts -> Calls]
  BY CloseKeepsTypes DEF IInv, WorkspaceInv, TypeOK
<1>2. CASE CloseWorkspace(i)
  <2>1. StartClose(i, Client) /\ un' = un
    BY <1>2 DEF CloseWorkspace
  <2>2. /\ WorkspaceInv' /\ DisjointInv'
        /\ closePc[i] = "none" /\ ws[i] # "closed" /\ ws'[i] = "CLOSING"
        /\ closeFor'[i] = Client /\ closePc'[i] # "none"
        /\ \A j \in Ids \ {i} : ws'[j] = ws[j] /\ closePc'[j] = closePc[j] /\ closeFor'[j] = closeFor[j]
    BY <2>1, StartCloseAt DEF IInv
  <2>3. UntrustInv'
    BY <1>1, <2>1, <2>2 DEF IInv, UntrustInv, Calls
  <2> QED BY <1>1, <2>2, <2>3 DEF IInv
<1>3. CASE ExecuteClose(i)
  <2>1. PICK done \in BOOLEAN, ok \in BOOLEAN :
          /\ Executes(Allowed(i, closePc[i]), done, ok)
          /\ ctx' = IF done THEN After(i, closePc[i]) ELSE ctx
          /\ reply' = [reply EXCEPT ![i] = IF ok THEN "ok" ELSE "error"]
    BY <1>3 DEF ExecuteClose
  <2>2. /\ closePc[i] \in Methods /\ ws[i] = "CLOSING"
        /\ ws' = ws /\ openPc' = openPc /\ closePc' = closePc /\ closeFor' = closeFor /\ stray' = stray /\ un' = un
    BY <1>1, <1>3 DEF ExecuteClose, openVars, IInv, TypeOK, CloseAt
  <2>3. /\ audit' = "healthy" => audit = "healthy"
        /\ \A j \in Ids \ {i} : ctx'[j] = ctx[j]
        /\ ok /\ closePc[i] = "unregister" => ctx'[i] = "gone"
        /\ DisjointInv'
    BY <2>1, <2>2, RequestAt DEF IInv
  <2>4. OpenAt(i)' /\ ShownAt(i)' /\ CloseAt(i)'
    BY <1>1, <2>1, <2>2, <2>3 DEF OpenAt, ShownAt, CloseAt
  <2>5. \A j \in Ids \ {i} : reply'[j] = reply[j]
    BY <1>1, <2>1
  <2>6. WorkspaceInv'
    BY <2>2, <2>3, <2>4, <2>5, OthersStay DEF IInv
  <2>7. UntrustInv'
    BY <2>2 DEF IInv, UntrustInv
  <2> QED BY <1>1, <2>3, <2>6, <2>7 DEF IInv
<1>4. CASE CloseAdvances(i)
  <2>1. /\ closePc[i] # "none" /\ closePc'[i] # "none" /\ reply'[i] = "none"
        /\ \A j \in Ids \ {i} : closePc'[j] = closePc[j] /\ reply'[j] = reply[j]
        /\ ws' = ws /\ ctx' = ctx /\ openPc' = openPc /\ audit' = audit
        /\ closeFor' = closeFor /\ stray' = stray /\ un' = un
    BY <1>1, <1>4 DEF CloseAdvances, openVars
  <2>2. OpenAt(i)' /\ ShownAt(i)' /\ CloseAt(i)'
    BY <1>1, <2>1 DEF OpenAt, ShownAt, CloseAt
  <2>3. WorkspaceInv'
    BY <2>1, <2>2, OthersStay DEF IInv
  <2>4. DisjointInv'
    BY <2>1, DisjointStays DEF IInv
  <2>5. UntrustInv'
    BY <2>1 DEF IInv, UntrustInv
  <2> QED BY <1>1, <2>3, <2>4, <2>5 DEF IInv
<1>5. CASE CloseCompletes(i)
  <2>1. /\ closePc[i] = "unregister" /\ reply[i] = "ok"
        /\ ws' = [ws EXCEPT ![i] = "closed"] /\ closePc' = [closePc EXCEPT ![i] = "none"]
        /\ Resume(i, "closed")
        /\ ctx' = ctx /\ openPc' = openPc /\ audit' = audit
        /\ closeFor' = closeFor /\ stray' = stray /\ reply' = reply
    BY <1>5 DEF CloseCompletes, Acknowledged, openVars
  <2>2. /\ ws'[i] = "closed" /\ closePc'[i] = "none"
        /\ \A j \in Ids \ {i} : ws'[j] = ws[j] /\ closePc'[j] = closePc[j]
    BY <1>1, <2>1
  <2>3. OpenAt(i)' /\ ShownAt(i)' /\ CloseAt(i)'
    BY <1>1, <2>1, <2>2 DEF OpenAt, ShownAt, CloseAt
  <2>4. WorkspaceInv'
    BY <2>1, <2>2, <2>3, OthersStay DEF IInv
  <2>5. DisjointInv'
    BY <2>1, DisjointStays DEF IInv
  <2>6. UntrustInv'
    BY <2>1, <2>2, ResumeKeepsUntrustInv
  <2> QED BY <1>1, <2>4, <2>5, <2>6 DEF IInv
<1>6. CASE CloseIncomplete(i)
  <2>1. /\ closePc[i] # "none"
        /\ ws' = ws /\ closePc' = [closePc EXCEPT ![i] = "none"]
        /\ stray' = IF reply[i] = "none" THEN stray \union {<<i, closePc[i]>>} ELSE stray
        /\ Resume(i, "incomplete")
        /\ ctx' = ctx /\ openPc' = openPc /\ audit' = audit
        /\ closeFor' = closeFor /\ reply' = reply
    BY <1>6 DEF CloseIncomplete, Unresolved, openVars
  <2>2. /\ closePc'[i] = "none"
        /\ \A j \in Ids \ {i} : /\ closePc'[j] = closePc[j]
                               /\ \A m \in Methods : <<j, m>> \in stray' => <<j, m>> \in stray
    BY <1>1, <2>1
  <2>3. OpenAt(i)' /\ ShownAt(i)' /\ CloseAt(i)'
    BY <1>1, <2>1, <2>2 DEF OpenAt, ShownAt, CloseAt
  <2>4. WorkspaceInv'
    BY <2>1, <2>2, <2>3, OthersStay DEF IInv
  <2>5. DisjointInv'
    BY <2>1, DisjointStays DEF IInv
  <2>6. UntrustInv'
    BY <2>1, ResumeKeepsUntrustInv
  <2> QED BY <1>1, <2>4, <2>5, <2>6 DEF IInv
<1>7. ASSUME NEW m \in Methods, ExecuteStray(i, m) PROVE IInv'
  <2>1. PICK done \in BOOLEAN, ok \in BOOLEAN :
          /\ Executes(Allowed(i, m), done, ok)
          /\ ctx' = IF done THEN After(i, m) ELSE ctx
    BY <1>7 DEF ExecuteStray
  <2>2. /\ ws[i] \in {"CLOSING", "closed"}
        /\ ws' = ws /\ openPc' = openPc /\ closePc' = closePc /\ closeFor' = closeFor /\ un' = un
        /\ reply' = reply /\ stray' \subseteq stray
    BY <1>1, <1>7 DEF ExecuteStray, openVars, CloseAt
  <2>3. /\ audit' = "healthy" => audit = "healthy"
        /\ \A j \in Ids \ {i} : ctx'[j] = ctx[j]
        /\ ctx[i] = "gone" => ctx'[i] = "gone"
        /\ DisjointInv'
    BY <2>1, <2>2, RequestAt DEF IInv
  <2>4. OpenAt(i)' /\ ShownAt(i)' /\ CloseAt(i)'
    BY <1>1, <2>2, <2>3 DEF OpenAt, ShownAt, CloseAt
  <2>5. WorkspaceInv'
    BY <2>2, <2>3, <2>4, OthersStay DEF IInv
  <2>6. UntrustInv'
    BY <2>2 DEF IInv, UntrustInv
  <2> QED BY <1>1, <2>3, <2>5, <2>6 DEF IInv
<1> QED BY <1>2, <1>3, <1>4, <1>5, <1>6, <1>7 DEF Close

(* A step of untrust that only moves its call along: what it promises for  *)
(* the bound workspaces has to hold of the call it becomes.                *)
LEMMA UnStepKeepsUntrustInv ==
  ASSUME IInv, NEW u \in Untrusts, NEW from, from # "waiting", NEW c \in Calls, UnStep(u, from, c),
         closePc' = closePc, closeFor' = closeFor, ws' = ws,
         c.pc # "waiting",
         c.pc = "auditing" => c.todo = c.bound,
         c.pc \in {"closing", "removing", "succeeding", "ok"} =>
           \A i \in c.bound \ c.todo : ws[i] = "closed",
         c.pc \in {"removing", "succeeding", "ok"} => c.todo = {}
  PROVE  UntrustInv'
<1>1. /\ un \in [Untrusts -> Calls] /\ un[u].pc = from /\ un' = [un EXCEPT ![u] = c]
  BY DEF IInv, TypeOK, UnStep
<1>2. un'[u] = c /\ \A v \in Untrusts \ {u} : un'[v] = un[v]
  BY <1>1
<1>3. \A i \in Ids : closePc'[i] # "none" /\ closeFor'[i] # Client => un'[closeFor'[i]].pc = "waiting"
  <2> SUFFICES ASSUME NEW i \in Ids, closePc[i] # "none", closeFor[i] # Client
               PROVE  un'[closeFor[i]].pc = "waiting"
    OBVIOUS
  <2>1. closeFor[i] \in Untrusts /\ un[closeFor[i]].pc = "waiting"
    BY DEF IInv, TypeOK, UntrustInv
  <2> QED BY <1>1, <1>2, <2>1
<1>4. ASSUME NEW v \in Untrusts
      PROVE  /\ un'[v].pc = "auditing" => un'[v].todo = un'[v].bound
             /\ un'[v].pc \in {"closing", "waiting", "removing", "succeeding", "ok"} =>
                  \A j \in un'[v].bound \ un'[v].todo : ws'[j] = "closed"
             /\ un'[v].pc \in {"removing", "succeeding", "ok"} => un'[v].todo = {}
  <2>1. CASE v = u
    BY <1>2, <2>1
  <2>2. CASE v # u
    BY <1>2, <2>2 DEF IInv, UntrustInv
  <2> QED BY <2>1, <2>2
<1> QED BY <1>3, <1>4 DEF IInv, UntrustInv

(* Nothing of a workspace changes: its part of the invariant stays.        *)
LEMMA WorkspacesStay ==
  ASSUME IInv, openPc' = openPc, ctx' = ctx, ws' = ws, closePc' = closePc, reply' = reply, stray' = stray,
         audit' = "healthy" => audit = "healthy"
  PROVE  WorkspaceInv' /\ DisjointInv'
<1>1. DisjointInv'
  BY DisjointStays DEF IInv
<1>2. \A i \in Ids : OpenAt(i)' /\ ShownAt(i)' /\ CloseAt(i)'
  BY DEF IInv, WorkspaceInv, OpenAt, ShownAt, CloseAt
<1> QED BY <1>1, <1>2 DEF WorkspaceInv

(* A step of untrust keeps the invariant.                                  *)
LEMMA UntrustKeepsIInv ==
  ASSUME IInv, NEW u \in Untrusts, Untrust(u) \/ \E t \in TrustIds : UntrustWorkspace(u, t)
  PROVE  IInv'
<1>1. TypeOK' /\ un[u] \in Calls /\ Bound(u) \subseteq Ids /\ un \in [Untrusts -> Calls] /\ audit \in {"healthy", "broken"}
  BY UntrustKeepsTypes DEF IInv, TypeOK, Bound
<1>2. /\ un[u].pc = "auditing" => un[u].todo = un[u].bound
      /\ un[u].pc \in {"closing", "removing", "succeeding"} => \A i \in un[u].bound \ un[u].todo : ws[i] = "closed"
      /\ un[u].pc \in {"removing", "succeeding"} => un[u].todo = {}
  BY DEF IInv, UntrustInv
<1>3. ASSUME NEW from, NEW c, UnStep(u, from, c), from # "waiting", c \in Calls,
             closePc' = closePc, closeFor' = closeFor, ws' = ws, reply' = reply, stray' = stray,
             audit' = "healthy" => audit = "healthy",
             c.pc # "waiting",
             c.pc = "auditing" => c.todo = c.bound,
             c.pc \in {"closing", "removing", "succeeding", "ok"} =>
               \A i \in c.bound \ c.todo : ws[i] = "closed",
             c.pc \in {"removing", "succeeding", "ok"} => c.todo = {}
      PROVE  IInv'
  <2>1. UntrustInv'
    BY <1>3, UnStepKeepsUntrustInv
  <2>2. openPc' = openPc /\ ctx' = ctx
    BY <1>3 DEF UnStep, openVars
  <2> QED BY <1>1, <1>3, <2>1, <2>2, WorkspacesStay DEF IInv
<1>4. Untouched => closePc' = closePc /\ closeFor' = closeFor /\ ws' = ws /\ reply' = reply /\ stray' = stray
  BY DEF Untouched, closeVars
<1>5. \A ok \in BOOLEAN : Audits(ok) => (audit' = "healthy" => audit = "healthy")
  BY <1>1 DEF Audits, Executes
<1>6. \A s \in UnStates : /\ [un[u] EXCEPT !.pc = s] \in Calls
                         /\ [un[u] EXCEPT !.pc = s].pc = s
                         /\ [un[u] EXCEPT !.pc = s].todo = un[u].todo
                         /\ [un[u] EXCEPT !.pc = s].bound = un[u].bound
  BY <1>1 DEF Calls
<1>7. ASSUME NEW t \in TrustIds, UntrustWorkspace(u, t) PROVE IInv'
  <2> DEFINE c == [un[u] EXCEPT !.pc = "listing", !.tid = t]
  <2>1. c \in Calls /\ c.pc = "listing"
    BY <1>1 DEF Calls, UnStates, MaybeTrust
  <2> HIDE DEF c
  <2>2. UnStep(u, "idle", c) /\ Untouched /\ audit' = audit
    BY <1>7 DEF UntrustWorkspace, c
  <2> QED BY <1>3, <1>4, <2>1, <2>2
<1>8. CASE UntrustLists(u)
  <2> DEFINE c == [un[u] EXCEPT !.pc = "listed", !.roots = {r \in Roots : trust[r] = un[u].tid}]
  <2>1. c \in Calls /\ c.pc = "listed"
    BY <1>1 DEF Calls, UnStates
  <2> HIDE DEF c
  <2>2. UnStep(u, "listing", c) /\ Untouched /\ audit' = audit
    BY <1>8 DEF UntrustLists, c
  <2> QED BY <1>3, <1>4, <2>1, <2>2
<1>9. CASE UntrustBinds(u)
  <2> DEFINE c == [un[u] EXCEPT !.pc = "auditing", !.bound = Bound(u), !.todo = Bound(u)]
             d == [un[u] EXCEPT !.pc = "refused"]
  <2>1. c \in Calls /\ c.pc = "auditing" /\ c.todo = c.bound
    BY <1>1 DEF Calls, UnStates
  <2>2. d \in Calls /\ d.pc = "refused"
    BY <1>1 DEF Calls, UnStates, Settled
  <2>3. (UnStep(u, "listed", c) \/ UnStep(u, "listed", d)) /\ Untouched /\ audit' = audit
    BY <1>9 DEF UntrustBinds
  <2> HIDE DEF c, d
  <2> QED BY <1>3, <1>4, <2>1, <2>2, <2>3
<1>10. CASE UntrustDecision(u)
  <2>1. PICK ok \in BOOLEAN : Audits(ok) /\ UnStep(u, "auditing", [un[u] EXCEPT !.pc = IF ok THEN "closing" ELSE "error"])
    BY <1>10 DEF UntrustDecision
  <2> DEFINE s == IF ok THEN "closing" ELSE "error"
             c == [un[u] EXCEPT !.pc = s]
  <2>2. s \in UnStates /\ s \in {"closing", "error"}
    BY DEF UnStates, Settled
  <2> HIDE DEF s
  <2>3. c \in Calls /\ c.pc = s /\ c.todo = un[u].todo /\ c.bound = un[u].bound
    BY <1>6, <2>2
  <2>4. UnStep(u, "auditing", c) /\ Untouched /\ un[u].pc = "auditing"
    BY <1>10, <2>1 DEF UntrustDecision, UnStep, s
  <2> HIDE DEF c
  <2> QED BY <1>2, <1>3, <1>4, <1>5, <2>1, <2>2, <2>3, <2>4
<1>11. CASE UntrustCloses(u)
  <2>1. un[u].pc = "closing"
    BY <1>11 DEF UntrustCloses
  <2>2. PICK i \in un[u].todo :
          \/ StartClose(i, u) /\ UNCHANGED closes /\ un' = [un EXCEPT ![u].pc = "waiting"]
          \/ Untouched /\ UNCHANGED audit /\ UnStep(u, "closing", [un[u] EXCEPT !.pc = "failing"])
    BY <1>11 DEF UntrustCloses
  <2>3. i \in Ids
    BY <1>1, <2>2 DEF Calls
  <2>4. CASE StartClose(i, u) /\ un' = [un EXCEPT ![u].pc = "waiting"]
    <3>1. /\ WorkspaceInv' /\ DisjointInv'
          /\ closePc[i] = "none" /\ ws[i] # "closed" /\ ws'[i] = "CLOSING"
          /\ closeFor'[i] = u /\ closePc'[i] # "none"
          /\ \A j \in Ids \ {i} : ws'[j] = ws[j] /\ closePc'[j] = closePc[j] /\ closeFor'[j] = closeFor[j]
      BY <2>3, <2>4, StartCloseAt DEF IInv
    <3>2. /\ un'[u].pc = "waiting" /\ un'[u].todo = un[u].todo /\ un'[u].bound = un[u].bound
          /\ \A v \in Untrusts \ {u} : un'[v] = un[v]
      BY <1>1, <2>4 DEF Calls
    <3>3. \A j \in Ids \ {i} : closePc[j] # "none" => closeFor[j] # u
      BY <2>1, SentinelAssumption DEF IInv, UntrustInv
    <3>4. \A j \in Ids : closePc'[j] # "none" /\ closeFor'[j] # Client => un'[closeFor'[j]].pc = "waiting"
      <4> SUFFICES ASSUME NEW j \in Ids, closePc'[j] # "none", closeFor'[j] # Client
                   PROVE  un'[closeFor'[j]].pc = "waiting"
        OBVIOUS
      <4>1. CASE j = i
        BY <3>1, <3>2, <4>1
      <4>2. CASE j # i
        <5>1. closeFor[j] \in Untrusts /\ closeFor'[j] = closeFor[j] /\ closePc[j] # "none"
          BY <3>1, <4>2 DEF IInv, TypeOK
        <5> QED BY <3>2, <3>3, <4>2, <5>1 DEF IInv, UntrustInv
      <4> QED BY <4>1, <4>2
    <3>5. \A j, k \in Ids : closePc'[j] # "none" /\ closePc'[k] # "none" /\ closeFor'[j] = closeFor'[k] /\ closeFor'[j] # Client => j = k
      BY <3>1, <3>3 DEF IInv, UntrustInv
    <3>6. ASSUME NEW v \in Untrusts
          PROVE  /\ un'[v].pc = "auditing" => un'[v].todo = un'[v].bound
                 /\ un'[v].pc \in {"closing", "waiting", "removing", "succeeding", "ok"} =>
                      \A j \in un'[v].bound \ un'[v].todo : ws'[j] = "closed"
                 /\ un'[v].pc \in {"removing", "succeeding", "ok"} => un'[v].todo = {}
      <4>1. un[v].bound \subseteq Ids
        BY <1>1 DEF Calls
      <4>2. CASE v = u
        BY <1>2, <2>1, <3>1, <3>2, <4>1, <4>2
      <4>3. CASE v # u
        BY <3>1, <3>2, <4>1, <4>3 DEF IInv, UntrustInv
      <4> QED BY <4>2, <4>3
    <3>7. UntrustInv'
      BY <3>4, <3>5, <3>6 DEF UntrustInv
    <3> QED BY <1>1, <3>1, <3>7 DEF IInv
  <2>5. CASE Untouched /\ UNCHANGED audit /\ UnStep(u, "closing", [un[u] EXCEPT !.pc = "failing"])
    <3> DEFINE c == [un[u] EXCEPT !.pc = "failing"]
    <3>1. c \in Calls /\ c.pc = "failing"
      BY <1>1 DEF Calls, UnStates
    <3>2. UnStep(u, "closing", c) /\ Untouched /\ audit' = audit
      BY <2>5
    <3> HIDE DEF c
    <3> QED BY <1>3, <1>4, <3>1, <3>2
  <2> QED BY <2>2, <2>4, <2>5
<1>12. CASE PurgeCheckpoint(u)
  <2>1. PICK to \in {"removing", "failing"} : UnStep(u, "closing", [un[u] EXCEPT !.pc = to])
    BY <1>12 DEF PurgeCheckpoint
  <2> DEFINE c == [un[u] EXCEPT !.pc = to]
  <2>2. c \in Calls /\ c.pc = to /\ c.todo = un[u].todo /\ c.bound = un[u].bound
    <3>1. to \in UnStates
      BY DEF UnStates
    <3> QED BY <1>6, <3>1
  <2>3. UnStep(u, "closing", c) /\ Untouched /\ audit' = audit /\ un[u].pc = "closing" /\ un[u].todo = {}
    BY <1>12, <2>1 DEF PurgeCheckpoint, MayRemove, NothingLeft, UnStep
  <2> HIDE DEF c
  <2> QED BY <1>2, <1>3, <1>4, <2>2, <2>3
<1>13. CASE RemoveTrust(u)
  <2>1. PICK to \in {"succeeding", "failing"} : UnStep(u, "removing", [un[u] EXCEPT !.pc = to])
    BY <1>13 DEF RemoveTrust
  <2> DEFINE c == [un[u] EXCEPT !.pc = to]
  <2>2. c \in Calls /\ c.pc = to /\ c.todo = un[u].todo /\ c.bound = un[u].bound
    <3>1. to \in UnStates
      BY DEF UnStates
    <3> QED BY <1>6, <3>1
  <2>3. /\ UnStep(u, "removing", c) /\ un[u].pc = "removing" /\ audit' = audit /\ ws' = ws
        /\ closePc' = closePc /\ closeFor' = closeFor /\ reply' = reply /\ stray' = stray
    BY <1>13, <2>1 DEF RemoveTrust, UnStep, closeVars
  <2> HIDE DEF c
  <2> QED BY <1>2, <1>3, <2>2, <2>3
<1>14. CASE UntrustOutcome(u)
  <2>1. PICK ok \in BOOLEAN :
          /\ Audits(ok)
          /\ \/ UnStep(u, "succeeding", [un[u] EXCEPT !.pc = IF ok THEN "ok" ELSE "error"])
             \/ UnStep(u, "failing", [un[u] EXCEPT !.pc = "error"])
    BY <1>14 DEF UntrustOutcome
  <2>2. Untouched
    BY <1>14 DEF UntrustOutcome
  <2> DEFINE s == IF ok THEN "ok" ELSE "error"
             c == [un[u] EXCEPT !.pc = s]
             d == [un[u] EXCEPT !.pc = "error"]
  <2>3. s \in UnStates /\ "error" \in UnStates /\ s \in {"ok", "error"}
    BY DEF UnStates, Settled
  <2>4. (UnStep(u, "succeeding", c) /\ un[u].pc = "succeeding") \/ UnStep(u, "failing", d)
    BY <2>1 DEF UnStep
  <2> HIDE DEF s
  <2>5. c \in Calls /\ c.pc = s /\ c.todo = un[u].todo /\ c.bound = un[u].bound
    BY <1>6, <2>3
  <2>6. d \in Calls /\ d.pc = "error"
    BY <1>6, <2>3
  <2> HIDE DEF c, d
  <2>7. CASE UnStep(u, "succeeding", c) /\ un[u].pc = "succeeding"
    BY <1>2, <1>3, <1>4, <1>5, <2>1, <2>2, <2>3, <2>5, <2>7
  <2>8. CASE UnStep(u, "failing", d)
    BY <1>3, <1>4, <1>5, <2>1, <2>2, <2>6, <2>8
  <2> QED BY <2>4, <2>7, <2>8
<1> QED BY <1>7, <1>8, <1>9, <1>10, <1>11, <1>12, <1>13, <1>14 DEF Untrust

(* Every step of the two sides keeps the invariant.                        *)
LEMMA StepKeepsIInv == IInv /\ [Next]_vars => IInv'
<1> SUFFICES ASSUME IInv, [Next]_vars PROVE IInv'
  OBVIOUS
<1>1. ASSUME NEW r \in Roots, TrustWorkspace(r) PROVE IInv'
  <2>1. TypeOK'
    BY <1>1, TrustKeepsTypes DEF IInv
  <2>2. UntrustInv'
    BY <1>1 DEF TrustWorkspace, closeVars, IInv, UntrustInv
  <2> QED BY <1>1, <2>1, <2>2, WorkspacesStay DEF TrustWorkspace, openVars, closeVars, IInv
<1>2. CASE UNCHANGED vars
  <2>1. TypeOK'
    BY <1>2, StepKeepsTypes DEF IInv
  <2>2. UntrustInv'
    BY <1>2 DEF vars, IInv, UntrustInv
  <2> QED BY <1>2, <2>1, <2>2, WorkspacesStay DEF vars, IInv
<1> QED BY <1>1, <1>2, OpenKeepsIInv, CloseKeepsIInv, UntrustKeepsIInv DEF Next

(* What the server shows of a workspace is what the runtime holds of it:   *)
(* ready ones are backed and disjoint, closed ones gone, failed opens      *)
(* leave nothing, and an untrust has closed what it found bound, however   *)
(* many calls interleave and whichever requests are abandoned at their     *)
(* deadline and executed later (workspace-manager.ts openWorkspace,        *)
(* closeWorkspace, untrust; registry.rs).                                  *)
THEOREM BothSidesAgree == Safety => []SidesAgree
BY InitIInv, StepKeepsIInv, IInvShows, PTL DEF Safety
=============================================================================
