----------------------- MODULE WorkspacePolicyProofs -----------------------
(***************************************************************************)
(* Proofs about WorkspacePolicy: the comparison of two policies is an      *)
(* order, and a policy below a preset authorises no more than the preset.  *)
(* Executables, environment variables and workspaces are arbitrary sets.   *)
(***************************************************************************)
EXTENDS WorkspacePolicy, TLAPS

(* A preset is a policy, with one of the two network modes the sandbox can *)
(* provide.                                                                *)
LEMMA PresetIsPolicy ==
  ASSUME NEW name \in Names
  PROVE  /\ Preset(name) \in Policies
         /\ Preset(name).network \in {"deny", "unrestricted"}
  BY PresetAssumption DEF Preset, Policies, Names, Networks

(* A policy restricts itself, and a restriction of a restriction is one of *)
(* the first policy too.                                                   *)
LEMMA EscalationIsIrreflexive ==
  ASSUME NEW p \in Policies
  PROVE  ~ RuntimeEscalates(p, p)
  BY DEF RuntimeEscalates, Policies, ProfileRank, NetworkRank, Names, Networks

LEMMA RestrictionIsTransitive ==
  ASSUME NEW p \in Policies, NEW q \in Policies, NEW r \in Policies,
         ~ RuntimeEscalates(p, q), ~ RuntimeEscalates(q, r)
  PROVE  ~ RuntimeEscalates(p, r)
<1>1. ProfileRank(r.name) <= ProfileRank(p.name)
  BY DEF RuntimeEscalates, Policies, ProfileRank, Names
<1>2. NetworkRank(r.network) <= NetworkRank(p.network)
  BY DEF RuntimeEscalates, Policies, NetworkRank, Networks
<1>3. /\ r.allowedExecutableNames \subseteq p.allowedExecutableNames
      /\ r.envAllowlist \subseteq p.envAllowlist
  BY DEF RuntimeEscalates
<1>4. /\ r.allowWrite => p.allowWrite
      /\ r.allowProcess => p.allowProcess
      /\ r.allowDynamicExecutables => p.allowDynamicExecutables
  BY DEF RuntimeEscalates
<1>5. ProfileRank(r.name) \in Nat /\ ProfileRank(p.name) \in Nat
  BY DEF ProfileRank, Policies, Names
<1>6. NetworkRank(r.network) \in Nat /\ NetworkRank(p.network) \in Nat
  BY DEF NetworkRank, Policies, Networks
<1>. QED BY <1>1, <1>2, <1>3, <1>4, <1>5, <1>6 DEF RuntimeEscalates

(* A policy the runtime accepts as a restriction authorises no more than   *)
(* the one it restricts, provided that one names a network mode the        *)
(* sandbox can provide: below "localhost", which it refuses, "deny" lets   *)
(* processes run again.                                                    *)
LEMMA RestrictionAuthorisesNoMore ==
  ASSUME NEW q \in Policies, NEW p \in Policies,
         q.network \in {"deny", "unrestricted"},
         ~ RuntimeEscalates(q, p)
  PROVE  NoMore(p, q)
<1>1. p.name # "observe" => q.name # "observe"
  BY DEF RuntimeEscalates, Policies, ProfileRank, Names
<1>2. p.name = "trusted" => q.name = "trusted"
  BY DEF RuntimeEscalates, Policies, ProfileRank, Names
<1>3. p.network = "unrestricted" => q.network = "unrestricted"
  BY DEF RuntimeEscalates, Policies, NetworkRank, Networks
<1>4. /\ p.allowWrite => q.allowWrite
      /\ p.allowProcess => q.allowProcess
      /\ p.allowDynamicExecutables => q.allowDynamicExecutables
      /\ p.allowedExecutableNames \subseteq q.allowedExecutableNames
      /\ p.envAllowlist \subseteq q.envAllowlist
  BY DEF RuntimeEscalates
<1>5. Writes(p) => Writes(q)
  BY <1>1, <1>4 DEF Writes
<1>6. GitLocal(p) => GitLocal(q)
  BY <1>2, <1>4 DEF GitLocal
<1>7. GitRemote(p) => GitRemote(q)
  BY <1>3, <1>6 DEF GitRemote
<1>8. ASSUME NEW e \in Executables, Runs(p, e)
      PROVE  Runs(q, e)
  BY <1>1, <1>4, <1>8 DEF Runs, Admits
<1>9. ASSUME NEW e \in Executables
      PROVE  /\ ReachesNet(p, e) => ReachesNet(q, e)
             /\ SeesGit(p, e) => SeesGit(q, e)
             /\ WritesGit(p, e) => WritesGit(q, e)
             /\ \A v \in Variables : Passes(p, e, v) => Passes(q, e, v)
  BY <1>2, <1>3, <1>4, <1>8 DEF ReachesNet, SeesGit, WritesGit, Passes
<1>. QED BY <1>5, <1>6, <1>7, <1>8, <1>9 DEF NoMore

-----------------------------------------------------------------------------
(* What both specifications keep: a registered policy restricts the preset *)
(* of the ceiling its open call read.                                      *)
Below ==
  \A c \in Caps : phase[c] \in {"opening", "ready"} =>
    ~ RuntimeEscalates(Preset(found[c]), effective[c])

Registered == \A c \in Caps : pc[c] \in {"idle", "registering"} => phase[c] = "none"

IInv == TypeOK /\ Below /\ Registered

LEMMA InitIInv == Init => IInv
<1>. SUFFICES ASSUME Init PROVE IInv
  OBVIOUS
<1>1. "observe" \in Names
  BY DEF Names
<1>2. TypeOK
  BY <1>1, PresetIsPolicy DEF Init, TypeOK, PcStates
<1>. QED BY <1>2 DEF Init, IInv, Below, Registered

(* One step of the actions the two specifications share.                   *)
Common == (\E name \in Names : TrustWorkspace(name))
          \/ \E c \in Caps : RequireTrusted(c) \/ Register(c)

LEMMA CommonStep ==
  ASSUME IInv, Common
  PROVE  IInv'
<1>. USE DEF IInv
<1>1. ASSUME NEW name \in Names, TrustWorkspace(name) PROVE IInv'
  BY <1>1 DEF TrustWorkspace, TypeOK, Below, Registered
<1>2. ASSUME NEW c \in Caps, RequireTrusted(c) PROVE IInv'
  <2>1. TypeOK'
    BY <1>2 DEF RequireTrusted, Goto, TypeOK, PcStates
  <2>2. phase[c] = "none" /\ phase' = phase /\ effective' = effective
    BY <1>2 DEF RequireTrusted, Goto, Registered
  <2>3. \A d \in Caps : d # c => found'[d] = found[d] /\ pc'[d] = pc[d]
    BY <1>2 DEF RequireTrusted, Goto, TypeOK
  <2>4. Below' /\ Registered'
    BY <2>2, <2>3 DEF Below, Registered
  <2>. QED BY <2>1, <2>4
<1>3. ASSUME NEW c \in Caps, Register(c) PROVE IInv'
  <2>1. found[c] \in Names
    BY DEF TypeOK
  <2>2. TypeOK'
    BY <1>3, <2>1, PresetIsPolicy DEF Register, Goto, TypeOK, PcStates
  <2>3. /\ effective'[c] = Preset(found[c]) /\ found' = found
        /\ pc'[c] = "reading"
    BY <1>3 DEF Register, Goto, TypeOK
  <2>4. ~ RuntimeEscalates(Preset(found'[c]), effective'[c])
    BY <2>1, <2>3, PresetIsPolicy, EscalationIsIrreflexive
  <2>5. \A d \in Caps : d # c =>
          phase'[d] = phase[d] /\ effective'[d] = effective[d] /\ pc'[d] = pc[d]
    BY <1>3 DEF Register, Goto, TypeOK
  <2>6. Below'
    BY <2>3, <2>4, <2>5 DEF Below
  <2>7. Registered'
    BY <2>3, <2>5 DEF Registered
  <2>. QED BY <2>2, <2>6, <2>7
<1>. QED BY <1>1, <1>2, <1>3 DEF Common

(* A stored restriction the runtime accepted stays below the preset.       *)
LEMMA StoredIsBelow ==
  ASSUME TypeOK, Below, NEW c \in Caps, NEW r \in Policies,
         phase[c] = "opening", ~ RuntimeEscalates(effective[c], r),
         effective' = Stored(c, r), phase' = phase, found' = found
  PROVE  Below'
<1>1. Preset(found[c]) \in Policies
  BY PresetIsPolicy DEF TypeOK
<1>2. effective[c] \in Policies /\ ~ RuntimeEscalates(Preset(found[c]), effective[c])
  BY DEF TypeOK, Below
<1>3. ~ RuntimeEscalates(Preset(found[c]), r)
  BY <1>1, <1>2, RestrictionIsTransitive
<1>4. \A d \in Caps : effective'[d] = IF d = c THEN r ELSE effective[d]
  BY DEF Stored, TypeOK
<1>. QED BY <1>3, <1>4 DEF Below

(* Every policy below a preset authorises no more than the preset.         *)
LEMMA BelowIsWithin ==
  ASSUME IInv
  PROVE  AuthorityWithinCeiling
<1>. SUFFICES ASSUME NEW c \in Caps, phase[c] \in {"opening", "ready"}
              PROVE  NoMore(effective[c], Preset(found[c]))
  BY DEF AuthorityWithinCeiling
<1>1. /\ Preset(found[c]) \in Policies
      /\ Preset(found[c]).network \in {"deny", "unrestricted"}
      /\ effective[c] \in Policies
  BY PresetIsPolicy DEF IInv, TypeOK
<1>2. ~ RuntimeEscalates(Preset(found[c]), effective[c])
  BY DEF IInv, Below
<1>. QED BY <1>1, <1>2, RestrictionAuthorisesNoMore

-----------------------------------------------------------------------------
(* The runtime alone                                                       *)

LEMMA UncheckedStep ==
  ASSUME IInv, NEW c \in Caps, Unchecked(c)
  PROVE  IInv'
<1>1. ASSUME Bypass(c) PROVE IInv'
  <2>1. TypeOK'
    BY <1>1 DEF Bypass, Goto, IInv, TypeOK, PcStates
  <2>2. Below' /\ Registered'
    BY <1>1 DEF Bypass, Goto, IInv, TypeOK, Below, Registered
  <2>. QED BY <2>1, <2>2 DEF IInv
<1>2. ASSUME ActivateUnchecked(c) PROVE IInv'
  <2>1. TypeOK'
    BY <1>2 DEF ActivateUnchecked, IInv, TypeOK
  <2>2. Below' /\ Registered'
    BY <1>2 DEF ActivateUnchecked, IInv, TypeOK, Below, Registered
  <2>. QED BY <2>1, <2>2 DEF IInv
<1>3. ASSUME NEW r \in Policies, RestrictUnchecked(c, r) PROVE IInv'
  <2>1. TypeOK' /\ Registered'
    BY <1>3 DEF RestrictUnchecked, Stored, IInv, TypeOK, Registered
  <2>2. Below'
    BY <1>3, StoredIsBelow DEF RestrictUnchecked, MayRestrict, IInv
  <2>. QED BY <2>1, <2>2 DEF IInv
<1>. QED BY <1>1, <1>2, <1>3 DEF Unchecked

-----------------------------------------------------------------------------
(* The server and the runtime together                                     *)

(* What the server knows about the runtime's policy between two requests.  *)
Resolved ==
  \A c \in Caps :
    /\ pc[c] \in {"reading", "restricting"} => effective[c] = Preset(found[c])
    /\ pc[c] = "restricting" => ~ RuntimeEscalates(Preset(found[c]), profile[c])
    /\ pc[c] \in {"activating", "ready"} => profile[c] = effective[c]
    /\ pc[c] # "refused"

LEMMA ManagedInductive ==
  ASSUME IInv, Resolved, [Next]_vars
  PROVE  IInv' /\ Resolved'
<1>1. ASSUME NEW name \in Names, TrustWorkspace(name) PROVE IInv' /\ Resolved'
  BY <1>1, CommonStep DEF Common, TrustWorkspace, Resolved
<1>2. ASSUME NEW c \in Caps, RequireTrusted(c) PROVE IInv' /\ Resolved'
  <2>1. IInv'
    BY <1>2, CommonStep DEF Common
  <2>2. Resolved'
    BY <1>2 DEF RequireTrusted, Goto, Resolved, IInv, TypeOK
  <2>. QED BY <2>1, <2>2
<1>3. ASSUME NEW c \in Caps, Register(c) PROVE IInv' /\ Resolved'
  <2>1. IInv'
    BY <1>3, CommonStep DEF Common
  <2>2. Resolved'
    BY <1>3 DEF Register, Goto, Resolved, IInv, TypeOK
  <2>. QED BY <2>1, <2>2
<1>4. ASSUME NEW c \in Caps, ReadProjectProfile(c) PROVE IInv' /\ Resolved'
  <2>. PICK r \in Policies : /\ ~ ManagerEscalates(Preset(found[c]), r)
                             /\ profile' = [profile EXCEPT ![c] = r]
    BY <1>4 DEF ReadProjectProfile
  <2>1. TypeOK'
    BY <1>4 DEF ReadProjectProfile, Goto, IInv, TypeOK, PcStates
  <2>2. Below' /\ Registered'
    BY <1>4 DEF ReadProjectProfile, Goto, IInv, TypeOK, Below, Registered
  <2>3. ~ RuntimeEscalates(Preset(found[c]), r)
    BY DEF ManagerEscalates, RuntimeEscalates
  <2>4. Resolved'
    BY <1>4, <2>3 DEF ReadProjectProfile, Goto, Resolved, IInv, TypeOK
  <2>. QED BY <2>1, <2>2, <2>4 DEF IInv
<1>5. ASSUME NEW c \in Caps, RestrictPolicy(c) PROVE IInv' /\ Resolved'
  <2>1. pc[c] = "restricting"
    BY <1>5 DEF RestrictPolicy, Goto
  <2>2. ~ RuntimeEscalates(effective[c], profile[c])
    BY <2>1 DEF Resolved
  <2>3. /\ pc' = [pc EXCEPT ![c] = "activating"] /\ effective' = Stored(c, profile[c])
        /\ phase[c] = "opening" /\ phase' = phase
        /\ UNCHANGED <<ceiling, found, profile>>
    BY <1>5, <2>2 DEF RestrictPolicy, Goto, MayRestrict
  <2>4. profile[c] \in Policies
    BY DEF IInv, TypeOK
  <2>5. TypeOK' /\ Registered'
    BY <2>3, <2>4 DEF Stored, IInv, TypeOK, PcStates, Registered
  <2>6. Below'
    BY <2>2, <2>3, <2>4, StoredIsBelow DEF IInv
  <2>7. Resolved'
    BY <2>3 DEF Stored, Resolved, IInv, TypeOK
  <2>. QED BY <2>5, <2>6, <2>7 DEF IInv
<1>6. ASSUME NEW c \in Caps, Activate(c) PROVE IInv' /\ Resolved'
  <2>1. TypeOK'
    BY <1>6 DEF Activate, Goto, IInv, TypeOK, PcStates
  <2>2. Below' /\ Registered'
    BY <1>6 DEF Activate, Goto, IInv, TypeOK, Below, Registered
  <2>3. Resolved'
    BY <1>6 DEF Activate, Goto, Resolved, IInv, TypeOK
  <2>. QED BY <2>1, <2>2, <2>3 DEF IInv
<1>7. ASSUME NEW c \in Caps, OpenFails(c) PROVE IInv' /\ Resolved'
  <2>1. TypeOK'
    BY <1>7 DEF OpenFails, Goto, IInv, TypeOK, PcStates
  <2>2. Below' /\ Registered'
    BY <1>7 DEF OpenFails, Goto, IInv, TypeOK, Below, Registered
  <2>3. Resolved'
    BY <1>7 DEF OpenFails, Goto, Resolved, IInv, TypeOK
  <2>. QED BY <2>1, <2>2, <2>3 DEF IInv
<1>8. ASSUME NEW c \in Caps, Unchecked(c) PROVE IInv' /\ Resolved'
  <2>1. IInv'
    BY <1>8, UncheckedStep
  <2>2. pc[c] \in {"reading", "bypassed"} /\ pc'[c] = "bypassed" /\ profile' = profile
        /\ found' = found
    BY <1>8 DEF Unchecked, Bypass, RestrictUnchecked, ActivateUnchecked, Goto, IInv, TypeOK
  <2>3. \A d \in Caps : d # c => pc'[d] = pc[d] /\ effective'[d] = effective[d]
    BY <1>8 DEF Unchecked, Bypass, RestrictUnchecked, ActivateUnchecked, Stored, Goto, IInv, TypeOK
  <2>4. Resolved'
    BY <2>2, <2>3 DEF Resolved
  <2>. QED BY <2>1, <2>4
<1>9. CASE UNCHANGED vars
  BY <1>9 DEF vars, IInv, TypeOK, Below, Registered, Resolved
<1>. QED BY <1>1, <1>2, <1>3, <1>4, <1>5, <1>6, <1>7, <1>8, <1>9 DEF Next, Open

LEMMA InitResolved == Init => Resolved
  BY DEF Init, Resolved

(* Type correctness of workspace.open with its policies.                   *)
THEOREM PolicyTypeCorrect == Safety => []TypeOK
<1>1. Init => IInv /\ Resolved
  BY InitIInv, InitResolved
<1>2. IInv /\ Resolved /\ [Next]_vars => (IInv /\ Resolved)'
  BY ManagedInductive
<1>3. IInv => TypeOK
  BY DEF IInv
<1>. QED BY <1>1, <1>2, <1>3, PTL DEF Safety

(* The two implementations of the comparison agree on every policy, so the *)
(* runtime never answers POLICY_ESCALATION to workspace.open.              *)
THEOREM NoDisagreement == Safety => []RuntimeAgrees
<1>1. Init => IInv /\ Resolved
  BY InitIInv, InitResolved
<1>2. IInv /\ Resolved /\ [Next]_vars => (IInv /\ Resolved)'
  BY ManagedInductive
<1>3. Resolved => RuntimeAgrees
  BY DEF Resolved, RuntimeAgrees
<1>. QED BY <1>1, <1>2, <1>3, PTL DEF Safety

(* The policy workspace.info returns for a READY workspace is the one the  *)
(* runtime enforces.                                                       *)
THEOREM ShownPolicyIsEnforced == Safety => []ShownIsEnforced
<1>1. Init => IInv /\ Resolved
  BY InitIInv, InitResolved
<1>2. IInv /\ Resolved /\ [Next]_vars => (IInv /\ Resolved)'
  BY ManagedInductive
<1>3. Resolved => ShownIsEnforced
  BY DEF Resolved, ShownIsEnforced
<1>. QED BY <1>1, <1>2, <1>3, PTL DEF Safety

(* Whatever sequence of restrictions the runtime is sent, in whatever      *)
(* order with the activation (restrict_policy_with, activate), a workspace *)
(* is authorised to do no more than the preset of its ceiling.             *)
THEOREM AuthorityOnlyNarrows == Safety => []AuthorityWithinCeiling
<1>1. Init => IInv /\ Resolved
  BY InitIInv, InitResolved
<1>2. IInv /\ Resolved /\ [Next]_vars => (IInv /\ Resolved)'
  BY ManagedInductive
<1>3. IInv => AuthorityWithinCeiling
  BY BelowIsWithin
<1>. QED BY <1>1, <1>2, <1>3, PTL DEF Safety

(* activate ends the time in which the policy may be restricted: what a    *)
(* handler copied from a Ready workspace stays its policy.                 *)
THEOREM ReadyPolicyNeverChanges == Safety => ReadyPolicyIsFixed
<1>1. ASSUME IInv, [Next]_vars, NEW c \in Caps, phase[c] = "ready"
      PROVE  effective'[c] = effective[c]
  <2>1. ASSUME NEW d \in Caps, Register(d) PROVE effective'[c] = effective[c]
    BY <1>1, <2>1 DEF Register, Goto, IInv, Registered, TypeOK
  <2>2. ASSUME NEW d \in Caps, NEW r \in Policies, RestrictUnchecked(d, r)
        PROVE  effective'[c] = effective[c]
    BY <1>1, <2>2 DEF RestrictUnchecked, MayRestrict, Stored, IInv, TypeOK
  <2>3. ASSUME NEW d \in Caps, RestrictPolicy(d) PROVE effective'[c] = effective[c]
    BY <1>1, <2>3 DEF RestrictPolicy, MayRestrict, Stored, IInv, TypeOK
  <2>4. ASSUME NEW d \in Caps,
               RequireTrusted(d) \/ ReadProjectProfile(d) \/ Activate(d) \/ OpenFails(d)
               \/ Bypass(d) \/ ActivateUnchecked(d)
        PROVE  effective'[c] = effective[c]
    BY <2>4 DEF RequireTrusted, ReadProjectProfile, Activate, OpenFails, Bypass,
                ActivateUnchecked
  <2>5. ASSUME NEW name \in Names, TrustWorkspace(name) PROVE effective'[c] = effective[c]
    BY <2>5 DEF TrustWorkspace
  <2>6. CASE UNCHANGED vars
    BY <2>6 DEF vars
  <2>. QED BY <1>1, <2>1, <2>2, <2>3, <2>4, <2>5, <2>6 DEF Next, Open, Unchecked
<1>2. IInv /\ [Next]_vars => [\A c \in Caps : phase[c] = "ready" => effective'[c] = effective[c]]_vars
  BY <1>1
<1>3. Init => IInv /\ Resolved
  BY InitIInv, InitResolved
<1>4. IInv /\ Resolved /\ [Next]_vars => (IInv /\ Resolved)'
  BY ManagedInductive
<1>. QED BY <1>2, <1>3, <1>4, PTL DEF Safety, ReadyPolicyIsFixed
=============================================================================
