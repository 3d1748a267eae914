-------------------------- MODULE WorkspacePolicy --------------------------
(***************************************************************************)
(* What an open workspace is allowed to do.  The trust entry's ceiling is  *)
(* read by workspace.open, which registers its preset with the runtime,    *)
(* reads the project's own profile, resolves it against the preset and     *)
(* sends the result to the runtime, which checks it once more.  Re-running *)
(* workspace.trust changes the ceiling at any moment.                      *)
(*                                                                         *)
(* A policy is a record of the fields of RuntimePolicy; lists are sets     *)
(* (resolveProfile sorts them and drops duplicates).  NoMore compares two  *)
(* policies by everything the runtime's handlers authorise with them.      *)
(***************************************************************************)
EXTENDS Naturals

CONSTANTS
  Caps,                \* workspaces, one open call each, on one root
  Executables,         \* logical executable names
  Shells,              \* bash and sh
  DevelopExecutables,  \* allowedExecutableNames of the develop preset
  TrustedExecutables,  \* and of the trusted preset
  Variables,           \* names of environment variables
  PresetVariables      \* envAllowlist of either preset

ASSUME PresetAssumption ==
  /\ Shells \subseteq Executables
  /\ DevelopExecutables \subseteq Executables
  /\ TrustedExecutables \subseteq Executables
  /\ PresetVariables \subseteq Variables

VARIABLES
  ceiling,    \* profileCeiling of the trust entry
  pc,         \* the await at which each open call stands
  found,      \* the ceiling it read
  profile,    \* the policy it resolved, effectivePolicy once it is READY
  phase,      \* WorkspacePhase of the capability in the runtime
  effective   \* effective_policy of the capability

vars == <<ceiling, pc, found, profile, phase, effective>>

Names    == {"observe", "develop", "trusted"}
Networks == {"deny", "localhost", "allowlist", "unrestricted"}
Policies == [name : Names, allowWrite : BOOLEAN, allowProcess : BOOLEAN,
             allowDynamicExecutables : BOOLEAN, network : Networks,
             allowedExecutableNames : SUBSET Executables, envAllowlist : SUBSET Variables]

-----------------------------------------------------------------------------
(* Presets, and the two copies of the comparison                           *)

Preset(name) ==
  [name |-> name,
   allowWrite |-> name # "observe",
   allowProcess |-> name # "observe",
   allowDynamicExecutables |-> name = "trusted",
   network |-> IF name = "trusted" THEN "unrestricted" ELSE "deny",
   allowedExecutableNames |-> CASE name = "observe" -> {}
                                [] name = "develop" -> DevelopExecutables
                                [] name = "trusted" -> TrustedExecutables,
   envAllowlist |-> IF name = "observe" THEN {} ELSE PresetVariables]

ProfileRank(name) == CASE name = "observe" -> 0 [] name = "develop" -> 1 [] name = "trusted" -> 2
NetworkRank(mode) ==
  CASE mode = "deny" -> 0 [] mode = "localhost" -> 1 [] mode = "allowlist" -> 2
    [] mode = "unrestricted" -> 3

(* resolveProfile of the server                                            *)
NamesOnly(current, restriction) ==    \* mutant: only what the profile lists is compared
  \/ ProfileRank(restriction.name) > ProfileRank(current.name)
  \/ ~ current.allowWrite /\ restriction.allowWrite
  \/ ~ current.allowProcess /\ restriction.allowProcess
  \/ NetworkRank(restriction.network) > NetworkRank(current.network)
  \/ ~ restriction.allowedExecutableNames \subseteq current.allowedExecutableNames
  \/ ~ restriction.envAllowlist \subseteq current.envAllowlist
ManagerEscalates(current, restriction) ==
  \/ ProfileRank(restriction.name) > ProfileRank(current.name)
  \/ ~ current.allowWrite /\ restriction.allowWrite
  \/ ~ current.allowProcess /\ restriction.allowProcess
  \/ ~ current.allowDynamicExecutables /\ restriction.allowDynamicExecutables
  \/ NetworkRank(restriction.network) > NetworkRank(current.network)
  \/ ~ restriction.allowedExecutableNames \subseteq current.allowedExecutableNames
  \/ ~ restriction.envAllowlist \subseteq current.envAllowlist

(* restrict_policy of the runtime                                          *)
FlagsOnly(current, restriction) ==    \* mutant: the profile's rank is not compared
  \/ ~ current.allowWrite /\ restriction.allowWrite
  \/ ~ current.allowProcess /\ restriction.allowProcess
  \/ ~ current.allowDynamicExecutables /\ restriction.allowDynamicExecutables
  \/ NetworkRank(restriction.network) > NetworkRank(current.network)
  \/ ~ restriction.allowedExecutableNames \subseteq current.allowedExecutableNames
  \/ ~ restriction.envAllowlist \subseteq current.envAllowlist
RuntimeEscalates(current, restriction) ==
  \/ ProfileRank(restriction.name) > ProfileRank(current.name)
  \/ ~ current.allowWrite /\ restriction.allowWrite
  \/ ~ current.allowProcess /\ restriction.allowProcess
  \/ ~ current.allowDynamicExecutables /\ restriction.allowDynamicExecutables
  \/ NetworkRank(restriction.network) > NetworkRank(current.network)
  \/ ~ restriction.allowedExecutableNames \subseteq current.allowedExecutableNames
  \/ ~ restriction.envAllowlist \subseteq current.envAllowlist

-----------------------------------------------------------------------------
(* What the runtime's handlers authorise with a policy                     *)

(* mutation_allowed, and the access a process has to the workspace         *)
Writes(p) == p.allowWrite /\ p.name # "observe"

(* validate_policy, and build_command, which refuses the two network modes *)
(* in between.                                                             *)
Admits(p, e) ==
  e \in p.allowedExecutableNames \/ (p.allowDynamicExecutables /\ e \notin Shells)
Runs(p, e) ==
  /\ p.allowProcess /\ p.name # "observe"
  /\ Admits(p, e)
  /\ p.network \in {"deny", "unrestricted"}
Passes(p, e, v)   == Runs(p, e) /\ v \in p.envAllowlist
ReachesNet(p, e)  == Runs(p, e) /\ p.network = "unrestricted"

(* git_metadata_access of a process                                        *)
SeesGit(p, e)   == Runs(p, e) /\ p.name = "trusted"
WritesGit(p, e) == SeesGit(p, e) /\ p.allowWrite

(* git.local_mutation and git.worktree_mutation; git.remote_mutation       *)
GitLocal(p)  == p.name = "trusted" /\ p.allowWrite
GitRemote(p) == GitLocal(p) /\ p.network = "unrestricted"

(* p authorises nothing that q does not.                                   *)
NoMore(p, q) ==
  /\ Writes(p) => Writes(q)
  /\ GitLocal(p) => GitLocal(q)
  /\ GitRemote(p) => GitRemote(q)
  /\ \A e \in Executables :
       /\ Runs(p, e) => Runs(q, e)
       /\ Runs(p, e) /\ Writes(p) => Runs(q, e) /\ Writes(q)
       /\ ReachesNet(p, e) => ReachesNet(q, e)
       /\ SeesGit(p, e) => SeesGit(q, e)
       /\ WritesGit(p, e) => WritesGit(q, e)
       /\ \A v \in Variables : Passes(p, e, v) => Passes(q, e, v)

-----------------------------------------------------------------------------
PcStates == {"idle", "registering", "reading", "restricting", "activating", "ready",
             "failed", "refused", "bypassed"}

TypeOK ==
  /\ ceiling \in Names
  /\ pc \in [Caps -> PcStates]
  /\ found \in [Caps -> Names]
  /\ profile \in [Caps -> Policies]
  /\ phase \in [Caps -> {"none", "opening", "ready", "gone"}]
  /\ effective \in [Caps -> Policies]

Init ==
  /\ ceiling \in Names
  /\ pc = [c \in Caps |-> "idle"]
  /\ found = [c \in Caps |-> "observe"]
  /\ profile = [c \in Caps |-> Preset("observe")]
  /\ phase = [c \in Caps |-> "none"]
  /\ effective = [c \in Caps |-> Preset("observe")]

Goto(c, from, to) == pc[c] = from /\ pc' = [pc EXCEPT ![c] = to]

(* "profile_update": the entry keeps its id and gets another ceiling.      *)
TrustWorkspace(name) ==
  /\ ceiling' = name
  /\ UNCHANGED <<pc, found, profile, phase, effective>>

RequireTrusted(c) ==
  /\ Goto(c, "idle", "registering")
  /\ found' = [found EXCEPT ![c] = ceiling]
  /\ UNCHANGED <<ceiling, profile, phase, effective>>

Register(c) ==
  /\ Goto(c, "registering", "reading")
  /\ phase' = [phase EXCEPT ![c] = "opening"]
  /\ effective' = [effective EXCEPT ![c] = Preset(found[c])]
  /\ UNCHANGED <<ceiling, found, profile>>

(* No profile in the project, or one that parses and does not escalate;    *)
(* the others end in OpenFails.                                            *)
ReadProjectProfile(c) ==
  /\ Goto(c, "reading", "restricting")
  /\ \E restriction \in Policies :
       /\ ~ ManagerEscalates(Preset(found[c]), restriction)
       /\ profile' = [profile EXCEPT ![c] = restriction]
  /\ UNCHANGED <<ceiling, found, phase, effective>>

MayRestrict(c) == phase[c] = "opening"

NotStored(c, restriction) == effective    \* mutant: checked, but not stored
Stored(c, restriction) == [effective EXCEPT ![c] = restriction]

RestrictPolicy(c) ==
  /\ MayRestrict(c)
  /\ IF RuntimeEscalates(effective[c], profile[c])
       THEN Goto(c, "restricting", "refused") /\ UNCHANGED effective
       ELSE /\ Goto(c, "restricting", "activating")
            /\ effective' = Stored(c, profile[c])
  /\ UNCHANGED <<ceiling, found, profile, phase>>

Activate(c) ==
  /\ phase[c] = "opening"
  /\ Goto(c, "activating", "ready")
  /\ phase' = [phase EXCEPT ![c] = "ready"]
  /\ UNCHANGED <<ceiling, found, profile, effective>>

(* Any step of the open call fails; a registered context is unregistered.  *)
OpenFails(c) ==
  /\ \E at \in {"registering", "reading", "restricting", "activating"} : Goto(c, at, "failed")
  /\ phase' = [phase EXCEPT ![c] = IF @ = "opening" THEN "gone" ELSE @]
  /\ UNCHANGED <<ceiling, found, profile, effective>>

Open(c) == RequireTrusted(c) \/ Register(c) \/ ReadProjectProfile(c) \/ RestrictPolicy(c)
           \/ Activate(c) \/ OpenFails(c)

(* A caller that resolves nothing and sends the runtime any restrictions,  *)
(* and the activation, in any order: what the runtime guarantees by itself. *)
Bypass(c) ==
  /\ Goto(c, "reading", "bypassed")
  /\ UNCHANGED <<ceiling, found, profile, phase, effective>>

RestrictUnchecked(c, restriction) ==
  /\ pc[c] = "bypassed" /\ MayRestrict(c)
  /\ ~ RuntimeEscalates(effective[c], restriction)
  /\ effective' = Stored(c, restriction)
  /\ UNCHANGED <<ceiling, pc, found, profile, phase>>

ActivateUnchecked(c) ==
  /\ pc[c] = "bypassed" /\ phase[c] = "opening"
  /\ phase' = [phase EXCEPT ![c] = "ready"]
  /\ UNCHANGED <<ceiling, pc, found, profile, effective>>

Unchecked(c) == Bypass(c) \/ ActivateUnchecked(c) \/ \E r \in Policies : RestrictUnchecked(c, r)

Next == (\E name \in Names : TrustWorkspace(name)) \/ \E c \in Caps : Open(c) \/ Unchecked(c)

Safety == Init /\ [][Next]_vars

-----------------------------------------------------------------------------
(* Properties                                                              *)

(* Whatever a project's profile says, and whatever sequence of             *)
(* restrictions the runtime is sent, a workspace may do nothing that the   *)
(* preset of the ceiling it was registered with does not allow.            *)
AuthorityWithinCeiling ==
  \A c \in Caps : phase[c] \in {"opening", "ready"} => NoMore(effective[c], Preset(found[c]))

(* Handlers copy the policy under the registry lock and act on it later:   *)
(* the policy of a Ready workspace never changes under them.               *)
ReadyPolicyIsFixed ==
  [][\A c \in Caps : phase[c] = "ready" => effective'[c] = effective[c]]_vars

(* The two comparisons agree: what the server resolved the runtime never   *)
(* refuses as an escalation.                                               *)
RuntimeAgrees == \A c \in Caps : pc[c] # "refused"

(* What workspace.info shows and the server plans with is what the runtime *)
(* enforces.                                                               *)
ShownIsEnforced == \A c \in Caps : pc[c] = "ready" => profile[c] = effective[c]
=============================================================================
