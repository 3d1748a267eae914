----------------------------- MODULE Verification -----------------------------
(***************************************************************************)
(* verify.list and verify.run (capabilities/src/verification.ts): recipes  *)
(* are derived anew on every call from the manifests, lock files and       *)
(* .kodegpt/verify.json of the workspace, one file after the other, while  *)
(* the files may change; verify.run then takes the source state and starts *)
(* the recipe's process.  A directory is the sequence of its components.   *)
(***************************************************************************)
EXTENDS Naturals, Sequences, FiniteSets, SequencesExt, FiniteSetsExt, Functions

CONSTANTS
  Dirs,       \* directories that may hold a manifest, <<>> the root
  Managers,   \* package managers
  Configs,    \* what .kodegpt/verify.json may be: a set of [key, exe], or NoConfig, or BadConfig
  NoConfig, BadConfig,
  Policies,   \* [process, dynamic, names] of the workspace
  MaxChanges  \* bound: changes of the files

VARIABLES
  project,  \* [packages: dir |-> manager named in it, cargo: dirs, locks, config]
  policy,   \* the workspace's effective policy
  version,  \* number of the present state of the files
  verify,   \* the call
  during    \* history: the states of the project since the call began

(* A directory is a sequence of names, a lock file names a manager, and the*)
(* recipes of a configuration are the entries of a JSON object, one per key*)
ASSUME DirAssumption == Dirs \subseteq Seq(STRING)
ASSUME ManagerAssumption == Managers \intersect {"none", "unknown", "conflict"} = {}
ASSUME ConfigAssumption ==
  \A config \in Configs \ {NoConfig, BadConfig} :
    /\ \A c \in config : c = [key |-> c.key, exe |-> c.exe]
    /\ \A c, d \in config : c.key = d.key => c = d

verifyVars == <<project, policy, version, verify, during>>

-----------------------------------------------------------------------------
(* activeProjectKinds, scopedManifestPaths: with a target, the projects    *)
(* around it, of the kinds found nearest to it.                            *)
Around(dir, target) == IsPrefix(dir, target)

ActiveKinds(found, target) ==
  LET around == {m \in found : Around(m.dir, target)}
      depth  == Max({Len(m.dir) : m \in around})
  IN IF around = {} THEN {} ELSE {m.kind : m \in {n \in around : Len(n.dir) = depth}}

NoTarget == <<"*">>
Scoped(found, kind, target) ==
  {m.dir : m \in {n \in found : n.kind = kind /\ (target # NoTarget =>
                                kind \in ActiveKinds(found, target) /\ Around(n.dir, target))}}

(* resolvePackageManager: what package.json names and what the root's lock *)
(* files say must not disagree.                                            *)
Resolve(named, locks) ==
  CASE named # "none" /\ locks \subseteq {named} -> named
    [] named = "none" /\ locks = {}              -> "unknown"
    [] named = "none" /\ Cardinality(locks) = 1  -> CHOOSE l \in locks : TRUE
    [] OTHER                                     -> "conflict"
Resolved(manager) == manager \notin {"unknown", "conflict"}

ResolveNested(named, locks, root) ==
  IF Resolve(named, locks) # "unknown" THEN Resolve(named, locks)
  ELSE IF Resolved(root) THEN root ELSE "unknown"

(* withStaticAvailability: the policy decides before the runtime is asked. *)
Availability(exe, pol, installed) ==
  IF ~pol.process THEN "PROCESS_NOT_ALLOWED"
  ELSE IF exe \notin pol.names /\ ~pol.dynamic THEN "EXECUTABLE_NOT_ALLOWED"
  ELSE IF exe \notin installed THEN "EXECUTABLE_UNAVAILABLE"
  ELSE "allowed"

Recipe(kind, dir, name, exe, pol, installed) ==
  [kind |-> kind, dir |-> dir, name |-> name, exe |-> exe, status |-> Availability(exe, pol, installed)]

(* packageRecipes, CARGO_RECIPES, cargoProjectRecipes, the configured ones.*)
RootManager(dirs, packages, locks) == Resolve(IF <<>> \in dirs THEN packages[<<>>] ELSE "none", locks)
ManagerOf(dir, dirs, packages, locks) ==
  IF dir = <<>> THEN RootManager(dirs, packages, locks)
  ELSE ResolveNested(packages[dir], locks, RootManager(dirs, packages, locks))

PackageRecipe(dir, manager, pol, installed) ==
  IF Resolved(manager) THEN Recipe("package", dir, "test", manager, pol, installed)
  ELSE [kind |-> "package", dir |-> dir, name |-> "test", exe |-> "none",
        status |-> IF manager = "conflict" THEN "PACKAGE_MANAGER_CONFLICT" ELSE "PACKAGE_MANAGER_UNKNOWN"]
PackageRecipes(dirs, packages, locks, pol, installed) ==
  {PackageRecipe(dir, ManagerOf(dir, dirs, packages, locks), pol, installed) : dir \in dirs}

CargoRecipes(dirs, pol, installed) ==
  {Recipe("cargo", dir, name, "cargo", pol, installed) :
     dir \in dirs, name \in {"test", "check"}}
  \union {Recipe("cargo", dir, "fmt-check", "cargo", pol, installed) : dir \in dirs \intersect {<<>>}}

ConfiguredRecipes(config, pol, installed) ==
  {Recipe("config", <<>>, c.key, c.exe, pol, installed) : c \in config}

Recipes(found, packages, locks, config, pol, installed, target) ==
  PackageRecipes(Scoped(found, "package", target), packages, locks, pol, installed)
    \union CargoRecipes(Scoped(found, "cargo", target), pol, installed)
    \union ConfiguredRecipes(config, pol, installed)

Manifests(p) == {[kind |-> "package", dir |-> d] : d \in DOMAIN p.packages}
                  \union {[kind |-> "cargo", dir |-> d] : d \in p.cargo}

-----------------------------------------------------------------------------
Projects == [packages : UNION {[ds -> Managers \union {"none"}] : ds \in SUBSET Dirs},
             cargo : SUBSET Dirs, locks : SUBSET Managers, config : Configs]

NoVerify == [at |-> "idle", op |-> "none", target |-> NoTarget, evidence |-> {}, locks |-> {}, found |-> {},
             config |-> {}, left |-> {}, packages |-> <<>>, recipes |-> {}, recipe |-> "none", source |-> 0,
             answer |-> "none"]

VerifyInit ==
  /\ project \in Projects /\ policy \in Policies
  /\ version = 0 /\ verify = NoVerify /\ during = {}

(* Somebody edits: one of the files is another one, or comes or goes.      *)
WithManifest(packages, d, n) == [e \in DOMAIN packages \union {d} |-> IF e = d THEN n ELSE packages[e]]
WithoutManifest(packages, d) == Restrict(packages, DOMAIN packages \ {d})
ProjectChanges ==
  /\ version < MaxChanges /\ version' = version + 1
  /\ \/ \E l \in SUBSET Managers : project' = [project EXCEPT !.locks = l]
     \/ \E c \in Configs : project' = [project EXCEPT !.config = c]
     \/ \E c \in SUBSET Dirs : project' = [project EXCEPT !.cargo = c]
     \/ \E d \in Dirs : project' = [project EXCEPT !.packages = WithoutManifest(@, d)]
     \/ \E d \in Dirs, n \in Managers : project' = [project EXCEPT !.packages = WithManifest(@, d, n)]
  /\ during' = during \union {project'}
  /\ UNCHANGED <<policy, verify>>

Failed(code) == verify' = [verify EXCEPT !.at = "answered", !.answer = code]
Goes(at) == [verify EXCEPT !.at = at]

(* The root's evidence is looked at file by file; the files there are.     *)
CallVerify ==
  /\ verify.at = "idle"
  /\ \E op \in {"list", "run"}, t \in {NoTarget} \union Dirs :
       /\ op = "run" => t = NoTarget
       /\ t # <<>>
       /\ verify' = [NoVerify EXCEPT !.at = "tree", !.op = op, !.target = t, !.locks = project.locks,
                                     !.evidence = {m \in Manifests(project) : m.dir = <<>>}]
  /\ during' = {project}
  /\ UNCHANGED <<project, policy, version>>

(* discoverProjectManifests: the tree must agree with the root's evidence. *)
Tree ==
  /\ verify.at = "tree"
  /\ IF {m \in Manifests(project) : m.dir = <<>>} # verify.evidence THEN Failed("VERIFICATION_DISCOVERY_INVALID")
     ELSE verify' = [Goes("config") EXCEPT !.found = Manifests(project)]
  /\ UNCHANGED <<project, policy, version, during>>

(* readVerificationConfig: none is no recipes, a wrong one is an error.    *)
ReadConfig ==
  /\ verify.at = "config"
  /\ IF project.config = BadConfig THEN Failed("VERIFICATION_DISCOVERY_INVALID")
     ELSE verify' = [Goes("manifests") EXCEPT !.config = IF project.config = NoConfig THEN {} ELSE project.config,
                                              !.left = Scoped(verify.found, "package", verify.target)]
  /\ UNCHANGED <<project, policy, version, during>>

(* readPackageManifest, one file after the other, the root first.          *)
ReadManifest(d) ==
  /\ verify.at = "manifests" /\ d \in verify.left /\ (<<>> \in verify.left => d = <<>>)
  /\ IF d \notin DOMAIN project.packages THEN Failed("VERIFICATION_DISCOVERY_INVALID")
     ELSE verify' = [verify EXCEPT !.left = @ \ {d},
                                   !.packages = WithManifest(@, d, project.packages[d])]
  /\ UNCHANGED <<project, policy, version, during>>

Derive ==
  /\ verify.at = "manifests" /\ verify.left = {}
  /\ \E installed \in {{}, Managers \union {"cargo"}} :
       verify' = [Goes(IF verify.op = "list" THEN "answered" ELSE "choose") EXCEPT
                    !.recipes = Recipes(verify.found, verify.packages, verify.locks, verify.config, policy, installed, verify.target),
                    !.answer = IF verify.op = "list" THEN "ok" ELSE "none"]
  /\ UNCHANGED <<project, policy, version, during>>

(* runVerification: only an allowed recipe is started.                     *)
AllowedOnly(r) == r.status = "allowed"
AnyWithCommand(r) == r.exe # "none"    \* mutant: what is blocked by policy is started all the same
Startable(r)  == AllowedOnly(r)

Choose ==
  /\ verify.at = "choose"
  /\ \/ Failed("VERIFICATION_NOT_FOUND")
     \/ \E r \in verify.recipes :
          IF Startable(r) THEN verify' = [Goes("source") EXCEPT !.recipe = r] ELSE Failed("VERIFICATION_NOT_ALLOWED")
  /\ UNCHANGED <<project, policy, version, during>>

TakeSourceState ==
  /\ verify.at = "source"
  /\ \/ verify' = [Goes("start") EXCEPT !.source = version]
     \/ Failed("SOURCE_STATE_UNAVAILABLE")
  /\ UNCHANGED <<project, policy, version, during>>

StartProcess ==
  /\ verify.at = "start"
  /\ \/ verify' = [Goes("answered") EXCEPT !.answer = "ok"]
     \/ Failed("PROCESS_FAILED")
  /\ UNCHANGED <<project, policy, version, during>>

ForgetVerify ==
  /\ verify.at = "answered"
  /\ verify' = NoVerify /\ during' = {}
  /\ UNCHANGED <<project, policy, version>>

VerifyStep ==
  \/ CallVerify \/ Tree \/ ReadConfig \/ Derive \/ Choose \/ TakeSourceState \/ StartProcess \/ ForgetVerify
  \/ \E d \in Dirs : ReadManifest(d)

VerifyNext == VerifyStep \/ ProjectChanges

VerifySpec == VerifyInit /\ [][VerifyNext]_verifyVars

-----------------------------------------------------------------------------
(* What verify.run starts is named by one recipe, allowed by the policy,   *)
(* written in a manifest or configuration that was there during the call;  *)
(* and what a list narrowed to a target shows is shown by the full list,   *)
(* with the same command, so that it can be run.                           *)
VerifyRunsWhatIsThere ==
  /\ (verify.op = "run" /\ (verify.at \in {"source", "start"} \/ verify.answer = "ok")) =>
       LET r == verify.recipe IN
         /\ policy.process /\ (policy.dynamic \/ r.exe \in policy.names)
         /\ {q \in verify.recipes : q.kind = r.kind /\ q.dir = r.dir /\ q.name = r.name} = {r}
         /\ \E p \in during :
              CASE r.kind = "package" -> r.dir \in DOMAIN p.packages /\ p.packages[r.dir] \in {r.exe, "none"}
                [] r.kind = "cargo"   -> r.dir \in p.cargo
                [] OTHER              -> p.config \notin {NoConfig, BadConfig} /\ [key |-> r.name, exe |-> r.exe] \in p.config
  /\ (verify.op = "list" /\ verify.answer = "ok" /\ during = {project}) =>
       LET all == Recipes(Manifests(project), project.packages, project.locks, verify.config, policy,
                          Managers \union {"cargo"}, NoTarget)
       IN \A r \in verify.recipes : r.status = "allowed" => r \in all
=============================================================================
