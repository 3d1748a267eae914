----------------------------- MODULE Registries ----------------------------
(***************************************************************************)
(* The registries that the server and the CLI keep as one JSON document    *)
(* each: developer environments, skill sources, provider instances and the *)
(* connector credential.  A call reads the document, works on its copy     *)
(* (the developer environments also look at the disk) and renames a new    *)
(* document over the old one; calls of several processes do not exclude    *)
(* each other.  The parser refuses a whole document for one bad entry, so  *)
(* a document that is written but not accepted again locks the user out:   *)
(* every later call of that registry fails, removal included.              *)
(*                                                                         *)
(* An entry's key is what must be unique beside its id: the canonical root *)
(* of an environment, the inode of a skill source.                         *)
(***************************************************************************)
EXTENDS Naturals, FiniteSets, Functions

CONSTANTS
  Callers,    \* processes, each with one call at a time
  Roots,      \* canonical directories
  Protected,  \* those that overlap the state root or a trusted workspace
  NodeRoots,  \* where the Node runtime may be installed, from one server start to the next
  RustRoots,  \* and the stable Rust toolchain
  MaxEntries, \* MAX_DEVELOPER_ENVIRONMENTS, MAX_SOURCES
  MaxIds      \* bound: ids ever generated

(* A PATH and a registry are finite; rustup keeps toolchains apart from    *)
(* any Node installation.                                                  *)
ASSUME RootsAssumption ==
  /\ IsFiniteSet(Roots) /\ NodeRoots \intersect RustRoots = {}
  /\ MaxEntries \in Nat /\ MaxIds \in Nat

VARIABLES
  kind,          \* which registry this behaviour is about
  document,      \* the entries in its file
  issued,        \* ids generated so far
  registryCalls  \* what each caller is doing

registryVars == <<kind, document, issued, registryCalls>>

Kinds == {"environments", "sources", "providers", "credential"}

Ids(d)  == {e.id : e \in d}
Keys(d) == {e.key : e \in d}
OneEach(d, of) == Cardinality(of) = Cardinality(d)

-----------------------------------------------------------------------------
(* What each parser accepts, and what each writer checks before it writes  *)

EnvironmentsParse(d) ==
  Cardinality(d) <= MaxEntries /\ OneEach(d, Ids(d)) /\ OneEach(d, Keys(d))
EnvironmentsWritable(d) == Cardinality(d) <= MaxEntries

SourcesParse(d) ==
  Cardinality(d) <= MaxEntries /\ OneEach(d, Ids(d)) /\ OneEach(d, Keys(d))
SourcesWritable(d) == OneEach(d, Ids(d)) /\ OneEach(d, Keys(d))

ProvidersParse(d)    == OneEach(d, Ids(d))
ProvidersWritable(d) == OneEach(d, Ids(d))

CredentialParses(d) == Cardinality(d) <= 1

Parses(d) ==
  CASE kind = "environments" -> EnvironmentsParse(d)
    [] kind = "sources"      -> SourcesParse(d)
    [] kind = "providers"    -> ProvidersParse(d)
    [] kind = "credential"   -> CredentialParses(d)

Writable(d) ==
  CASE kind = "environments" -> EnvironmentsWritable(d)
    [] kind = "sources"      -> SourcesWritable(d)
    [] kind = "providers"    -> ProvidersWritable(d)
    [] kind = "credential"   -> TRUE

-----------------------------------------------------------------------------
(* Developer environments                                                  *)

(* #inspectCandidate finds some of the roots usable at the moment: a       *)
(* directory, outside the state root and the workspaces, with a safe mode. *)
Inspections == SUBSET (Roots \ Protected)

Environment(id, r, source) == [id |-> id, key |-> r, source |-> source]

(* The documents a call may go on to write: none when it refuses or has    *)
(* nothing to write.  n is the first unused id.                            *)
AddEnvironment(d, r, n, usable) ==
  IF Cardinality(d) < MaxEntries /\ r \in usable /\ r \notin Keys(d)
    THEN {d \union {Environment(n, r, "operator")}} ELSE {}

(* A directory that cannot be used is passed over; a full registry refuses *)
(* the whole synchronisation.                                              *)
SyncPath(d, rs, n, usable) ==
  LET new == {r \in rs : r \in usable /\ r \notin Keys(d)}
      id  == CHOOSE f \in [new -> n..n + Cardinality(new)] : IsInjective(f)
  IN IF new # {} /\ Cardinality(d) + Cardinality(new) <= MaxEntries
       THEN {d \union {Environment(id[r], r, "synced-shell") : r \in new}} ELSE {}

(* One entry per label: the one that is there is replaced under its id,    *)
(* unless the root is registered by somebody else.                         *)
Labels == {"Node runtime", "Rust stable toolchain"}

NobodyElses(d, r)   == FALSE    \* mutant: the operator's entry for the root is not looked for
SomebodyElses(d, r) == \E e \in d : e.key = r /\ e.source \notin Labels

EnsureOne(d, label, r, n, usable) ==
  LET mine == {e \in d : e.source = label}
      id   == IF mine = {} THEN n ELSE (CHOOSE e \in mine : TRUE).id
  IN IF r \notin usable \/ SomebodyElses(d, r) THEN d
     ELSE (d \ mine) \union {Environment(id, r, label)}

EnsureBootstrap(d, node, rust, n, usable) ==
  LET next == EnsureOne(EnsureOne(d, "Node runtime", node, n, usable),
                        "Rust stable toolchain", rust, n + 1, usable)
  IN IF next # d /\ Cardinality(next) <= MaxEntries THEN {next} ELSE {}

Without(d, id) == IF id \in Ids(d) THEN {{e \in d : e.id # id}} ELSE {}

-----------------------------------------------------------------------------
(* Skill sources, provider instances, the connector credential             *)

AddSource(d, r, n) ==
  IF Cardinality(d) < MaxEntries /\ r \notin Keys(d) THEN {d \union {[id |-> n, key |-> r]}} ELSE {}

(* The caller brings the id of a provider instance, and its configuration. *)
InsertProvider(d, id, config) ==
  IF id \notin Ids(d) THEN {d \union {[id |-> id, key |-> config]}} ELSE {}
ReplaceProvider(d, id, config) ==
  IF id \in Ids(d) THEN {{e \in d : e.id # id} \union {[id |-> id, key |-> config]}} ELSE {}

(* rotate keeps createdAt (here the key) of the credential it replaces.    *)
Rotate(d, n) ==
  {{[id |-> n, key |-> IF d = {} THEN n ELSE (CHOOSE e \in d : TRUE).key]}}

-----------------------------------------------------------------------------
Requests ==
  CASE kind = "environments" -> [op : {"add"}, key : Roots] \union [op : {"sync"}, keys : SUBSET Roots]
                                \union [op : {"bootstrap"}, node : NodeRoots, rust : RustRoots]
                                \union [op : {"remove"}, id : 0..MaxIds - 1]
    [] kind = "sources"      -> [op : {"add"}, key : Roots] \union [op : {"remove"}, id : 0..MaxIds - 1]
    [] kind = "providers"    -> [op : {"insert", "replace"}, id : 0..1, key : {"old", "new"}]
                                \union [op : {"remove"}, id : 0..1]
    [] kind = "credential"   -> [op : {"rotate"}]

Written(d, request, n, usable) ==
  CASE request.op = "add"       -> IF kind = "sources" THEN AddSource(d, request.key, n)
                                                       ELSE AddEnvironment(d, request.key, n, usable)
    [] request.op = "sync"      -> SyncPath(d, request.keys, n, usable)
    [] request.op = "bootstrap" -> EnsureBootstrap(d, request.node, request.rust, n, usable)
    [] request.op = "remove"    -> Without(d, request.id)
    [] request.op = "insert"    -> InsertProvider(d, request.id, request.key)
    [] request.op = "replace"   -> ReplaceProvider(d, request.id, request.key)
    [] request.op = "rotate"    -> Rotate(d, n)

NoRegistryCall == [at |-> "idle", copy |-> {}]

RegistriesInit ==
  /\ kind \in Kinds
  /\ document = {}
  /\ issued = 0
  /\ registryCalls = [c \in Callers |-> NoRegistryCall]

RegistryReturns(c) == registryCalls' = [registryCalls EXCEPT ![c] = NoRegistryCall]

(* #read: a document that does not parse rejects every call.               *)
Read(c) ==
  /\ registryCalls[c].at = "idle" /\ Parses(document)
  /\ registryCalls' = [registryCalls EXCEPT ![c] = [at |-> "read", copy |-> document]]
  /\ UNCHANGED <<kind, document, issued>>

(* The copy is changed and handed to #write; ids are generated one after   *)
(* another.                                                                *)
NextUnused(d, n) ==
  /\ \A e \in d : e.id < n
  /\ \A m \in issued..n - 1 : \E e \in d : e.id >= m
Change(c) ==
  /\ registryCalls[c].at = "read"
  /\ \E request \in Requests, usable \in Inspections :
     \E next \in Written(registryCalls[c].copy, request, issued, usable) :
       /\ Writable(next)
       /\ IF kind = "providers" THEN UNCHANGED issued
          ELSE issued' \in issued..MaxIds /\ NextUnused(next, issued')
       /\ registryCalls' = [registryCalls EXCEPT ![c] = [at |-> "writing", copy |-> next]]
  /\ UNCHANGED <<kind, document>>

(* The rename; what follows (chmod, sync) can only fail the call.          *)
Replace(c) ==
  /\ registryCalls[c].at = "writing"
  /\ document' = registryCalls[c].copy
  /\ RegistryReturns(c)
  /\ UNCHANGED <<kind, issued>>

(* A refusal, a failure, or the end of the process: the temporary file, if *)
(* it stays, is never read.                                                *)
GiveUp(c) ==
  /\ registryCalls[c].at # "idle"
  /\ RegistryReturns(c)
  /\ UNCHANGED <<kind, document, issued>>

RegistriesNext == \E c \in Callers : Read(c) \/ Change(c) \/ Replace(c) \/ GiveUp(c)

RegistriesSpec == RegistriesInit /\ [][RegistriesNext]_registryVars

-----------------------------------------------------------------------------
(* What calls leave behind, in whatever order they read and write, is a    *)
(* document that the next call accepts: no command can lock the user out   *)
(* of a registry (sameRoot in ensureBootstrap, the uniqueness checks of    *)
(* the writers).                                                           *)
RegistryIsAccepted == Parses(document)
=============================================================================
