---------------------------- MODULE SkillCatalog ----------------------------
(***************************************************************************)
(* SkillCatalog over SkillSourceManager: one call of skill.list, skill.load*)
(* (skill.inspect goes the same way) or kodegpt skill pin, while authors   *)
(* edit the skills, the operator removes sources, pins and unpins, and the *)
(* workspace whose own skills are listed may be closed.                    *)
(*                                                                         *)
(* A source holds one skill, which stands for its id: a document, one more *)
(* resource, and perhaps a symbolic link.  A bundle's fingerprint is the   *)
(* versions of the two; SkillPins has the pin store's own steps.           *)
(***************************************************************************)
EXTENDS Naturals, FiniteSets

CONSTANTS
  GlobalSources,    \* sources the operator registered
  LocalSources,     \* sources in the workspace
  MaxSkillVersion, \* bound: versions of a document or a resource
  MaxSkillMoves    \* bound: what others do meanwhile

(* A registered source has a random id, one of a workspace a hash of its   *)
(* trust and its directory.                                                *)
ASSUME SourcesAssumption == GlobalSources \intersect LocalSources = {}

VARIABLES
  skillWorld,   \* the sources on disk, the source store, the pins, whether the workspace is READY
  active,  \* sources this process holds a capability for
  skillMoves,   \* what others have done
  skillCall,    \* the call
  during,  \* history: the worlds there have been since the call began
  unpinned \* history: the pins removed since it began

catalogVars == <<skillWorld, active, skillMoves, skillCall, during, unpinned>>

Sources == GlobalSources \union LocalSources
Versions == 1..MaxSkillVersion
BundleFingerprints == Versions \X Versions
Missing == 0

Bundle(w, s) == <<w.disk[s].doc, w.disk[s].res>>    \* its fingerprint

Fresh == [there |-> TRUE, doc |-> 1, res |-> 1, links |-> FALSE]
NoSkillCall ==
  [at |-> "idle", op |-> "none", skill |-> CHOOSE s \in Sources : TRUE, want |-> {}, scope |-> FALSE,
   left |-> {}, looked |-> {}, now |-> {}, found |-> [s \in Sources |-> Missing], doc |-> Missing,
   entries |-> {}, toLoad |-> {}, unavailable |-> FALSE, answer |-> "none", fp |-> {}]

CatalogInit ==
  /\ skillWorld \in [disk : [Sources -> {Fresh, [Fresh EXCEPT !.there = FALSE]}], stored : {GlobalSources},
                     ready : BOOLEAN, pins : SUBSET (GlobalSources \X {<<1, 1>>, <<MaxSkillVersion, 1>>})]
  /\ active \in {{}, GlobalSources}
  /\ skillMoves = 0 /\ skillCall = NoSkillCall /\ during = {} /\ unpinned = {}

(* ------------------------------------------------------------- the others *)
OnDisk(s) ==
  {[skillWorld EXCEPT !.disk[s].doc = v] : v \in 0..MaxSkillVersion} \union
  {[skillWorld EXCEPT !.disk[s].res = v] : v \in Versions} \union
  {[skillWorld EXCEPT !.disk[s].links = ~@], [skillWorld EXCEPT !.disk[s].there = ~@]}
Pinnable == {s \in skillWorld.stored : LET d == skillWorld.disk[s] IN d.there /\ d.doc # Missing /\ ~d.links}
ByOperator ==
  {[skillWorld EXCEPT !.stored = @ \ {s}] : s \in GlobalSources} \union
  {[skillWorld EXCEPT !.pins = @ \ {pin}] : pin \in skillWorld.pins} \union
  {[skillWorld EXCEPT !.pins = @ \union {<<s, Bundle(skillWorld, s)>>}] : s \in Pinnable}
Others ==
  /\ skillCall.at \notin {"idle", "answered"} /\ skillMoves < MaxSkillMoves /\ skillMoves' = skillMoves + 1
  /\ \E w \in UNION {OnDisk(s) : s \in Sources} \union ByOperator \union {[skillWorld EXCEPT !.ready = FALSE]} :
       skillWorld' = w /\ w # skillWorld
  /\ during' = during \union {skillWorld'} /\ unpinned' = unpinned \union (skillWorld.pins \ skillWorld'.pins)
  /\ UNCHANGED <<active, skillCall>>

(* --------------------------------------------------------------- the call *)
AnswerSkill(answer) == skillCall' = [skillCall EXCEPT !.at = "answered", !.answer = answer]
Tolerates == skillCall.op # "pin"    \* tolerateUnavailableSources

(* listSources: the registered ones, and the directories there are in the  *)
(* workspace that is named, which must be READY.                           *)
BeginSkillCall ==
  /\ skillCall.at = "idle"
  /\ \E op \in {"list", "load", "pin"}, s \in Sources, scope \in BOOLEAN,
        want \in {{}} \union {{f} : f \in BundleFingerprints} :
       LET asked == [NoSkillCall EXCEPT !.at = "discover", !.op = op, !.skill = s, !.want = want, !.scope = scope]
           locals == {l \in LocalSources : scope /\ skillWorld.disk[l].there}
       IN /\ op = "list" => s = NoSkillCall.skill /\ want = {}
          /\ op = "pin" => ~scope
          /\ skillCall' = IF scope /\ ~skillWorld.ready THEN [asked EXCEPT !.at = "answered", !.answer = "MISMATCH"]
                          ELSE [asked EXCEPT !.left = skillWorld.stored \union locals]
  /\ during' = {skillWorld} /\ unpinned' = {}
  /\ UNCHANGED <<skillWorld, active, skillMoves>>

(* #isWorkspaceSource: with a workspace named, its sources are listed again*)
(* before each read, of whatever source; so it must still be READY.  A     *)
(* source of its own that is gone is looked for among the registered ones. *)
Look(s) ==
  /\ skillCall.at \in {"discover", "build"} /\ skillCall.scope /\ skillCall.looked = {}
  /\ s \in IF skillCall.now = {} THEN skillCall.left ELSE skillCall.now
  /\ CASE ~skillWorld.ready -> AnswerSkill("MISMATCH")
       [] skillWorld.ready /\ s \in LocalSources /\ ~skillWorld.disk[s].there -> AnswerSkill("SOURCE_NOT_FOUND")
       [] OTHER -> skillCall' = [skillCall EXCEPT !.looked = {s}]
  /\ UNCHANGED <<skillWorld, active, skillMoves, during, unpinned>>
LookedAt(s) == skillCall.scope => skillCall.looked = {s}

(* #capabilityFor: a registered source without a capability is looked up   *)
(* and registered; one that has it is not looked up again.                 *)
RegistrableSource(s) == s \in GlobalSources \intersect (active \union skillWorld.stored)
Reached(s) == skillWorld.disk[s].there /\ IF s \in LocalSources THEN skillWorld.ready ELSE RegistrableSource(s)
Refusal(s) == IF s \in LocalSources \/ RegistrableSource(s) THEN "UNAVAILABLE" ELSE "SOURCE_NOT_FOUND"
Registered(s) == active' = IF s \in GlobalSources /\ Reached(s) THEN active \union {s} ELSE active

(* A source that cannot be reached is passed over and said to be; any      *)
(* other refusal is the answer.                                            *)
SaysSo   == TRUE
SilentOn == FALSE    \* mutant: the reason is not recorded
Recorded == SaysSo
PassOver(s) ==
  skillCall' = [skillCall EXCEPT !.left = @ \ {s}, !.looked = {}, !.now = {}, !.unavailable = Recorded, !.at = "discover"]
Unreachable(s) == IF Refusal(s) = "UNAVAILABLE" /\ Tolerates THEN PassOver(s) ELSE AnswerSkill(Refusal(s))

(* #discover: the tree of a source, then the SKILL.md it names.            *)
DiscoverTree(s) ==
  /\ skillCall.at = "discover" /\ skillCall.now = {} /\ s \in skillCall.left /\ LookedAt(s)
  /\ Registered(s)
  /\ CASE ~Reached(s) -> Unreachable(s)
       [] Reached(s) /\ skillWorld.disk[s].doc = Missing -> skillCall' = [skillCall EXCEPT !.left = @ \ {s}, !.looked = {}]
       [] OTHER -> skillCall' = [skillCall EXCEPT !.now = {s}, !.looked = {}]
  /\ UNCHANGED <<skillWorld, skillMoves, during, unpinned>>
DiscoverDocument(s) ==
  /\ skillCall.at = "discover" /\ skillCall.now = {s} /\ LookedAt(s)
  /\ IF Reached(s) /\ skillWorld.disk[s].doc # Missing
       THEN skillCall' = [skillCall EXCEPT !.left = @ \ {s}, !.looked = {}, !.now = {}, !.found[s] = skillWorld.disk[s].doc]
       ELSE Unreachable(s)
  /\ UNCHANGED <<skillWorld, active, skillMoves, during, unpinned>>

(* list builds every skill it found; load and pin the one they are for.    *)
Found == {s \in Sources : skillCall.found[s] # Missing}
ToBuild == IF skillCall.op = "list" THEN Found ELSE Found \intersect {skillCall.skill}
Discovered ==
  /\ skillCall.at = "discover" /\ skillCall.left = {}
  /\ IF ToBuild = {} /\ skillCall.op = "pin" THEN AnswerSkill("NOT_FOUND")
       ELSE skillCall' = [skillCall EXCEPT !.at = IF ToBuild = {} THEN "pinned" ELSE "build", !.left = ToBuild]
  /\ UNCHANGED <<skillWorld, active, skillMoves, during, unpinned>>

Skip(s) ==
  skillCall' = [skillCall EXCEPT !.left = @ \ {s}, !.looked = {}, !.now = {}, !.unavailable = Recorded, !.doc = Missing,
                                 !.at = IF skillCall.left = {s} THEN "pinned" ELSE "build"]
BuildUnreachable(s) == IF Refusal(s) = "UNAVAILABLE" /\ Tolerates THEN Skip(s) ELSE AnswerSkill(Refusal(s))

(* #buildBundle: the skill's tree, with nothing in it but files.           *)
BuildTree(s) ==
  /\ skillCall.at = "build" /\ skillCall.now = {} /\ s \in skillCall.left /\ LookedAt(s)
  /\ CASE ~Reached(s) -> BuildUnreachable(s)
       [] Reached(s) /\ skillWorld.disk[s].links -> AnswerSkill("RESOURCE_UNSUPPORTED")
       [] Reached(s) /\ ~skillWorld.disk[s].links /\ skillWorld.disk[s].doc = Missing -> AnswerSkill("BUNDLE_INVALID")
       [] OTHER -> skillCall' = [skillCall EXCEPT !.now = {s}, !.looked = {}]
  /\ UNCHANGED <<skillWorld, active, skillMoves, during, unpinned>>

(* Each file is read by itself, and must have the size the tree gave: one  *)
(* that was edited meanwhile may be noticed.                               *)
DocumentEdited(s) == \E w \in during : w.disk[s].doc # skillWorld.disk[s].doc
ResourceEdited(s) == \E w \in during : w.disk[s].res # skillWorld.disk[s].res
BuildDocument(s) ==
  /\ skillCall.at = "build" /\ skillCall.now = {s} /\ skillCall.doc = Missing /\ LookedAt(s)
  /\ IF Reached(s) /\ skillWorld.disk[s].doc # Missing
       THEN \/ skillCall' = [skillCall EXCEPT !.doc = skillWorld.disk[s].doc, !.looked = {}]
            \/ DocumentEdited(s) /\ AnswerSkill("BUNDLE_INVALID")
       ELSE BuildUnreachable(s)
  /\ UNCHANGED <<skillWorld, active, skillMoves, during, unpinned>>

(* The document must be the one that was discovered.                       *)
SameDocument(doc, found) == doc = found
AnyDocument(doc, found)  == TRUE    \* mutant: it is not read against the descriptor
StillDescribed(doc, found) == SameDocument(doc, found)
Built(s, fp) ==
  CASE skillCall.op = "list" ->
         skillCall' = [skillCall EXCEPT !.entries = @ \union {<<s, fp>>}, !.left = @ \ {s}, !.looked = {},
                                        !.now = {}, !.doc = Missing, !.at = IF skillCall.left = {s} THEN "pinned" ELSE "build"]
    [] skillCall.op # "list" /\ skillCall.want \subseteq {fp} ->
         skillCall' = [skillCall EXCEPT !.at = IF skillCall.op = "pin" THEN "pin" ELSE "lookup", !.fp = {fp}]
    [] skillCall.op = "load" /\ ~(skillCall.want \subseteq {fp}) ->
         skillCall' = [skillCall EXCEPT !.at = "pinned", !.left = {}]
    [] OTHER -> AnswerSkill("FINGERPRINT_MISMATCH")
BuildResource(s) ==
  /\ skillCall.at = "build" /\ skillCall.now = {s} /\ skillCall.doc # Missing /\ LookedAt(s)
  /\ CASE ~Reached(s) -> BuildUnreachable(s)
       [] Reached(s) /\ ~StillDescribed(skillCall.doc, skillCall.found[s]) -> AnswerSkill("FINGERPRINT_MISMATCH")
       [] OTHER -> \/ Built(s, <<skillCall.doc, skillWorld.disk[s].res>>)
                   \/ ResourceEdited(s) /\ AnswerSkill("BUNDLE_INVALID")
  /\ UNCHANGED <<skillWorld, active, skillMoves, during, unpinned>>

(* list and load of the pin store read file by file: a removal that runs   *)
(* meanwhile may leave them half a snapshot.                               *)
TornList      == unpinned # {} /\ AnswerSkill("PIN_INVALID")
TornLoad(pin) == pin \in unpinned /\ AnswerSkill("PIN_INVALID")

(* #hasPinned, then the bundle as it was built.                            *)
AnswerLive ==
  /\ skillCall.at = "lookup"
  /\ AnswerSkill("live") \/ TornList
  /\ UNCHANGED <<skillWorld, active, skillMoves, during, unpinned>>

(* pins.pin, of what was built.                                            *)
PinIt ==
  /\ skillCall.at = "pin"
  /\ skillWorld' = [skillWorld EXCEPT !.pins = @ \union {<<skillCall.skill, f>> : f \in skillCall.fp}]
  /\ AnswerSkill("pinned")
  /\ during' = during \union {skillWorld'}
  /\ UNCHANGED <<active, skillMoves, unpinned>>

(* #loadPinned without a fingerprint: one of the versions that are listed  *)
(* is selected (the code takes the latest), and loaded in a later step.    *)
PinsOf(s) == {f \in BundleFingerprints : <<s, f>> \in skillWorld.pins}
Eligible(f) == skillCall.want \subseteq {f}
SelectPinned ==
  /\ skillCall.at = "pinned" /\ skillCall.op = "load" /\ skillCall.want = {}
  /\ \/ \E f \in PinsOf(skillCall.skill) : skillCall' = [skillCall EXCEPT !.at = "load", !.fp = {f}]
     \/ PinsOf(skillCall.skill) = {} /\ skillCall' = [skillCall EXCEPT !.at = "explain"]
     \/ TornList
  /\ UNCHANGED <<skillWorld, active, skillMoves, during, unpinned>>

(* #loadPinned: what was asked for may not be there; what was selected and *)
(* is gone by now ends the call.                                           *)
LoadPinned(f) ==
  LET pin == <<skillCall.skill, f>> IN
  /\ \/ skillCall.at = "load" /\ skillCall.fp = {f}
     \/ skillCall.at = "pinned" /\ skillCall.op = "load" /\ skillCall.want = {f}
  /\ \/ /\ pin \in skillWorld.pins
        /\ skillCall' = [skillCall EXCEPT !.at = "answered", !.answer = "pinned", !.fp = {f}]
     \/ pin \notin skillWorld.pins /\ skillCall.at = "pinned" /\ skillCall' = [skillCall EXCEPT !.at = "explain"]
     \/ pin \notin skillWorld.pins /\ skillCall.at = "load" /\ AnswerSkill("NOT_FOUND")
     \/ TornLoad(pin)
  /\ UNCHANGED <<skillWorld, active, skillMoves, during, unpinned>>

(* Why there is none; #workspaceScopeError looks for it in the workspace   *)
(* that is READY, by a discovery of its own, here one look.                *)
WhyNot == IF skillCall.unavailable THEN "UNAVAILABLE" ELSE "NOT_FOUND"
Explain ==
  /\ skillCall.at = "explain"
  /\ CASE skillCall.skill \in Found /\ skillCall.want # {} -> AnswerSkill("FINGERPRINT_MISMATCH")
       [] ~(skillCall.skill \in Found /\ skillCall.want # {}) /\ ~skillCall.scope /\ skillWorld.ready ->
            skillCall' = [skillCall EXCEPT !.at = "elsewhere"]
       [] OTHER -> AnswerSkill(WhyNot)
  /\ UNCHANGED <<skillWorld, active, skillMoves, during, unpinned>>
Elsewhere(s) == s \in LocalSources \union skillWorld.stored /\ skillWorld.disk[s].there /\ skillWorld.disk[s].doc # Missing
ScopeError ==
  /\ skillCall.at = "elsewhere"
  /\ AnswerSkill(IF ~skillWorld.ready THEN "MISMATCH"
                 ELSE IF Elsewhere(skillCall.skill) THEN "WORKSPACE_REQUIRED" ELSE WhyNot)
  /\ active' = active \union {g \in skillWorld.stored : skillWorld.ready /\ skillWorld.disk[g].there}
  /\ UNCHANGED <<skillWorld, skillMoves, during, unpinned>>

(* list: the pins there are, each of which is loaded unless it is live; one*)
(* that has been removed meanwhile fails the list.                         *)
ListPins ==
  /\ skillCall.at = "pinned" /\ skillCall.op = "list"
  /\ \/ skillCall' = [skillCall EXCEPT !.at = "loadEach", !.toLoad = skillWorld.pins \ skillCall.entries]
     \/ TornList
  /\ UNCHANGED <<skillWorld, active, skillMoves, during, unpinned>>
LoadListed(pin) ==
  /\ skillCall.at = "loadEach" /\ pin \in skillCall.toLoad
  /\ \/ /\ pin \in skillWorld.pins
        /\ skillCall' = [skillCall EXCEPT !.toLoad = @ \ {pin}, !.entries = @ \union {pin}]
     \/ pin \notin skillWorld.pins /\ AnswerSkill("NOT_FOUND")
     \/ TornLoad(pin)
  /\ UNCHANGED <<skillWorld, active, skillMoves, during, unpinned>>
AnswerList ==
  /\ skillCall.at = "loadEach" /\ skillCall.toLoad = {}
  /\ AnswerSkill("listed")
  /\ UNCHANGED <<skillWorld, active, skillMoves, during, unpinned>>

CatalogStep ==
  \/ \E s \in Sources : \/ Look(s) \/ DiscoverTree(s) \/ DiscoverDocument(s)
                       \/ BuildTree(s) \/ BuildDocument(s) \/ BuildResource(s)
  \/ Discovered \/ AnswerLive \/ PinIt \/ SelectPinned \/ Explain \/ ScopeError \/ ListPins \/ AnswerList
  \/ \E f \in BundleFingerprints : LoadPinned(f)
  \/ \E pin \in skillCall.toLoad : LoadListed(pin)
CatalogNext == BeginSkillCall \/ CatalogStep \/ Others
CatalogSpec == CatalogInit /\ [][CatalogNext]_catalogVars

Named(w, s, scope) ==
  (IF s \in LocalSources THEN scope /\ w.ready /\ w.disk[s].there ELSE s \in w.stored) /\ w.disk[s].doc # Missing
LiveSkill(w, s, scope) == Named(w, s, scope) /\ w.disk[s].there
Readable(w, s) == w.disk[s].there /\ (s \in LocalSources => w.ready)
WasThere(s, fp) ==
  /\ IF s \in LocalSources THEN skillCall.scope ELSE \E w \in during : s \in w.stored
  /\ \E w \in during : Readable(w, s) /\ w.disk[s].doc = fp[1]
  /\ \E w \in during : Readable(w, s) /\ w.disk[s].res = fp[2]

BundleWasThere ==
  /\ skillCall.answer \in {"live", "pinned"} => \A f \in skillCall.fp : skillCall.want \subseteq {f}
  /\ skillCall.answer = "live" \/ (skillCall.op = "pin" /\ skillCall.answer = "pinned") =>
       \A f \in skillCall.fp : WasThere(skillCall.skill, f) /\ f[1] = skillCall.found[skillCall.skill]
  /\ skillCall.op = "load" /\ skillCall.answer = "pinned" =>
       \A f \in skillCall.fp : \E w \in during : <<skillCall.skill, f>> \in w.pins
NotFoundWasMissing ==
  skillCall.answer = "NOT_FOUND" =>
    /\ skillCall.op # "list" => \E w \in during : ~LiveSkill(w, skillCall.skill, skillCall.scope)
    /\ skillCall.op = "load" =>
         \/ \E w \in during : \A f \in BundleFingerprints : Eligible(f) => <<skillCall.skill, f>> \notin w.pins
         \/ skillCall.want = {} /\ \E f \in BundleFingerprints : <<skillCall.skill, f>> \in unpinned
    /\ skillCall.op = "list" => unpinned # {}
ListIsComplete ==
  skillCall.answer = "listed" =>
    /\ \A e \in skillCall.entries : WasThere(e[1], e[2]) \/ \E w \in during : e \in w.pins
    /\ ~skillCall.unavailable =>
         \A s \in Sources, f \in BundleFingerprints :
           (\A w \in during : Named(w, s, skillCall.scope) /\ Bundle(w, s) = f) => <<s, f>> \in skillCall.entries
    /\ \A e \in Sources \X BundleFingerprints : (\A w \in during : e \in w.pins) => e \in skillCall.entries

(* A bundle that is loaded or pinned is of the version asked for, its      *)
(* document is the one its descriptor was made from, its source was one of *)
(* those the call was for, and each of its files was there, in a source    *)
(* that could be read at that time; a pinned one was pinned at some time of*)
(* the call.  A skill that is not found was at some time not there, and at *)
(* some time no version that would do was pinned - unless no version was   *)
(* asked for and one was unpinned meanwhile: another may have stayed.  A   *)
(* list fails for a missing pin only if one was removed meanwhile, and one *)
(* that says it is complete leaves out no skill that stayed the same, be   *)
(* its registered source out of reach at times (catalog.ts list, loadRaw,  *)
(* pin, #discover, #buildBundle, #loadPinned).                             *)
CatalogTellsTheTruth ==
  skillCall.at = "answered" => BundleWasThere /\ NotFoundWasMissing /\ ListIsComplete
=============================================================================
