--------------------------- MODULE MCCapabilities ---------------------------
(***************************************************************************)
(* What a session may use and what it is told: workspace policies, the     *)
(* registries they draw on, previews and their browsers, remote CI and     *)
(* providers, skills, and the context a session resumes from.  Each has    *)
(* its own state; a behaviour is about one of them, its `part`.            *)
(***************************************************************************)
EXTENDS WorkspacePolicy, RemoteCi, ProviderGateway, PreviewBrowser, Registries, ResumeContext, SkillCatalog, TLC

VARIABLE part

OneViewport == <<"mobile">>

Ref(kind_, valid) == [kind |-> kind_, valid |-> valid]
AllThere == [disk |-> [s \in Sources |-> Fresh], stored |-> GlobalSources, ready |-> TRUE, pins |-> {}]
ResumeRefs == {<<>>, <<Ref("preview", TRUE), Ref("ci", TRUE)>>, <<Ref("note", TRUE), Ref("process", FALSE)>>}

-----------------------------------------------------------------------------
(* The parts that do not move have one initial state.                      *)
MCInit ==
  /\ part \in {"policy", "registry", "preview", "ci", "gateway", "resume", "catalog"}
  /\ Init /\ (part # "policy" => ceiling = "observe")
  /\ RegistriesInit /\ (part # "registry" => kind = CHOOSE k \in Kinds : TRUE)
  /\ PreviewInit
  /\ CiInit /\ (part # "ci" => provider = [r \in CiRuns |-> "absent"])
  /\ GatewayInit /\ (part # "gateway" => dynamic)
  /\ ResumeInit /\ (part # "resume" => ~checkpoint.present)
  /\ CatalogInit /\ (part # "catalog" => active = {} /\ skillWorld = AllThere)

MCNext ==
  /\ UNCHANGED part
  /\ \/ /\ part = "policy" /\ Next
        /\ UNCHANGED <<registryVars, previewVars, ciVars, gatewayVars, resumeVars, catalogVars>>
     \/ /\ part = "registry" /\ RegistriesNext
        /\ UNCHANGED <<vars, previewVars, ciVars, gatewayVars, resumeVars, catalogVars>>
     \/ /\ part = "preview" /\ PreviewNext
        /\ UNCHANGED <<vars, registryVars, ciVars, gatewayVars, resumeVars, catalogVars>>
     \/ /\ part = "ci" /\ CiNext
        /\ UNCHANGED <<vars, registryVars, previewVars, gatewayVars, resumeVars, catalogVars>>
     \/ /\ part = "gateway" /\ GatewayNext
        /\ UNCHANGED <<vars, registryVars, previewVars, ciVars, resumeVars, catalogVars>>
     \/ /\ part = "resume" /\ ResumeNext
        /\ UNCHANGED <<vars, registryVars, previewVars, ciVars, gatewayVars, catalogVars>>
     \/ /\ part = "catalog" /\ CatalogNext
        /\ UNCHANGED <<vars, registryVars, previewVars, ciVars, gatewayVars, resumeVars>>

MCVars == <<part, vars, registryVars, previewVars, ciVars, gatewayVars, resumeVars, catalogVars>>

MCSpec == MCInit /\ [][MCNext]_MCVars

Symmetry == Permutations(PreviewCalls)

=============================================================================
