------------------------------ MODULE MCStores ------------------------------
(***************************************************************************)
(* What is kept in files: execution artifacts under their quotas, the      *)
(* audit log of one runtime, the trust document, and pinned skills.  They  *)
(* share no file, so a behaviour is about one of them, its `part`.         *)
(***************************************************************************)
EXTENDS RawSpool, SkillPins, TrustStore, AuditSink

VARIABLE part

OneProcess == [q \in Requests |-> CHOOSE p \in Processes : TRUE]

MCInit ==
  /\ part \in {"spool", "audit", "trust", "pins"}
  /\ Init /\ SinkInit /\ TrustInit /\ PinInit

MCNext ==
  /\ UNCHANGED part
  /\ \/ part = "spool" /\ Next /\ UNCHANGED <<auditVars, trustVars, pinVars>>
     \/ part = "audit" /\ SinkNext /\ UNCHANGED <<vars, trustVars, pinVars>>
     \/ part = "trust" /\ TrustNext /\ OneAtATime' /\ UNCHANGED <<vars, auditVars, pinVars>>
     \/ part = "pins" /\ PinNext /\ UNCHANGED <<vars, auditVars, trustVars>>

MCVars == <<part, vars, auditVars, trustVars, pinVars>>

MCSpec ==
  /\ MCInit /\ [][MCNext]_MCVars
  /\ \A a \in Artifacts : WF_vars(Create(a))
  /\ SinkFairness
=============================================================================
