-------------------------- MODULE MCProcessRuntime -------------------------
(***************************************************************************)
(* Process operations and two users of them: the operations of one         *)
(* workspace, verify.run, and the developer console that shows what calls  *)
(* answered.  A behaviour is about one of the three, its `part`.           *)
(***************************************************************************)
EXTENDS ProcessRuntime, Verification, DevConsole

CONSTANTS o1, o2, r1, r2, c1

VARIABLE part

OneWorkspace == [o \in Ops |-> c1]

MCDirs     == {<<>>, <<"a">>}
MCConfigs  == {NoConfig, BadConfig, {[key |-> "e2e", exe |-> "npm"]}}
MCPolicies == {[process |-> FALSE, dynamic |-> TRUE, names |-> {}],
               [process |-> TRUE, dynamic |-> FALSE, names |-> {"npm"}]}

(* The parts that do not move have one initial state.                      *)
MCInit ==
  /\ part \in {"processes", "verify", "console"}
  /\ Init /\ VerifyInit /\ ConsoleInit
  /\ part # "verify" => ~policy.process /\ project = CHOOSE p \in Projects : TRUE

MCNext ==
  /\ UNCHANGED part
  /\ \/ part = "processes" /\ Next /\ UNCHANGED <<verifyVars, consoleVars>>
     \/ part = "verify" /\ VerifyNext /\ UNCHANGED <<vars, consoleVars>>
     \/ part = "console" /\ ConsoleNext /\ UNCHANGED <<vars, verifyVars>>

MCVars == <<part, vars, verifyVars, consoleVars>>
MCSpec == MCInit /\ [][MCNext]_MCVars

(* The processes alone.                                                    *)
ProcessSpec == part = "processes" /\ MCSpec

=============================================================================
