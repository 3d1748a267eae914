------------------------- MODULE CheckpointRegister -------------------------
(***************************************************************************)
(* What the callers of workspace.checkpoint and workspace.untrust are      *)
(* promised about the checkpoint of a root: it is a register that is       *)
(* compared and set.  A change takes effect at one moment, as a whole, and *)
(* only on the revision its caller has seen; who is told of success has    *)
(* changed it, who is told of an error may or may not have.  A trust ends  *)
(* only after its checkpoint.  CheckpointStore implements this.            *)
(***************************************************************************)
EXTENDS Naturals

CONSTANTS
  Callers,
  Texts,      \* what a checkpoint may say
  Revisions   \* what a caller may name

VARIABLES
  register,   \* the checkpoint: [revision, text]
  trusted,    \* whether the root is trusted
  request     \* caller |-> what it asks, and how far that is

vars == <<register, trusted, request>>

(* Revision zero: there is no checkpoint, or one that nobody can read.     *)
None    == [revision |-> 0, text |-> 0]
Damaged == register.revision = 0 /\ register # None

Nothing == [at |-> "idle", op |-> "none", expected |-> 0, text |-> 0]

Init ==
  /\ register.revision \in {0, 1}
  /\ trusted = TRUE
  /\ request = [c \in Callers |-> Nothing]

Reached(c, from, to) == request[c].at = from /\ request' = [request EXCEPT ![c].at = to]

(* A caller names the revision it has seen; an upsert that names none, and *)
(* so zero, expects no checkpoint, and a clear has to name one.            *)
Ask(c) ==
  /\ request[c].at = "idle" /\ trusted
  /\ \E op \in {"upsert", "clear", "untrust"}, expected \in Revisions, text \in Texts :
       /\ op = "clear" => expected > 0
       /\ request' = [request EXCEPT ![c] = [at |-> "asked", op |-> op, expected |-> expected, text |-> text]]
  /\ UNCHANGED <<register, trusted>>

Upsert(c) ==
  /\ request[c].op = "upsert" /\ ~Damaged /\ register.revision = request[c].expected
  /\ register' = [revision |-> register.revision + 1, text |-> request[c].text]
Clear(c) ==
  /\ request[c].op = "clear" /\ register.revision = request[c].expected
  /\ register' = None
Purge(c) == request[c].op = "untrust" /\ register' = None

TakeEffect(c) ==
  /\ Reached(c, "asked", "taken")
  /\ Upsert(c) \/ Clear(c) \/ Purge(c)
  /\ UNCHANGED trusted

Succeed(c) ==
  /\ Reached(c, "taken", "succeeded")
  /\ trusted' = (trusted /\ request[c].op # "untrust")
  /\ UNCHANGED register

Fail(c) == (Reached(c, "asked", "failed") \/ Reached(c, "taken", "failed")) /\ UNCHANGED <<register, trusted>>

Answer(c) ==
  /\ request[c].at \in {"asked", "succeeded", "failed"}
  /\ request' = [request EXCEPT ![c] = Nothing]
  /\ UNCHANGED <<register, trusted>>

(* The server ends, and with it the calls; the checkpoint stays.           *)
End == request' = [c \in Callers |-> Nothing] /\ UNCHANGED <<register, trusted>>

Progress(c) == TakeEffect(c) \/ Succeed(c) \/ Fail(c) \/ Answer(c)

Next == (\E c \in Callers : Ask(c) \/ Progress(c)) \/ End

(* Whatever one caller's change comes to, the others get their turn.       *)
Fairness == \A c \in Callers : WF_vars(Progress(c))

Safety == Init /\ [][Next]_vars
Spec   == Safety /\ Fairness
=============================================================================
