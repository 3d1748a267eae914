--------------------------- MODULE RuntimeService ---------------------------
(***************************************************************************)
(* What the callers of the runtime are promised, whatever becomes of it: a *)
(* request is served at most once and answered only when it was; when the  *)
(* service fails, everyone who waits is told at once, and no request is    *)
(* served after its caller has been told that the runtime is unavailable;  *)
(* a failure counts as unexpected exactly when nobody had stopped the      *)
(* service before.  KernelClient and its runtime implement this.  (When    *)
(* the runtime ends under a client that is closed already, that is no      *)
(* failure of the service; NothingIsLeftWaiting is about those left then.) *)
(***************************************************************************)
CONSTANT Requests

VARIABLES
  request,     \* how far each is
  open,        \* requests are taken
  unexpected   \* an unexpected failure has been reported

vars == <<request, open, unexpected>>

Waiting == {"sent", "served"}

Init ==
  /\ request = [r \in Requests |-> "new"]
  /\ open = TRUE
  /\ unexpected = FALSE

Reaches(r, from, to) ==
  /\ request[r] = from /\ request' = [request EXCEPT ![r] = to]
  /\ UNCHANGED <<open, unexpected>>

(* A request is taken, or refused; it is read by the runtime, or lost on   *)
(* its way to a service that takes no more.                                *)
Send(r)   == open /\ Reaches(r, "new", "sent")
Refuse(r) == ~open /\ Reaches(r, "new", "unavailable")
Serve(r)  == Reaches(r, "sent", "served")
Lose(r)   == ~open /\ Reaches(r, "sent", "unavailable")

Served(rs) == \A r \in rs : request[r] = "served"

(* Answers come together when one chunk holds them.                        *)
Answer(rs) ==
  /\ Served(rs)
  /\ request' = [r \in Requests |-> IF r \in rs THEN "answered" ELSE request[r]]
  /\ UNCHANGED <<open, unexpected>>

(* The service fails once it has answered rs.                              *)
Fail(rs) ==
  /\ Served(rs)
  /\ request' = [r \in Requests |-> IF r \in rs THEN "answered"
                                    ELSE IF request[r] \in Waiting THEN "unavailable"
                                    ELSE request[r]]
  /\ open' = FALSE
  /\ unexpected' = (unexpected \/ open)

(* Requests that are open when the service is stopped are still answered.  *)
Stop == open /\ open' = FALSE /\ UNCHANGED <<request, unexpected>>

Next ==
  \/ \E r \in Requests : Send(r) \/ Refuse(r) \/ Serve(r) \/ Lose(r)
  \/ \E rs \in SUBSET Requests : Answer(rs) \/ Fail(rs)
  \/ Stop

Safety == Init /\ [][Next]_vars
=============================================================================
