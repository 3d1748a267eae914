---------------------------- MODULE KernelClient ----------------------------
(***************************************************************************)
(* The TypeScript side of the runtime process (KernelClient): requests     *)
(* multiplexed over the child's stdin and stdout, the child's end, and the *)
(* callers of stop().  An action of the client is one callback of the      *)
(* event loop: a call, a stdout chunk, a write callback, the exit event, a *)
(* timer.  The runtime reads frames in order, serves each in a task of its *)
(* own and answers when the task ends, until its stdin has ended and no    *)
(* task is left; it can die at any point, with answers still in the pipe.  *)
(***************************************************************************)
EXTENDS Naturals, Sequences, SequencesExt

CONSTANTS
  Requests,    \* requests, each with an id of its own
  Stops,       \* callers of stop()
  Garbage,     \* output that is no response: a bad frame, a bad envelope,
               \* a hello payload that hello() refuses
  MaxGarbage   \* bound on the garbage in the pipe

ASSUME GarbageAssumption == Garbage \notin Requests /\ MaxGarbage \in Nat

VARIABLES
  state,       \* #state of the client
  pending,     \* #pending: the ids waiting for a response
  outcome,     \* what the caller of each request knows
  unexpected,  \* unexpectedTermination has been rejected
  exitSeen,    \* #exitPromise has been resolved
  stop,        \* progress of each call of stop()
  stdin,       \* requests written and not yet read by the runtime
  tasks,       \* requests the runtime is serving
  stdout,      \* frames the runtime has written and the client has not read
  child        \* the runtime process

client  == <<state, pending, outcome, unexpected>>
runtime == <<stdin, tasks, stdout>>
vars    == <<client, exitSeen, stop, runtime, child>>

ClientStates == {"running", "stopping", "unavailable", "closed"}
Ending       == {"ending", "ended"}   \* calls that found the client running

TypeOK ==
  /\ state \in ClientStates
  /\ pending \subseteq Requests
  /\ outcome \in [Requests -> {"new", "waiting", "answered", "unavailable"}]
  /\ unexpected \in BOOLEAN /\ exitSeen \in BOOLEAN
  /\ stop \in [Stops -> {"idle", "waiting", "done"} \union Ending]
  /\ stdin \subseteq Requests /\ tasks \subseteq Requests
  /\ stdout \in Seq(Requests \union {Garbage})
  /\ child \in {"running", "killed", "exited"}

Init ==
  /\ state = "running" /\ pending = {}
  /\ outcome = [r \in Requests |-> "new"]
  /\ unexpected = FALSE /\ exitSeen = FALSE
  /\ stop = [s \in Stops |-> "idle"]
  /\ stdin = {} /\ tasks = {} /\ stdout = <<>>
  /\ child = "running"

-----------------------------------------------------------------------------
(* Requests                                                                *)

Settle(rs, as) == outcome' = [r \in Requests |-> IF r \in rs THEN as ELSE outcome[r]]

(* request: refused at once unless the client is running.                  *)
Request(r) ==
  /\ outcome[r] = "new"
  /\ \/ state # "running" /\ Settle({r}, "unavailable") /\ UNCHANGED <<pending, stdin>>
     \/ /\ state = "running" /\ Settle({r}, "waiting")
        /\ pending' = pending \union {r} /\ stdin' = stdin \union {r}
  /\ UNCHANGED <<state, unexpected, exitSeen, stop, tasks, stdout, child>>

(* Whether a poisoning is news to whoever waits for unexpectedTermination. *)
NeverUnexpected  == FALSE    \* mutant: the state is set before it is looked at
AlwaysUnexpected == TRUE     \* mutant: the state is not looked at
IsUnexpected     == state = "running"

Rejected(rs, answered) ==
  outcome' = [r \in Requests |-> IF r \in answered THEN "answered"
                                 ELSE IF r \in rs THEN "unavailable"
                                 ELSE outcome[r]]

(* #poison once the answers in "answered" have been taken from pending: it *)
(* does nothing to a closed client.                                        *)
PoisonOnce(answered) ==    \* mutant: only a running client rejects what is pending
  IF state # "running"
    THEN /\ Settle(answered, "answered") /\ pending' = pending \ answered
         /\ state' = (IF state = "closed" THEN "closed" ELSE "unavailable")
         /\ UNCHANGED unexpected
    ELSE /\ unexpected' = TRUE /\ state' = "unavailable"
         /\ Rejected(pending, answered) /\ pending' = {}
Poison(answered) ==
  IF state = "closed"
    THEN /\ Settle(answered, "answered") /\ pending' = pending \ answered
         /\ UNCHANGED <<state, unexpected>>
    ELSE /\ unexpected' = (unexpected \/ IsUnexpected)
         /\ state' = "unavailable"
         /\ Rejected(pending, answered) /\ pending' = {}

(* The write callback of a request whose frame met a dead runtime.  (Node  *)
(* then raises an error event on stdin, for which the client has no        *)
(* listener; what that does to the Node process is not modelled.)          *)
WriteFails(r) ==
  /\ r \in stdin /\ child = "exited"
  /\ stdin' = stdin \ {r}
  /\ IF r \in pending
       THEN IF state = "closed"
              THEN /\ Settle({r}, "unavailable") /\ pending' = pending \ {r}
                   /\ UNCHANGED <<state, unexpected>>
              ELSE Poison({})
       ELSE UNCHANGED client
  /\ UNCHANGED <<exitSeen, stop, tasks, stdout, child>>

Killed(c)      == IF c = "exited" THEN "exited" ELSE "killed"

(* The answers a chunk delivers.  Its frames are handled in order, up to   *)
(* the first that is no response to a pending request, which throws; a bad *)
(* frame throws before any frame of the chunk is handled.                  *)
Answered(chunk) ==
  LET Known == {i \in DOMAIN chunk : \A j \in 1..i : chunk[j] \in pending}
      known == {chunk[i] : i \in Known}
  IN IF Garbage \in ToSet(chunk) THEN {{}, known} ELSE {known}

(* A stdout chunk of n frames.  Whatever throws poisons the client and     *)
(* kills the child.                                                        *)
Data(n) ==
  LET chunk == SubSeq(stdout, 1, n)
  IN /\ stdout' = SubSeq(stdout, n + 1, Len(stdout))
     /\ \/ state = "closed" /\ UNCHANGED <<client, child>>
        \/ /\ state # "closed"
           /\ \E answered \in Answered(chunk) :
                \/ /\ ToSet(chunk) = answered
                   /\ Settle(answered, "answered") /\ pending' = pending \ answered
                   /\ UNCHANGED <<state, unexpected, child>>
                \/ /\ ToSet(chunk) # answered
                   /\ Poison(answered) /\ child' = Killed(child)
     /\ UNCHANGED <<exitSeen, stop, stdin, tasks>>

-----------------------------------------------------------------------------
(* The runtime                                                             *)

(* The reader thread takes a frame and the dispatcher spawns its task.     *)
Receive(r) ==
  /\ r \in stdin /\ child = "running"
  /\ stdin' = stdin \ {r} /\ tasks' = tasks \union {r}
  /\ UNCHANGED <<client, exitSeen, stop, stdout, child>>

Reply(r) ==
  /\ r \in tasks /\ child = "running"
  /\ tasks' = tasks \ {r} /\ stdout' = Append(stdout, r)
  /\ UNCHANGED <<client, exitSeen, stop, stdin, child>>

EmitGarbage ==
  /\ child = "running"
  /\ Len(SelectSeq(stdout, LAMBDA f : f = Garbage)) < MaxGarbage
  /\ stdout' = Append(stdout, Garbage)
  /\ UNCHANGED <<client, exitSeen, stop, stdin, tasks, child>>

(* stdin has ended: stop() ended it, and everything written before is read. *)
StdinEnded == \E s \in Stops : stop[s] \in Ending

(* run_dispatcher returns when its requests have ended and every task has  *)
(* been joined.                                                            *)
Exit ==
  /\ child = "running" /\ StdinEnded /\ stdin = {} /\ tasks = {}
  /\ child' = "exited"
  /\ UNCHANGED <<client, exitSeen, stop, runtime>>

(* A crash, or the end of a killed process.                                *)
Die ==
  /\ child # "exited" /\ child' = "exited" /\ tasks' = {}
  /\ UNCHANGED <<client, exitSeen, stop, stdin, stdout>>

-----------------------------------------------------------------------------
(* The end of the runtime and stop()                                       *)

(* The exit event, before or after the rest of stdout has been read.       *)
ExitEvent ==
  /\ child = "exited" /\ ~exitSeen
  /\ exitSeen' = TRUE
  /\ Poison({})
  /\ UNCHANGED <<stop, runtime, child>>

StopRejects(s) ==    \* mutant: stop() rejects what is pending itself
  /\ stop[s] = "idle" /\ state = "running"
  /\ stop' = [stop EXCEPT ![s] = "ending"] /\ state' = "stopping"
  /\ Rejected(pending, {}) /\ pending' = {}
  /\ UNCHANGED <<unexpected, exitSeen, runtime, child>>
Stop(s) ==
  /\ stop[s] = "idle"
  /\ \/ /\ state \in {"closed", "stopping"}
        /\ stop' = [stop EXCEPT ![s] = "done"] /\ state' = "closed"
     \/ /\ state = "unavailable"
        /\ stop' = [stop EXCEPT ![s] = "waiting"] /\ UNCHANGED state
     \/ /\ state = "running"
        /\ stop' = [stop EXCEPT ![s] = "ending"] /\ state' = "stopping"
  /\ UNCHANGED <<pending, outcome, unexpected, exitSeen, runtime, child>>

NoTimer(s) == FALSE /\ UNCHANGED vars    \* mutant: stop() sets no timer

(* The two seconds that stop() gives the runtime are over.                 *)
KillTimer(s) ==
  /\ stop[s] = "ending" /\ child = "running" /\ ~exitSeen
  /\ child' = "killed"
  /\ UNCHANGED <<client, exitSeen, stop, runtime>>

StopReturns(s) ==
  /\ stop[s] \in {"ending", "waiting"} /\ exitSeen
  /\ stop' = [stop EXCEPT ![s] = IF @ = "ending" THEN "ended" ELSE "done"]
  /\ state' = "closed"
  /\ UNCHANGED <<pending, outcome, unexpected, exitSeen, runtime, child>>

Next ==
  \/ \E r \in Requests : Request(r) \/ WriteFails(r) \/ Receive(r) \/ Reply(r)
  \/ \E n \in 1..Len(stdout) : Data(n)
  \/ EmitGarbage \/ Exit \/ Die \/ ExitEvent
  \/ \E s \in Stops : Stop(s) \/ KillTimer(s) \/ StopReturns(s)

(* The event loop delivers what has happened and the timer it has set, and *)
(* a killed process ends.  A task may take for ever, and nothing makes a   *)
(* healthy runtime die or a caller stop.                                   *)
Fairness ==
  /\ WF_vars(child = "killed" /\ Die)
  /\ WF_vars(ExitEvent)
  /\ WF_vars(\E n \in 1..Len(stdout) : Data(n))
  /\ \A r \in Requests : WF_vars(WriteFails(r)) /\ WF_vars(Receive(r))
  /\ \A s \in Stops : WF_vars(KillTimer(s)) /\ WF_vars(StopReturns(s))

Safety == Init /\ [][Next]_vars
Spec   == Safety /\ Fairness

-----------------------------------------------------------------------------
(* Properties                                                              *)

(* Once the runtime is known to be gone no caller waits: a poisoned or     *)
(* closed client has rejected or answered every request, whichever of the  *)
(* answer, the write error, the exit event and stop() came first.  (With   *)
(* one caller of stop(), as in the CLI.)                                   *)
NothingIsLeftWaiting ==
  state \in {"unavailable", "closed"} => \A r \in Requests : outcome[r] # "waiting"

(* A stop() that found the client running is orderly for good: whatever    *)
(* the runtime does while it ends, it is not reported as an unexpected     *)
(* termination (which would make the service exit with a failure).         *)
OrderlyStopIsSilent == (\E s \in Stops : stop[s] \in Ending) => ~unexpected

(* Every answer still to come is awaited: while the client runs or ends    *)
(* its runtime, each request on its way, in service or answered in the     *)
(* pipe is still in pending.  A healthy runtime is therefore never killed  *)
(* for an unexpected response id, and what it had accepted before stop()   *)
(* is answered while it ends.                                              *)
AnswersAreAwaited ==
  state \in {"running", "stopping"} =>
    \A r \in stdin \union tasks \union (ToSet(stdout) \ {Garbage}) :
      r \in pending /\ outcome[r] = "waiting"

(* A request waits as long as its answer may come, and no longer.          *)
WaitingIsForAnAnswer == NothingIsLeftWaiting /\ AnswersAreAwaited

(* The client and the runtime together: a request counts as served from    *)
(* the moment its frame is read, and whatever its caller knows while a     *)
(* running runtime works on it.  What the service promises needs all the   *)
(* pieces: an answer in the pipe is of a request that was read and is      *)
(* still awaited, and a client that gives its callers up has killed the    *)
(* runtime first or knows it dead.                                         *)
Served(r) == child = "running" /\ r \in tasks
Service == INSTANCE RuntimeService WITH
  request <- [r \in Requests |-> IF Served(r) THEN "served"
                                 ELSE IF outcome[r] # "waiting" THEN outcome[r]
                                 ELSE IF r \in stdin THEN "sent" ELSE "served"],
  open    <- state = "running"
ImplementsService == Service!Safety

(* stop() returns, however busy or stuck the runtime is, and then no       *)
(* request waits.                                                          *)
StopEnds ==
  \A s \in Stops : stop[s] # "idle" ~> /\ stop[s] \in {"ended", "done"}
                                      /\ \A r \in Requests : outcome[r] # "waiting"

(* The death of the runtime of a running client is reported as unexpected, *)
(* unless a stop() came before the exit event; so is output that is no     *)
(* response.                                                               *)
DeathIsReported ==
  (state = "running" /\ (child = "exited" \/ Garbage \in ToSet(stdout)))
    ~> (unexpected \/ \E s \in Stops : stop[s] \in Ending)

(* Nobody the client serves is left in the dark.                           *)
ClientSettles == StopEnds /\ DeathIsReported
=============================================================================
