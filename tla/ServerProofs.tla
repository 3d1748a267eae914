---------------------------- MODULE ServerProofs ----------------------------
(***************************************************************************)
(* Proofs about the server between the connector and the runtime, for any  *)
(* number of requests, callers, tokens and calls: its client of the        *)
(* runtime (KernelClient), the check of a connector's token                *)
(* (ConnectorAccess), the checkpoint store (CheckpointStore) and the table *)
(* of tools (ToolSurface).                                                 *)
(***************************************************************************)
EXTENDS KernelClient, ConnectorAccess, CheckpointStore, ToolSurface, TLAPS

-----------------------------------------------------------------------------
(* Typing                                                                  *)

LEMMA SettleType ==
  ASSUME NEW rs, NEW as \in {"new", "waiting", "answered", "unavailable"},
         outcome \in [Requests -> {"new", "waiting", "answered", "unavailable"}],
         Settle(rs, as)
  PROVE  outcome' \in [Requests -> {"new", "waiting", "answered", "unavailable"}]
  BY DEF Settle

LEMMA PoisonType ==
  ASSUME NEW answered, TypeOK, Poison(answered)
  PROVE  /\ state' \in ClientStates
         /\ pending' \subseteq Requests
         /\ outcome' \in [Requests -> {"new", "waiting", "answered", "unavailable"}]
         /\ unexpected' \in BOOLEAN
  BY DEF Poison, Rejected, Settle, TypeOK, ClientStates, IsUnexpected

(* What Data leaves of stdout are frames.                                  *)
LEMMA RestOfFrames ==
  ASSUME NEW S, NEW s \in Seq(S), NEW n \in 1..Len(s)
  PROVE  SubSeq(s, n + 1, Len(s)) \in Seq(S)
  OBVIOUS

LEMMA TypeStep == ASSUME TypeOK, [Next]_vars PROVE TypeOK'
<1> USE GarbageAssumption
<1>1. ASSUME NEW r \in Requests, Request(r) PROVE TypeOK'
  BY <1>1, SettleType DEF Request, TypeOK, ClientStates
<1>2. ASSUME NEW r \in Requests, WriteFails(r) PROVE TypeOK'
  <2>1. CASE r \in pending /\ state = "closed"
    BY <1>2, <2>1, SettleType DEF WriteFails, TypeOK, ClientStates
  <2>2. CASE r \in pending /\ state # "closed"
    BY <1>2, <2>2, PoisonType DEF WriteFails, TypeOK
  <2>3. CASE r \notin pending
    BY <1>2, <2>3 DEF WriteFails, TypeOK, client
  <2> QED BY <2>1, <2>2, <2>3
<1>3. ASSUME NEW r \in Requests, Receive(r) PROVE TypeOK'
  BY <1>3 DEF Receive, TypeOK, client
<1>4. ASSUME NEW r \in Requests, Reply(r) PROVE TypeOK'
  BY <1>4 DEF Reply, TypeOK, client
<1>5. ASSUME NEW n \in 1..Len(stdout), Data(n) PROVE TypeOK'
  <2>1. stdout' \in Seq(Requests \union {Garbage})
    BY <1>5, RestOfFrames DEF Data, TypeOK
  <2>2. CASE UNCHANGED <<client, child>>
    BY <1>5, <2>1, <2>2 DEF Data, TypeOK, client
  <2>3. ASSUME NEW answered, Settle(answered, "answered"),
               pending' = pending \ answered, UNCHANGED <<state, unexpected, child>>
        PROVE  TypeOK'
    BY <1>5, <2>1, <2>3, SettleType DEF Data, TypeOK
  <2>4. ASSUME NEW answered, Poison(answered), child' = Killed(child)
        PROVE  TypeOK'
    BY <1>5, <2>1, <2>4, PoisonType DEF Data, TypeOK, Killed
  <2> QED BY <1>5, <2>2, <2>3, <2>4 DEF Data
<1>6. CASE EmitGarbage BY <1>6 DEF EmitGarbage, TypeOK, client
<1>7. CASE Exit BY <1>7 DEF Exit, TypeOK, client, runtime
<1>8. CASE Die BY <1>8 DEF Die, TypeOK, client
<1>9. CASE ExitEvent BY <1>9, PoisonType DEF ExitEvent, TypeOK, runtime
<1>10. ASSUME NEW s \in Stops, Stop(s) PROVE TypeOK'
  BY <1>10 DEF Stop, TypeOK, runtime, ClientStates, Ending
<1>11. ASSUME NEW s \in Stops, KillTimer(s) PROVE TypeOK'
  BY <1>11 DEF KillTimer, TypeOK, client, runtime
<1>12. ASSUME NEW s \in Stops, StopReturns(s) PROVE TypeOK'
  BY <1>12 DEF StopReturns, TypeOK, runtime, ClientStates, Ending
<1>13. CASE UNCHANGED vars BY <1>13 DEF vars, client, runtime, TypeOK
<1> QED
  BY <1>1, <1>2, <1>3, <1>4, <1>5, <1>6, <1>7, <1>8, <1>9, <1>10, <1>11, <1>12,
     <1>13 DEF Next

(* The client, the pipes and the callers of stop() stay in the states the  *)
(* code has names for.                                                     *)
THEOREM ClientTypeCorrect == Safety => []TypeOK
<1>1. ASSUME Init PROVE TypeOK
  <2>1. stdout \in Seq(Requests \union {Garbage}) BY <1>1 DEF Init
  <2> QED BY <1>1, <2>1 DEF Init, TypeOK, ClientStates, Ending
<1> QED BY <1>1, TypeStep, PTL DEF Safety

-----------------------------------------------------------------------------
(* The orderly stop                                                        *)

(* A call of stop() that found the client running has ended that state for *)
(* good, and an unexpected termination can only have come before it.       *)
Orderly ==
  (\E s \in Stops : stop[s] \in Ending) => state # "running" /\ ~unexpected

(* Until a caller stops it the client is running or has been poisoned.     *)
Reported == state = "running" => ~unexpected

SilentInv == TypeOK /\ Orderly /\ Reported

LEMMA PoisonKeepsSilent ==
  ASSUME NEW answered, SilentInv, Poison(answered), stop' = stop
  PROVE  Orderly' /\ Reported'
  BY DEF Poison, SilentInv, Orderly, Reported, IsUnexpected, TypeOK

LEMMA SilentStep == ASSUME SilentInv, [Next]_vars PROVE SilentInv'
<1> USE DEF SilentInv
<1>0. TypeOK' BY TypeStep
<1>1. CASE UNCHANGED <<state, unexpected, stop>>
  BY <1>0, <1>1 DEF Orderly, Reported
<1>2. ASSUME NEW answered, Poison(answered), stop' = stop PROVE SilentInv'
  BY <1>0, <1>2, PoisonKeepsSilent
<1>3. ASSUME NEW r \in Requests, Request(r) \/ WriteFails(r) \/ Receive(r) \/ Reply(r)
      PROVE  SilentInv'
  BY <1>1, <1>2, <1>3 DEF Request, WriteFails, Receive, Reply, client
<1>4. ASSUME NEW n \in 1..Len(stdout), Data(n) PROVE SilentInv'
  BY <1>1, <1>2, <1>4 DEF Data, client
<1>5. CASE EmitGarbage \/ Exit \/ Die
  BY <1>1, <1>5 DEF EmitGarbage, Exit, Die, client
<1>6. CASE ExitEvent BY <1>2, <1>6 DEF ExitEvent
<1>7. ASSUME NEW s \in Stops, Stop(s) PROVE SilentInv'
  BY <1>0, <1>7 DEF Stop, Orderly, Reported, TypeOK, Ending
<1>8. ASSUME NEW s \in Stops, KillTimer(s) PROVE SilentInv'
  BY <1>1, <1>8 DEF KillTimer, client
<1>9. ASSUME NEW s \in Stops, StopReturns(s) PROVE SilentInv'
  BY <1>0, <1>9 DEF StopReturns, Orderly, Reported, TypeOK, Ending
<1>10. CASE UNCHANGED vars BY <1>1, <1>10 DEF vars, client
<1> QED BY <1>3, <1>4, <1>5, <1>6, <1>7, <1>8, <1>9, <1>10 DEF Next

LEMMA SilentInvariance == Safety => []SilentInv
<1>1. ASSUME Init PROVE Orderly /\ Reported
  BY <1>1 DEF Init, Orderly, Reported, Ending
<1>2. Safety => []TypeOK BY ClientTypeCorrect
<1>3. Init /\ TypeOK => SilentInv BY <1>1 DEF SilentInv
<1> QED BY <1>2, <1>3, SilentStep, PTL DEF Safety

(* However many callers stop a running client, and whatever its runtime    *)
(* does meanwhile, no unexpected termination is reported.                  *)
THEOREM OrderlyStopsAreSilent == Safety => []OrderlyStopIsSilent
<1>1. SilentInv => OrderlyStopIsSilent
  BY DEF SilentInv, Orderly, OrderlyStopIsSilent
<1> QED BY <1>1, SilentInvariance, PTL

-----------------------------------------------------------------------------
(* Nobody waits for a runtime that is gone                                 *)

(* pending is exactly who waits; a client that knows the runtime to be     *)
(* gone has emptied it; and while stop() waits for the exit event of a     *)
(* runtime it stopped, nothing else closes the client.                     *)
Accounted ==
  /\ \A r \in Requests : outcome[r] = "waiting" <=> r \in pending
  /\ state \in {"unavailable", "closed"} => pending = {}
  /\ exitSeen => state \in {"unavailable", "closed"}
  /\ state = "stopping" => \E s \in Stops : stop[s] # "idle"

AccountedInv == TypeOK /\ Accounted

LEMMA PoisonAccounts ==
  ASSUME NEW answered, AccountedInv, Poison(answered)
  PROVE  /\ \A r \in Requests : outcome'[r] = "waiting" <=> r \in pending'
         /\ pending' = {}
         /\ state' \in {"unavailable", "closed"}
  BY DEF Poison, Rejected, Settle, AccountedInv, Accounted, TypeOK

LEMMA AccountedStep ==
  ASSUME \A s, t \in Stops : s = t, AccountedInv, [Next]_vars
  PROVE  AccountedInv'
<1> USE DEF AccountedInv
<1>0. TypeOK' BY TypeStep
<1>1. CASE UNCHANGED <<client, exitSeen, stop>>
  BY <1>0, <1>1 DEF client, Accounted
<1>2. ASSUME NEW answered, Poison(answered) PROVE AccountedInv'
  BY <1>0, <1>2, PoisonAccounts DEF Accounted
<1>3. ASSUME NEW r \in Requests, Request(r) PROVE AccountedInv'
  BY <1>0, <1>3 DEF Request, Settle, Accounted, TypeOK
<1>4. ASSUME NEW r \in Requests, WriteFails(r) PROVE AccountedInv'
  BY <1>1, <1>2, <1>4 DEF WriteFails, Accounted, TypeOK
<1>5. ASSUME NEW r \in Requests, Receive(r) \/ Reply(r) PROVE AccountedInv'
  BY <1>1, <1>5 DEF Receive, Reply
<1>6. ASSUME NEW n \in 1..Len(stdout), Data(n) PROVE AccountedInv'
  <2>1. CASE UNCHANGED client BY <1>1, <1>6, <2>1 DEF Data
  <2>2. ASSUME NEW answered, state # "closed", Settle(answered, "answered"),
               pending' = pending \ answered, UNCHANGED <<state, exitSeen, stop>>
        PROVE  AccountedInv'
    BY <1>0, <2>2 DEF Settle, Accounted, TypeOK
  <2> QED BY <1>2, <1>6, <2>1, <2>2 DEF Data
<1>7. CASE EmitGarbage \/ Exit \/ Die
  BY <1>1, <1>7 DEF EmitGarbage, Exit, Die
<1>8. CASE ExitEvent BY <1>2, <1>8 DEF ExitEvent
<1>9. ASSUME NEW s \in Stops, Stop(s) PROVE AccountedInv'
  BY <1>0, <1>9 DEF Stop, Accounted, TypeOK
<1>10. ASSUME NEW s \in Stops, KillTimer(s) PROVE AccountedInv'
  BY <1>1, <1>10 DEF KillTimer
<1>11. ASSUME NEW s \in Stops, StopReturns(s) PROVE AccountedInv'
  BY <1>0, <1>11 DEF StopReturns, Accounted, TypeOK
<1>12. CASE UNCHANGED vars BY <1>1, <1>12 DEF vars
<1> QED
  BY <1>3, <1>4, <1>5, <1>6, <1>7, <1>8, <1>9, <1>10, <1>11, <1>12 DEF Next

(* With one caller of stop(), as every client of the CLI has, a request is *)
(* never left without its answer or its RuntimeUnavailableError once the   *)
(* client knows that the runtime is gone.                                  *)
THEOREM NobodyIsLeftWaiting ==
  ASSUME \A s, t \in Stops : s = t
  PROVE  Safety => []NothingIsLeftWaiting
<1>1. ASSUME Init PROVE Accounted BY <1>1 DEF Init, Accounted
<1>2. Init /\ TypeOK => AccountedInv BY <1>1 DEF AccountedInv
<1>3. AccountedInv /\ [Next]_vars => AccountedInv' BY AccountedStep
<1>4. AccountedInv => NothingIsLeftWaiting
  BY DEF AccountedInv, Accounted, NothingIsLeftWaiting
<1> QED BY <1>2, <1>3, <1>4, ClientTypeCorrect, PTL DEF Safety

-----------------------------------------------------------------------------
(* Answers to come are awaited                                             *)

Alive     == {"running", "stopping"}
Delivered == ToSet(stdout) \ {Garbage}

(* A request is on its way, in service or answered in the pipe, at one of  *)
(* the three and once, and while the client runs or ends its runtime it is *)
(* waited for.                                                             *)
Underway ==
  state \in Alive =>
    /\ stdin \intersect tasks = {} /\ (stdin \union tasks) \intersect Delivered = {}
    /\ \A i, j \in 1..Len(stdout) : stdout[i] = stdout[j] /\ stdout[i] # Garbage => i = j
    /\ \A r \in stdin \union tasks \union Delivered : outcome[r] = "waiting" /\ r \in pending

UnderwayInv == TypeOK /\ Underway

LEMMA FramesOf ==
  ASSUME NEW S, NEW s \in Seq(S)
  PROVE  \A x : x \in ToSet(s) <=> \E i \in 1..Len(s) : s[i] = x
BY DEF ToSet

LEMMA FramesAppended ==
  ASSUME NEW S, NEW s \in Seq(S), NEW x \in S
  PROVE  /\ Len(Append(s, x)) = Len(s) + 1 /\ Append(s, x)[Len(s) + 1] = x
         /\ \A i \in 1..Len(s) : Append(s, x)[i] = s[i]
         /\ ToSet(Append(s, x)) = ToSet(s) \union {x}
<1>1. Append(s, x) \in Seq(S) /\ Len(Append(s, x)) = Len(s) + 1 /\ Len(s) \in Nat
  OBVIOUS
<1>2. /\ Append(s, x)[Len(s) + 1] = x
      /\ \A i \in 1..Len(s) : Append(s, x)[i] = s[i]
  OBVIOUS
<1>3. ToSet(Append(s, x)) = ToSet(s) \union {x}
  <2>1. ASSUME NEW y \in ToSet(s) PROVE y \in ToSet(Append(s, x))
    <3>1. PICK i \in 1..Len(s) : s[i] = y BY <2>1, FramesOf
    <3>2. i \in 1..Len(Append(s, x)) /\ Append(s, x)[i] = y BY <1>1, <1>2, <3>1
    <3> QED BY <1>1, <3>2, FramesOf
  <2>2. x \in ToSet(Append(s, x))
    <3>1. Len(s) + 1 \in 1..Len(Append(s, x)) BY <1>1
    <3> QED BY <1>1, <1>2, <3>1, FramesOf
  <2>3. ASSUME NEW y \in ToSet(Append(s, x)) PROVE y \in ToSet(s) \union {x}
    <3>1. PICK i \in 1..Len(Append(s, x)) : Append(s, x)[i] = y BY <1>1, <2>3, FramesOf
    <3>2. CASE i \in 1..Len(s) BY <1>2, <3>1, <3>2, FramesOf
    <3>3. CASE i \notin 1..Len(s)
      <4>1. i = Len(s) + 1 BY <1>1, <3>3
      <4> QED BY <1>2, <3>1, <4>1
    <3> QED BY <3>2, <3>3
  <2> QED BY <2>1, <2>2, <2>3
<1> QED BY <1>1, <1>2, <1>3

(* What a chunk leaves of frames that come once.                           *)
LEMMA FramesLeft ==
  ASSUME NEW S, NEW s \in Seq(S), NEW x, NEW n \in 1..Len(s),
         \A i, j \in 1..Len(s) : s[i] = s[j] /\ s[i] # x => i = j
  PROVE  /\ \A i, j \in 1..Len(SubSeq(s, n + 1, Len(s))) :
              SubSeq(s, n + 1, Len(s))[i] = SubSeq(s, n + 1, Len(s))[j] /\ SubSeq(s, n + 1, Len(s))[i] # x => i = j
         /\ ToSet(SubSeq(s, n + 1, Len(s))) \subseteq ToSet(s)
         /\ ToSet(SubSeq(s, 1, n)) \intersect ToSet(SubSeq(s, n + 1, Len(s))) \subseteq {x}
<1> DEFINE rest  == SubSeq(s, n + 1, Len(s))
           chunk == SubSeq(s, 1, n)
<1>0. Len(s) \in Nat /\ n \in Nat /\ n <= Len(s)
  OBVIOUS
<1>1. /\ rest \in Seq(S) /\ Len(rest) = Len(s) - n
      /\ \A i \in 1..Len(rest) : rest[i] = s[n + i]
  OBVIOUS
<1>2. /\ chunk \in Seq(S) /\ Len(chunk) = n
      /\ \A i \in 1..Len(chunk) : chunk[i] = s[i]
  OBVIOUS
<1> HIDE DEF rest, chunk
<1>3. \A i, j \in 1..Len(rest) : rest[i] = rest[j] /\ rest[i] # x => i = j
  <2> SUFFICES ASSUME NEW i \in 1..Len(rest), NEW j \in 1..Len(rest), rest[i] = rest[j], rest[i] # x
               PROVE  i = j
    OBVIOUS
  <2>1. n + i \in 1..Len(s) /\ n + j \in 1..Len(s) BY <1>0, <1>1
  <2>2. s[n + i] = s[n + j] /\ s[n + i] # x BY <1>1
  <2>3. n + i = n + j BY <2>1, <2>2
  <2> QED BY <1>0, <2>3
<1>4. ASSUME NEW y \in ToSet(rest) PROVE \E i \in 1..Len(s) : s[i] = y /\ i > n
  <2>1. PICK i \in 1..Len(rest) : rest[i] = y BY <1>1, <1>4, FramesOf
  <2>2. n + i \in 1..Len(s) /\ n + i > n BY <1>0, <1>1
  <2> QED BY <1>1, <2>1, <2>2
<1>5. ToSet(rest) \subseteq ToSet(s)
  BY <1>4, FramesOf
<1>6. ASSUME NEW y \in ToSet(chunk), y \in ToSet(rest), y # x PROVE FALSE
  <2>1. PICK i \in 1..Len(chunk) : chunk[i] = y BY <1>2, <1>6, FramesOf
  <2>2. PICK j \in 1..Len(s) : s[j] = y /\ j > n BY <1>4, <1>6
  <2>3. i \in 1..Len(s) /\ s[i] = y /\ i <= n BY <1>0, <1>2, <2>1
  <2> QED BY <1>0, <1>6, <2>2, <2>3
<1> QED BY <1>3, <1>5, <1>6 DEF rest, chunk

LEMMA UnderwayStep == ASSUME UnderwayInv, [Next]_vars PROVE UnderwayInv'
<1> USE DEF UnderwayInv
<1>0. TypeOK' BY TypeStep
<1>1. CASE UNCHANGED <<state, pending, outcome, runtime>>
  BY <1>0, <1>1 DEF runtime, Underway, Delivered
<1>2. CASE state' \notin Alive
  BY <1>0, <1>2 DEF Underway
<1>3. ASSUME NEW answered, Poison(answered) PROVE UnderwayInv'
  <2>1. state' \notin Alive BY <1>3 DEF Poison, Alive
  <2> QED BY <1>2, <2>1
<1>4. ASSUME NEW r \in Requests, Request(r) PROVE UnderwayInv'
  <2>1. CASE state \notin Alive BY <1>2, <1>4, <2>1 DEF Request
  <2>2. CASE state \in Alive
    <3>1. r \notin stdin \union tasks \union Delivered
      BY <1>4, <2>2 DEF Request, Underway
    <3>2. /\ stdin \subseteq stdin' /\ stdin' \subseteq stdin \union {r} /\ pending \subseteq pending'
          /\ UNCHANGED <<state, tasks, stdout>>
          /\ \A q \in Requests \ {r} : outcome'[q] = outcome[q]
          /\ r \in stdin' => r \in pending' /\ outcome'[r] = "waiting"
      BY <1>4, <3>1 DEF Request, Settle
    <3>3. stdin \subseteq Requests /\ tasks \subseteq Requests /\ Delivered \subseteq Requests /\ Delivered' = Delivered
      BY <3>2, FramesOf DEF TypeOK, Delivered
    <3>4. stdin' \intersect tasks' = {} /\ (stdin' \union tasks') \intersect Delivered' = {}
      BY <2>2, <3>1, <3>2, <3>3 DEF Underway
    <3>5. \A q \in stdin' \union tasks' \union Delivered' : outcome'[q] = "waiting" /\ q \in pending'
      BY <2>2, <3>1, <3>2, <3>3 DEF Underway
    <3> QED BY <1>0, <2>2, <3>2, <3>4, <3>5 DEF Underway
  <2> QED BY <2>1, <2>2
<1>5. ASSUME NEW r \in Requests, WriteFails(r) PROVE UnderwayInv'
  <2>1. CASE state \notin Alive
    BY <1>2, <1>3, <1>5, <2>1 DEF WriteFails, client, Alive
  <2>2. CASE state \in Alive
    <3>1. r \in pending BY <1>5, <2>2 DEF WriteFails, Underway
    <3> QED BY <1>3, <1>5, <2>2, <3>1 DEF WriteFails, Alive
  <2> QED BY <2>1, <2>2
<1>6. ASSUME NEW r \in Requests, Receive(r) PROVE UnderwayInv'
  <2>1. /\ r \in stdin /\ stdin' = stdin \ {r} /\ tasks' = tasks \union {r}
        /\ UNCHANGED <<state, pending, outcome, stdout>> /\ Delivered' = Delivered
    BY <1>6 DEF Receive, client, Delivered
  <2> QED BY <1>0, <2>1 DEF Underway
<1>7. ASSUME NEW r \in Requests, Reply(r) PROVE UnderwayInv'
  <2>1. /\ r \in tasks /\ tasks' = tasks \ {r} /\ stdout' = Append(stdout, r)
        /\ UNCHANGED <<state, pending, outcome, stdin>>
    BY <1>7 DEF Reply, client
  <2>2. /\ stdout \in Seq(Requests \union {Garbage}) /\ r \in Requests \union {Garbage} /\ r # Garbage
        /\ Len(stdout) \in Nat
    BY GarbageAssumption DEF TypeOK
  <2>3. /\ Len(stdout') = Len(stdout) + 1 /\ stdout'[Len(stdout) + 1] = r
        /\ \A i \in 1..Len(stdout) : stdout'[i] = stdout[i]
        /\ ToSet(stdout') = ToSet(stdout) \union {r}
    BY <2>1, <2>2, FramesAppended
  <2>4. Delivered' = Delivered \union {r}
    BY <2>2, <2>3 DEF Delivered
  <2>5. CASE state \in Alive
    <3>1. r \notin Delivered /\ r \notin stdin BY <2>1, <2>5 DEF Underway
    <3>2. \A i \in 1..Len(stdout) : stdout[i] # r
      BY <2>2, <3>1, FramesOf DEF Delivered
    <3>3. \A i, j \in 1..Len(stdout') : stdout'[i] = stdout'[j] /\ stdout'[i] # Garbage => i = j
      <4> SUFFICES ASSUME NEW i \in 1..Len(stdout'), NEW j \in 1..Len(stdout'),
                          stdout'[i] = stdout'[j], stdout'[i] # Garbage
                   PROVE  i = j
        OBVIOUS
      <4>1. (i \in 1..Len(stdout) \/ i = Len(stdout) + 1) /\ (j \in 1..Len(stdout) \/ j = Len(stdout) + 1)
        BY <2>2, <2>3
      <4> QED BY <2>3, <2>5, <3>2, <4>1 DEF Underway
    <3> QED BY <1>0, <2>1, <2>4, <2>5, <3>1, <3>3 DEF Underway
  <2> QED BY <1>2, <2>1, <2>5
<1>8. ASSUME NEW n \in 1..Len(stdout), Data(n) PROVE UnderwayInv'
  <2>1. CASE state = "closed" /\ UNCHANGED client
    BY <1>2, <2>1 DEF client, Alive
  <2>2. ASSUME NEW answered, ToSet(SubSeq(stdout, 1, n)) = answered, state # "closed",
               Settle(answered, "answered"), pending' = pending \ answered, UNCHANGED state
        PROVE  UnderwayInv'
    <3>1. CASE state \in Alive
      <4>1. stdout' = SubSeq(stdout, n + 1, Len(stdout)) /\ UNCHANGED <<stdin, tasks>>
        BY <1>8 DEF Data
      <4>2. stdout \in Seq(Requests \union {Garbage}) BY DEF TypeOK
      <4>3. /\ \A i, j \in 1..Len(stdout') : stdout'[i] = stdout'[j] /\ stdout'[i] # Garbage => i = j
            /\ ToSet(stdout') \subseteq ToSet(stdout)
            /\ answered \intersect ToSet(stdout') \subseteq {Garbage}
        <5>1. \A i, j \in 1..Len(stdout) : stdout[i] = stdout[j] /\ stdout[i] # Garbage => i = j
          BY <3>1 DEF Underway
        <5> DEFINE rest  == SubSeq(stdout, n + 1, Len(stdout))
                   chunk == SubSeq(stdout, 1, n)
        <5>2. /\ \A i, j \in 1..Len(rest) : rest[i] = rest[j] /\ rest[i] # Garbage => i = j
              /\ ToSet(rest) \subseteq ToSet(stdout)
              /\ ToSet(chunk) \intersect ToSet(rest) \subseteq {Garbage}
          BY <4>2, <5>1, FramesLeft
        <5>3. stdout' = rest /\ answered = ToSet(chunk)
          BY <2>2, <4>1
        <5> HIDE DEF rest, chunk
        <5> QED BY <5>2, <5>3
      <4>4. Delivered' \subseteq Delivered /\ answered \intersect Delivered' = {}
        BY <4>3 DEF Delivered
      <4>5. ToSet(SubSeq(stdout, 1, n)) \subseteq ToSet(stdout)
        <5>1. /\ SubSeq(stdout, 1, n) \in Seq(Requests \union {Garbage}) /\ Len(SubSeq(stdout, 1, n)) = n
              /\ \A i \in 1..n : SubSeq(stdout, 1, n)[i] = stdout[i]
              /\ 1..n \subseteq 1..Len(stdout)
          BY <4>2
        <5>2. \A x \in ToSet(SubSeq(stdout, 1, n)) : \E i \in 1..n : SubSeq(stdout, 1, n)[i] = x
          BY ZenonT(60), <5>1, FramesOf
        <5>3. \A x \in ToSet(SubSeq(stdout, 1, n)) : \E i \in 1..Len(stdout) : stdout[i] = x
          BY <5>1, <5>2
        <5> QED BY <4>2, <5>3, FramesOf
      <4>6. answered \intersect (stdin \union tasks) = {}
        <5>1. answered \subseteq Delivered \union {Garbage} BY <2>2, <4>5 DEF Delivered
        <5>2. Garbage \notin stdin \union tasks BY GarbageAssumption DEF TypeOK
        <5> QED BY <3>1, <5>1, <5>2 DEF Underway
      <4>7. Delivered \subseteq Requests /\ stdin \union tasks \subseteq Requests
        BY <4>2, FramesOf DEF Delivered, TypeOK
      <4>8. \A r \in stdin \union tasks \union Delivered' : r \in Requests /\ r \notin answered /\ r \in stdin \union tasks \union Delivered
        BY <4>4, <4>6, <4>7
      <4>9. \A r \in stdin' \union tasks' \union Delivered' : outcome'[r] = "waiting" /\ r \in pending'
        BY <2>2, <3>1, <4>1, <4>8 DEF Underway, Settle
      <4> QED BY <1>0, <2>2, <3>1, <4>1, <4>3, <4>4, <4>9 DEF Underway
    <3> QED BY <1>2, <2>2, <3>1
  <2> QED BY <1>3, <1>8, <2>1, <2>2 DEF Data
<1>9. CASE EmitGarbage
  <2>1. stdout' = Append(stdout, Garbage) /\ UNCHANGED <<state, pending, outcome, stdin, tasks>>
    BY <1>9 DEF EmitGarbage, client
  <2>2. stdout \in Seq(Requests \union {Garbage}) /\ Garbage \in Requests \union {Garbage} /\ Len(stdout) \in Nat
    BY DEF TypeOK
  <2>3. /\ Len(stdout') = Len(stdout) + 1 /\ stdout'[Len(stdout) + 1] = Garbage
        /\ \A i \in 1..Len(stdout) : stdout'[i] = stdout[i]
        /\ ToSet(stdout') = ToSet(stdout) \union {Garbage}
    BY <2>1, <2>2, FramesAppended
  <2>4. Delivered' = Delivered BY <2>3 DEF Delivered
  <2>5. CASE state \in Alive
    <3>1. \A i, j \in 1..Len(stdout') : stdout'[i] = stdout'[j] /\ stdout'[i] # Garbage => i = j
      <4> SUFFICES ASSUME NEW i \in 1..Len(stdout'), NEW j \in 1..Len(stdout'),
                          stdout'[i] = stdout'[j], stdout'[i] # Garbage
                   PROVE  i = j
        OBVIOUS
      <4>1. i \in 1..Len(stdout) /\ j \in 1..Len(stdout)
        BY <2>2, <2>3
      <4> QED BY <2>3, <2>5, <4>1 DEF Underway
    <3> QED BY <1>0, <2>1, <2>4, <2>5, <3>1 DEF Underway
  <2> QED BY <1>2, <2>1, <2>5
<1>10. CASE Exit BY <1>1, <1>10 DEF Exit, client
<1>11. CASE Die
  <2>1. tasks' = {} /\ UNCHANGED <<state, pending, outcome, stdin, stdout>> /\ Delivered' = Delivered
    BY <1>11 DEF Die, client, Delivered
  <2> QED BY <1>0, <2>1 DEF Underway
<1>12. CASE ExitEvent BY <1>3, <1>12 DEF ExitEvent
<1>13. ASSUME NEW s \in Stops, Stop(s) \/ StopReturns(s) PROVE UnderwayInv'
  <2>1. state' \in Alive => state \in Alive
    BY <1>13 DEF Stop, StopReturns, Alive
  <2>2. UNCHANGED <<pending, outcome, stdin, tasks, stdout>> /\ Delivered' = Delivered
    BY <1>13 DEF Stop, StopReturns, runtime, Delivered
  <2> QED BY <1>0, <2>1, <2>2 DEF Underway
<1>14. ASSUME NEW s \in Stops, KillTimer(s) PROVE UnderwayInv'
  BY <1>1, <1>14 DEF KillTimer, client
<1>15. CASE UNCHANGED vars BY <1>1, <1>15 DEF vars, client
<1> QED
  BY <1>4, <1>5, <1>6, <1>7, <1>8, <1>9, <1>10, <1>11, <1>12, <1>13, <1>14, <1>15 DEF Next

(* Nothing is on its way at first.                                         *)
LEMMA NothingDelivered == ASSUME Init PROVE Underway
<1>1. Delivered = {}
  <2>1. stdout \in Seq(Requests) /\ Len(stdout) = 0 BY DEF Init
  <2>2. \A x : x \in ToSet(stdout) <=> \E i \in 1..0 : stdout[i] = x BY <2>1, FramesOf
  <2> QED BY <2>2 DEF Delivered
<1> QED BY <1>1 DEF Init, Underway

(* Whatever the order of requests, answers, garbage, kills and stops: as   *)
(* long as the client runs or ends its runtime, no answer that may come    *)
(* meets a client that does not wait for it, and for which it would kill   *)
(* its runtime.                                                            *)
THEOREM ComingAnswersAreAwaited == Safety => []AnswersAreAwaited
<1>1. ASSUME Init PROVE Underway BY <1>1, NothingDelivered
<1>2. Init /\ TypeOK => UnderwayInv BY <1>1 DEF UnderwayInv
<1>3. UnderwayInv /\ [Next]_vars => UnderwayInv' BY UnderwayStep
<1>4. UnderwayInv => AnswersAreAwaited
  BY DEF UnderwayInv, Underway, AnswersAreAwaited, Delivered, Alive
<1> QED BY <1>2, <1>3, <1>4, ClientTypeCorrect, PTL DEF Safety

(* A request waits exactly as long as its answer may come.                 *)
THEOREM RequestsWaitForAnswers ==
  ASSUME \A s, t \in Stops : s = t
  PROVE  Safety => []WaitingIsForAnAnswer
<1>1. NothingIsLeftWaiting /\ AnswersAreAwaited => WaitingIsForAnAnswer
  BY DEF WaitingIsForAnAnswer
<1> QED BY <1>1, NobodyIsLeftWaiting, ComingAnswersAreAwaited, PTL

-----------------------------------------------------------------------------
(* The service that the client and its runtime are together                *)

(* Who waits is in pending, also for a client closed while its runtime     *)
(* ends; and a running runtime has only what somebody waits for.           *)
Wanted ==
  /\ stdin \intersect tasks = {} /\ \A r \in stdin \union tasks : outcome[r] # "new"
  /\ \A r \in Requests : outcome[r] = "waiting" <=> r \in pending
  /\ state = "unavailable" => pending = {}
  /\ child = "running" => \A r \in stdin \union tasks : outcome[r] = "waiting"

ServiceInv == UnderwayInv /\ Wanted

(* The answers of a chunk are of requests that were read.                  *)
LEMMA AnswersWereServed ==
  ASSUME ServiceInv, state # "closed", NEW n \in 1..Len(stdout),
         NEW answered \in Answered(SubSeq(stdout, 1, n))
  PROVE  answered \subseteq pending /\ answered \intersect (stdin \union tasks) = {}
<1> DEFINE chunk == SubSeq(stdout, 1, n)
<1>1. stdout \in Seq(Requests \union {Garbage})
  BY DEF ServiceInv, UnderwayInv, TypeOK
<1>2. /\ chunk \in Seq(Requests \union {Garbage}) /\ DOMAIN chunk = 1..n
      /\ \A i \in 1..n : chunk[i] = stdout[i] /\ i \in 1..Len(stdout)
  BY <1>1
<1> HIDE DEF chunk
<1>3. ASSUME NEW r \in answered PROVE r \in pending /\ \E i \in 1..Len(stdout) : stdout[i] = r
  <2>1. PICK i \in DOMAIN chunk : chunk[i] = r /\ \A j \in 1..i : chunk[j] \in pending
    BY <1>3 DEF Answered, chunk
  <2>2. i \in 1..i BY <1>2, <2>1
  <2> QED BY <1>2, <2>1, <2>2
<1>4. answered \subseteq pending /\ answered \subseteq ToSet(stdout)
  BY <1>1, <1>3, FramesOf
<1>5. CASE state = "unavailable" BY <1>4, <1>5 DEF ServiceInv, Wanted
<1>6. CASE state \in Alive
  <2>1. pending \subseteq Requests BY DEF ServiceInv, UnderwayInv, TypeOK
  <2>2. answered \subseteq Delivered BY <1>4, <2>1, GarbageAssumption DEF Delivered
  <2> QED BY <1>4, <1>6, <2>2 DEF ServiceInv, UnderwayInv, Underway
<1> QED BY <1>5, <1>6 DEF ServiceInv, UnderwayInv, TypeOK, ClientStates, Alive

LEMMA PoisonKeepsWanted ==
  ASSUME ServiceInv, NEW answered, answered \subseteq pending, Poison(answered),
         stdin' \subseteq stdin, tasks' = tasks, child' # "running",
         state = "closed" => answered = {}
  PROVE  Wanted'
<1> USE DEF ServiceInv, UnderwayInv
<1>1. \A r \in Requests : outcome'[r] = "waiting" <=> r \in pending'
  BY DEF Poison, Rejected, Settle, Wanted, TypeOK
<1>2. \A r \in stdin' \union tasks' : outcome'[r] # "new"
  BY DEF Poison, Rejected, Settle, Wanted, TypeOK
<1>3. state' = "unavailable" => pending' = {}
  BY DEF Poison
<1> QED BY <1>1, <1>2, <1>3 DEF Wanted

LEMMA WantedStep == ASSUME ServiceInv, [Next]_vars PROVE Wanted'
<1> USE DEF ServiceInv
<1>0. TypeOK BY DEF UnderwayInv
<1>1. ASSUME UNCHANGED <<pending, outcome, stdin, tasks>>, state' = "unavailable" => state = "unavailable",
             child' = "running" => child = "running"
      PROVE  Wanted'
  BY <1>1 DEF Wanted
<1>2. ASSUME NEW r \in Requests, Request(r) PROVE Wanted'
  <2>1. outcome[r] = "new" /\ r \notin stdin \union tasks
    BY <1>2 DEF Request, Wanted
  <2>2. CASE state # "running"
    BY <1>0, <1>2, <2>1, <2>2 DEF Request, Settle, Wanted, TypeOK
  <2>3. CASE state = "running"
    BY <1>0, <1>2, <2>1, <2>3 DEF Request, Settle, Wanted, TypeOK
  <2> QED BY <2>2, <2>3
<1>3. ASSUME NEW r \in Requests, WriteFails(r) PROVE Wanted'
  <2>1. r \in stdin /\ stdin' = stdin \ {r} /\ UNCHANGED <<tasks, child>> /\ child = "exited"
    BY <1>3 DEF WriteFails
  <2>2. CASE r \in pending /\ state = "closed"
    BY <1>0, <1>3, <2>1, <2>2 DEF WriteFails, Settle, Wanted, TypeOK
  <2>3. CASE Poison({})
    BY <2>1, <2>3, PoisonKeepsWanted
  <2>4. CASE UNCHANGED client
    BY <2>1, <2>4 DEF Wanted, client
  <2> QED BY <1>3, <2>2, <2>3, <2>4 DEF WriteFails
<1>4. ASSUME NEW r \in Requests, Receive(r) PROVE Wanted'
  BY <1>4 DEF Receive, Wanted, client
<1>5. ASSUME NEW r \in Requests, Reply(r) PROVE Wanted'
  BY <1>5 DEF Reply, Wanted, client
<1>6. ASSUME NEW n \in 1..Len(stdout), Data(n) PROVE Wanted'
  <2>1. CASE UNCHANGED <<client, child>>
    BY <1>1, <1>6, <2>1 DEF Data, client
  <2>2. ASSUME NEW answered \in Answered(SubSeq(stdout, 1, n)), state # "closed",
               Settle(answered, "answered"), pending' = pending \ answered, UNCHANGED <<state, child, stdin, tasks>>
        PROVE  Wanted'
    <3>1. answered \subseteq pending /\ answered \intersect (stdin \union tasks) = {}
      BY <2>2, AnswersWereServed
    <3> QED BY <1>0, <2>2, <3>1 DEF Settle, Wanted, TypeOK
  <2>3. ASSUME NEW answered \in Answered(SubSeq(stdout, 1, n)), state # "closed",
               Poison(answered), child' = Killed(child), UNCHANGED <<stdin, tasks>>
        PROVE  Wanted'
    BY <2>3, AnswersWereServed, PoisonKeepsWanted DEF Killed
  <2> QED BY <1>6, <2>1, <2>2, <2>3 DEF Data
<1>7. CASE EmitGarbage \/ Exit
  BY <1>1, <1>7 DEF EmitGarbage, Exit, client, runtime
<1>8. CASE Die
  BY <1>8 DEF Die, Wanted, client
<1>9. CASE ExitEvent
  BY <1>9, PoisonKeepsWanted DEF ExitEvent, runtime
<1>10. ASSUME NEW s \in Stops, Stop(s) \/ KillTimer(s) \/ StopReturns(s) PROVE Wanted'
  BY <1>1, <1>10 DEF Stop, KillTimer, StopReturns, client, runtime
<1>11. CASE UNCHANGED vars
  BY <1>1, <1>11 DEF vars, client, runtime
<1> QED
  BY <1>2, <1>3, <1>4, <1>5, <1>6, <1>7, <1>8, <1>9, <1>10, <1>11 DEF Next

(* How far a request is, for whoever keeps the invariant.                  *)
Stage(r) == IF outcome[r] # "waiting" THEN outcome[r] ELSE IF r \in stdin THEN "sent" ELSE "served"

LEMMA StageOf ==
  LET mapped == [r \in Requests |-> IF Served(r) THEN "served"
                                    ELSE IF outcome[r] # "waiting" THEN outcome[r]
                                    ELSE IF r \in stdin THEN "sent" ELSE "served"]
      plain  == [r \in Requests |-> Stage(r)]
  IN /\ ServiceInv => mapped = plain
     /\ ServiceInv' => mapped' = plain'
<1>1. ServiceInv => \A r \in Requests :
        (IF Served(r) THEN "served" ELSE IF outcome[r] # "waiting" THEN outcome[r]
         ELSE IF r \in stdin THEN "sent" ELSE "served") = Stage(r)
  BY DEF ServiceInv, Wanted, Served, Stage
<1>2. ServiceInv' => \A r \in Requests :
        (IF Served(r) THEN "served" ELSE IF outcome[r] # "waiting" THEN outcome[r]
         ELSE IF r \in stdin THEN "sent" ELSE "served")' = Stage(r)'
  BY DEF ServiceInv, Wanted, Served, Stage
<1> QED BY <1>1, <1>2

LEMMA StageMoves ==
  ASSUME ServiceInv, ServiceInv', NEW r \in Requests, NEW from, NEW to, UNCHANGED unexpected,
         Stage(r) = from, Stage(r)' = to, \A q \in Requests \ {r} : Stage(q)' = Stage(q),
         (state = "running") = (state' = "running")
  PROVE  Service!Reaches(r, from, to)
<1> DEFINE f == [q \in Requests |-> Stage(q)]
<1>1. f' = [f EXCEPT ![r] = to] /\ f[r] = from
  OBVIOUS
<1> QED BY <1>1, StageOf DEF Service!Reaches

LEMMA StageStays ==
  ASSUME ServiceInv, ServiceInv', UNCHANGED unexpected, (state = "running") = (state' = "running"),
         \A r \in Requests : Stage(r)' = Stage(r)
  PROVE  UNCHANGED Service!vars
BY StageOf DEF Service!vars

(* A poisoned client has answered and then failed.                         *)
LEMMA PoisonFails ==
  ASSUME ServiceInv, ServiceInv', state # "closed", NEW answered, Poison(answered), answered \subseteq pending,
         answered \intersect stdin = {}
  PROVE  Service!Fail(answered)
<1> USE DEF ServiceInv, UnderwayInv
<1> DEFINE f == [q \in Requests |-> Stage(q)]
<1>1. answered \subseteq Requests /\ \A r \in answered : Stage(r) = "served"
  BY DEF Wanted, Stage, TypeOK
<1>2. \A r \in Requests : Stage(r)' = IF r \in answered THEN "answered"
                                     ELSE IF Stage(r) \in Service!Waiting THEN "unavailable"
                                     ELSE Stage(r)
  BY DEF Poison, Rejected, Wanted, Stage, TypeOK, Service!Waiting
<1>3. f' = [r \in Requests |-> IF r \in answered THEN "answered"
                               ELSE IF f[r] \in Service!Waiting THEN "unavailable" ELSE f[r]]
  BY <1>2
<1>4. \A r \in answered : f[r] = "served"
  BY <1>1
<1>5. (state' = "running") = FALSE /\ unexpected' = (unexpected \/ state = "running")
  BY DEF Poison, IsUnexpected
<1> QED BY <1>3, <1>4, <1>5, StageOf DEF Service!Fail, Service!Served

LEMMA ServiceStep ==
  ASSUME ServiceInv, ServiceInv', [Next]_vars
  PROVE  [Service!Next]_(Service!vars)
<1> USE DEF ServiceInv
<1>0. TypeOK BY DEF UnderwayInv
<1>1. ASSUME UNCHANGED <<outcome, stdin, unexpected>>, (state = "running") = (state' = "running")
      PROVE  UNCHANGED Service!vars
  BY <1>1, StageStays DEF Stage
<1>2. ASSUME NEW r \in Requests, Request(r) PROVE Service!Send(r) \/ Service!Refuse(r)
  <2>1. outcome[r] = "new" /\ r \notin stdin /\ Stage(r) = "new" /\ UNCHANGED <<unexpected, state>>
    BY <1>2 DEF Request, Wanted, Stage
  <2>2. \A q \in Requests \ {r} : Stage(q)' = Stage(q)
    BY <1>2 DEF Request, Settle, Stage
  <2>3. CASE state # "running"
    <3>1. Stage(r)' = "unavailable" BY <1>2, <2>3 DEF Request, Settle, Stage
    <3> QED BY <2>1, <2>2, <2>3, <3>1, StageMoves DEF Service!Refuse
  <2>4. CASE state = "running"
    <3>1. Stage(r)' = "sent" BY <1>2, <2>4 DEF Request, Settle, Stage
    <3> QED BY <2>1, <2>2, <2>4, <3>1, StageMoves DEF Service!Send
  <2> QED BY <2>3, <2>4
<1>3. ASSUME NEW r \in Requests, WriteFails(r)
      PROVE  Service!Lose(r) \/ Service!Fail({}) \/ UNCHANGED Service!vars
  <2>1. r \in stdin /\ stdin' = stdin \ {r}
    BY <1>3 DEF WriteFails
  <2>2. CASE r \in pending /\ state = "closed"
    <3>1. /\ Settle({r}, "unavailable") /\ UNCHANGED <<state, unexpected>> /\ outcome[r] = "waiting"
          /\ Stage(r) = "sent" /\ Stage(r)' = "unavailable"
      BY <1>3, <2>1, <2>2 DEF WriteFails, Settle, Wanted, Stage
    <3>2. \A q \in Requests \ {r} : Stage(q)' = Stage(q)
      BY <2>1, <3>1 DEF Settle, Stage
    <3> QED BY <2>2, <3>1, <3>2, StageMoves DEF Service!Lose
  <2>3. CASE state # "closed" /\ Poison({})
    BY <2>3, PoisonFails
  <2>4. CASE r \notin pending
    <3>1. UNCHANGED client /\ outcome[r] # "waiting"
      BY <1>3, <2>4 DEF WriteFails, Wanted
    <3> QED BY <2>1, <3>1, StageStays DEF client, Stage
  <2> QED BY <1>3, <2>2, <2>3, <2>4 DEF WriteFails
<1>4. ASSUME NEW r \in Requests, Receive(r) PROVE Service!Serve(r)
  <2>1. /\ r \in stdin /\ stdin' = stdin \ {r} /\ outcome[r] = "waiting"
        /\ UNCHANGED <<outcome, unexpected, state>>
    BY <1>4 DEF Receive, Wanted, client
  <2> QED BY <2>1, StageMoves DEF Stage, Service!Serve
<1>5. ASSUME NEW n \in 1..Len(stdout), Data(n)
      PROVE  (\E rs \in SUBSET Requests : Service!Answer(rs) \/ Service!Fail(rs)) \/ UNCHANGED Service!vars
  <2>1. UNCHANGED stdin BY <1>5 DEF Data
  <2>2. CASE UNCHANGED client
    BY <1>1, <2>1, <2>2 DEF client
  <2>3. ASSUME state # "closed" PROVE \E rs \in SUBSET Requests : Service!Answer(rs) \/ Service!Fail(rs)
    <3>1. PICK answered \in Answered(SubSeq(stdout, 1, n)) :
            \/ Settle(answered, "answered") /\ UNCHANGED <<state, unexpected>>
            \/ Poison(answered)
      BY <1>5, <2>3 DEF Data
    <3>2. answered \subseteq pending /\ answered \intersect stdin = {} /\ answered \subseteq Requests
      BY <1>0, <2>3, AnswersWereServed DEF TypeOK
    <3>3. CASE Poison(answered)
      BY <2>3, <3>2, <3>3, PoisonFails
    <3>4. CASE Settle(answered, "answered") /\ UNCHANGED <<state, unexpected>>
      <4> DEFINE f == [q \in Requests |-> Stage(q)]
      <4>1. \A r \in answered : f[r] = "served"
        BY <3>2 DEF Wanted, Stage
      <4>2. f' = [r \in Requests |-> IF r \in answered THEN "answered" ELSE f[r]]
        BY <2>1, <3>4 DEF Settle, Stage
      <4>3. Service!Answer(answered)
        BY <3>4, <4>1, <4>2, StageOf DEF Service!Answer, Service!Served
      <4> QED BY <3>2, <4>3
    <3> QED BY <3>1, <3>3, <3>4
  <2> QED BY <1>5, <2>2, <2>3 DEF Data
<1>6. ASSUME NEW r \in Requests, Reply(r) PROVE UNCHANGED Service!vars
  BY <1>1, <1>6 DEF Reply, client
<1>7. CASE EmitGarbage \/ Exit \/ Die \/ UNCHANGED vars
  BY <1>1, <1>7 DEF EmitGarbage, Exit, Die, client, runtime, vars
<1>8. CASE ExitEvent
  <2>1. CASE state = "closed"
    <3>1. UNCHANGED <<state, unexpected, stdin>> /\ Settle({}, "answered")
      BY <1>8, <2>1 DEF ExitEvent, Poison, runtime
    <3> QED BY <3>1, StageStays DEF Settle, Stage
  <2>2. CASE state # "closed"
    BY <1>8, <2>2, PoisonFails DEF ExitEvent, Service!Next
  <2> QED BY <2>1, <2>2
<1>9. ASSUME NEW s \in Stops, Stop(s) \/ KillTimer(s) \/ StopReturns(s)
      PROVE  Service!Stop \/ UNCHANGED Service!vars
  <2>1. UNCHANGED <<outcome, stdin, unexpected>> /\ (state' = "running" => state = "running")
    BY <1>9 DEF Stop, KillTimer, StopReturns, client, runtime
  <2>2. CASE state = "running" /\ state' # "running"
    <3>1. \A r \in Requests : Stage(r)' = Stage(r) BY <2>1 DEF Stage
    <3> QED BY <2>1, <2>2, <3>1, StageOf DEF Service!Stop
  <2> QED BY <1>1, <2>1, <2>2
<1> QED
  BY <1>2, <1>3, <1>4, <1>5, <1>6, <1>7, <1>8, <1>9 DEF Next, Service!Next

(* Whatever fails, and however many callers stop it, client and runtime    *)
(* keep what the service promises: no request is served twice, or after    *)
(* its caller was told that the runtime is gone; no answer is of a request *)
(* that was not served; when the client gives up it tells all who wait;    *)
(* and a failure is reported exactly when no stop() came before it.        *)
THEOREM ClientKeepsService == Safety => ImplementsService
<1>1. ASSUME Init PROVE Underway /\ Wanted /\ Service!Init
  <2>1. Underway BY <1>1, NothingDelivered
  <2>2. Wanted BY <1>1 DEF Init, Wanted
  <2>3. Service!Init BY <1>1 DEF Init, Service!Init, Served
  <2> QED BY <2>1, <2>2, <2>3
<1>2. Init /\ TypeOK => ServiceInv BY <1>1 DEF ServiceInv, UnderwayInv
<1>3. ServiceInv /\ [Next]_vars => ServiceInv'
  BY UnderwayStep, WantedStep DEF ServiceInv
<1>4. ServiceInv /\ ServiceInv' /\ [Next]_vars => [Service!Next]_(Service!vars)
  BY ServiceStep
<1>5. Init => Service!Init BY <1>1
<1> QED BY <1>2, <1>3, <1>4, <1>5, ClientTypeCorrect, PTL DEF Safety, ImplementsService, Service!Safety

-----------------------------------------------------------------------------
(* The one credential of a request                                         *)

(* A token that was found in exactly one place.                            *)
FoundIn(token, q) ==
  \/ q.header = <<"present", token>> /\ (compatible => q.query = <<>>)
  \/ compatible /\ q.header[1] = "none" /\ q.query = <<token>>

Queries == {<<>>, <<1, 1>>} \union {<<t>> : t \in Tokens}
Headers == {<<"none", 0>>} \union {"present"} \X (0..MaxTokens)

(* resolveHttpCredential yields at most one credential, and says where it  *)
(* stood.                                                                  *)
LEMMA CredentialIsFound ==
  ASSUME NEW q \in Incoming, NEW token \in Credentials(q)
  PROVE  FoundIn(token, q)
<1> DEFINE headers == IF q.header[1] = "none" THEN {} ELSE {q.header[2]}
<1>1. q.header \in Headers /\ q.query \in Queries
  BY DEF Incoming, Headers, Queries
<1>2. headers = {} \/ (q.header = <<"present", q.header[2]>> /\ headers = {q.header[2]})
  BY <1>1 DEF Headers
<1>3. headers = {} => q.header[1] = "none"
  OBVIOUS
<1>4. CASE ~compatible \/ q.query = <<>>
  <2>1. token \in headers
    BY <1>4 DEF Credentials
  <2> QED BY <2>1, <1>2, <1>4 DEF FoundIn
<1>5. CASE compatible /\ q.query # <<>>
  <2>1. ~(~q.mcp \/ Len(q.query) > 1 \/ headers # {})
    BY <1>5 DEF Credentials
  <2>2. token = q.query[1]
    BY <1>5, <2>1 DEF Credentials
  <2>3. q.query = <<q.query[1]>>
    <3>1. q.query # <<1, 1>>
      BY <2>1
    <3> QED BY <3>1, <1>1, <1>5 DEF Queries
  <2> QED BY <2>1, <2>2, <2>3, <1>3, <1>5 DEF FoundIn
<1> QED BY <1>4, <1>5

-----------------------------------------------------------------------------
(* The inductive invariant of ConnectorAccess                              *)

Steps == {"none", "checking", "answered"}

(* A request that is being checked carries a token it presented, and the   *)
(* current one is among those that have been current.                      *)
CheckedInv ==
  \A r \in HttpRequests :
    /\ request[r].at \in Steps
    /\ request[r].at = "checking" =>
         /\ FoundIn(request[r].token, request[r].asked)
         /\ stored \in since[r]
    /\ request[r].at = "answered" /\ request[r].status = 200 =>
         /\ FoundIn(request[r].token, request[r].asked)
         /\ request[r].token \in since[r] \ {0}

AccessInv ==
  /\ DOMAIN request = HttpRequests
  /\ DOMAIN since = HttpRequests
  /\ CheckedInv

(* It holds before the first request.                                      *)
LEMMA InitAccess == ConnectorInit => AccessInv
BY DEF ConnectorInit, AccessInv, CheckedInv, NoRequest, Steps

(* A request arrives: what has at once an answer has it without status 200. *)
LEMMA ArriveKeepsAccess ==
  ASSUME AccessInv, NEW r \in HttpRequests, Arrive(r)
  PROVE  AccessInv'
<1>1. PICK q \in Incoming :
        LET refused == Status(q) # 200
            unknown == Credentials(q) \ {0} = {}
        IN request' = [request EXCEPT ![r] =
             [at     |-> IF refused \/ unknown THEN "answered" ELSE "checking",
              status |-> IF refused THEN Status(q) ELSE IF unknown THEN 401 ELSE 0,
              token  |-> IF unknown THEN 0 ELSE CHOOSE t \in Credentials(q) : t # 0,
              asked  |-> [header |-> q.header, query |-> q.query]]]
  BY DEF Arrive
<1>2. /\ DOMAIN request' = HttpRequests /\ DOMAIN since' = HttpRequests
      /\ \A s \in HttpRequests \ {r} : request'[s] = request[s] /\ since'[s] = since[s]
      /\ since'[r] = {stored} /\ stored' = stored /\ compatible' = compatible
  BY <1>1 DEF Arrive, AccessInv
<1>3. request'[r].at \in {"answered", "checking"}
  BY <1>1 DEF AccessInv
<1>4. request'[r].at = "answered" => request'[r].status # 200
  BY <1>1 DEF AccessInv
<1>5. request'[r].at = "checking" => FoundIn(request'[r].token, request'[r].asked)
  <2> SUFFICES ASSUME request'[r].at = "checking"
               PROVE  FoundIn(request'[r].token, request'[r].asked)
    OBVIOUS
  <2> DEFINE token == CHOOSE t \in Credentials(q) : t # 0
  <2>1. Credentials(q) \ {0} # {}
    BY <1>1 DEF AccessInv
  <2>2. token \in Credentials(q)
    BY <2>1
  <2>3. FoundIn(token, q)
    BY <2>2, CredentialIsFound
  <2>4. request'[r].token = token /\ request'[r].asked = [header |-> q.header, query |-> q.query]
    BY <1>1, <2>1 DEF AccessInv
  <2> QED BY <2>3, <2>4 DEF FoundIn
<1> QED BY <1>2, <1>3, <1>4, <1>5 DEF AccessInv, CheckedInv, Steps, FoundIn

(* The rename of a rotate is seen by every request that is being checked.  *)
LEMMA FinishRotateKeepsAccess ==
  ASSUME AccessInv, NEW t, FinishRotate(t)
  PROVE  AccessInv'
BY DEF AccessInv, CheckedInv, FoundIn, FinishRotate, Steps

(* The comparison is with what is stored at that moment.                   *)
LEMMA AuthenticateKeepsAccess ==
  ASSUME AccessInv, NEW r \in HttpRequests, Authenticate(r)
  PROVE  AccessInv'
<1>1. /\ request[r].at = "checking"
      /\ request' = [request EXCEPT ![r].at = "answered",
                                    ![r].status = IF Matches(request[r].token) THEN 200 ELSE 401]
      /\ since' = since /\ stored' = stored /\ compatible' = compatible
  BY DEF Authenticate
<1>2. \A s \in HttpRequests \ {r} : request'[s] = request[s]
  BY <1>1 DEF AccessInv
<1>3. request'[r].at = "answered" /\ request'[r].token = request[r].token /\ request'[r].asked = request[r].asked
  BY <1>1 DEF AccessInv
<1>4. request'[r].status = 200 => request[r].token = stored /\ stored # 0
  BY <1>1 DEF AccessInv, Matches
<1> QED BY <1>1, <1>2, <1>3, <1>4 DEF AccessInv, CheckedInv, FoundIn, Steps

(* Every step of a rotate and of a request keeps the invariant.            *)
LEMMA StepKeepsAccess == AccessInv /\ [ConnectorNext]_connectorVars => AccessInv'
<1> SUFFICES ASSUME AccessInv, [ConnectorNext]_connectorVars PROVE AccessInv'
  OBVIOUS
<1>1. CASE StartRotate
  BY <1>1 DEF AccessInv, CheckedInv, FoundIn, StartRotate
<1>2. ASSUME NEW t \in Tokens, FinishRotate(t) PROVE AccessInv'
  BY <1>2, FinishRotateKeepsAccess
<1>3. ASSUME NEW t \in Tokens, AbandonRotate(t) PROVE AccessInv'
  BY <1>3 DEF AccessInv, CheckedInv, FoundIn, AbandonRotate
<1>4. ASSUME NEW r \in HttpRequests, Arrive(r) PROVE AccessInv'
  BY <1>4, ArriveKeepsAccess
<1>5. ASSUME NEW r \in HttpRequests, Authenticate(r) PROVE AccessInv'
  BY <1>5, AuthenticateKeepsAccess
<1>6. ASSUME NEW r \in HttpRequests, HttpAnswered(r) PROVE AccessInv'
  BY <1>6 DEF AccessInv, CheckedInv, FoundIn, HttpAnswered, NoRequest, Steps
<1>7. CASE UNCHANGED connectorVars
  BY <1>7 DEF AccessInv, CheckedInv, FoundIn, connectorVars
<1> QED BY <1>1, <1>2, <1>3, <1>4, <1>5, <1>6, <1>7 DEF ConnectorNext

(* What is answered 200 was let in on a token that was current at some     *)
(* moment since the request arrived, however many requests and rotations   *)
(* interleave (http.ts, bearer-auth.ts authenticate, credential-store.ts   *)
(* rotate).                                                                *)
THEOREM OnlyCurrentTokensEnter == ConnectorSpec => []OnlyACurrentTokenEnters
<1>1. AccessInv => OnlyACurrentTokenEnters
  BY DEF AccessInv, CheckedInv, FoundIn, OnlyACurrentTokenEnters
<1> QED BY InitAccess, StepKeepsAccess, <1>1, PTL DEF ConnectorSpec

-----------------------------------------------------------------------------
(* Milestones                                                              *)

(* The last n of a sequence, as a sequence.                                *)
LEMMA LastOfProperties ==
  ASSUME NEW S, NEW s \in Seq(S), NEW n \in Nat
  PROVE  /\ LastOf(s, n) \in Seq(S)
         /\ Len(LastOf(s, n)) = IF Len(s) <= n THEN Len(s) ELSE n
         /\ \A i \in 1..Len(LastOf(s, n)) : LastOf(s, n)[i] = s[Len(s) - Len(LastOf(s, n)) + i]
<1>1. CASE Len(s) <= n
  BY <1>1 DEF LastOf
<1>2. CASE ~(Len(s) <= n)
  <2>1. LastOf(s, n) = SubSeq(s, Len(s) - n + 1, Len(s))
    BY <1>2 DEF LastOf
  <2> QED BY <1>2, <2>1
<1> QED BY <1>1, <1>2

(* To keep the last n after each addition is to keep the last n of all:    *)
(* upsert compacts the list it has read, not the whole history.            *)
LEMMA LastOfAppend ==
  ASSUME NEW S, NEW s \in Seq(S), NEW x \in S, NEW n \in Nat
  PROVE  LastOf(Append(LastOf(s, n), x), n) = LastOf(Append(s, x), n)
<1> DEFINE kept == LastOf(s, n)
           t    == Append(kept, x)
           u    == Append(s, x)
           a    == LastOf(t, n)
           b    == LastOf(u, n)
<1>1. /\ kept \in Seq(S)
      /\ Len(kept) = IF Len(s) <= n THEN Len(s) ELSE n
      /\ \A i \in 1..Len(kept) : kept[i] = s[Len(s) - Len(kept) + i]
  BY LastOfProperties
<1> HIDE DEF kept
<1>2. /\ t \in Seq(S) /\ Len(t) = Len(kept) + 1 /\ t[Len(t)] = x
      /\ \A i \in 1..Len(kept) : t[i] = kept[i]
  BY <1>1
<1>3. /\ u \in Seq(S) /\ Len(u) = Len(s) + 1 /\ u[Len(u)] = x
      /\ \A i \in 1..Len(s) : u[i] = s[i]
  OBVIOUS
<1> HIDE DEF t, u, a, b
<1>4. /\ a \in Seq(S)
      /\ Len(a) = IF Len(t) <= n THEN Len(t) ELSE n
      /\ \A i \in 1..Len(a) : a[i] = t[Len(t) - Len(a) + i]
  <2>1. t \in Seq(S)
    BY <1>2
  <2> QED BY <2>1, LastOfProperties DEF a
<1>5. /\ b \in Seq(S)
      /\ Len(b) = IF Len(u) <= n THEN Len(u) ELSE n
      /\ \A i \in 1..Len(b) : b[i] = u[Len(u) - Len(b) + i]
  <2>1. u \in Seq(S)
    BY <1>3
  <2> QED BY <2>1, LastOfProperties DEF b
<1>6. /\ Len(kept) \in Nat /\ Len(s) \in Nat /\ Len(kept) <= Len(s)
      /\ Len(a) = Len(b) /\ Len(a) \in Nat /\ Len(a) <= Len(t)
  BY <1>1, <1>2, <1>3, <1>4, <1>5
<1>7. ASSUME NEW i \in 1..Len(a) PROVE a[i] = b[i]
  <2>1. a[i] = t[Len(t) - Len(a) + i] /\ b[i] = u[Len(u) - Len(a) + i]
    BY <1>4, <1>5, <1>6
  <2>2. CASE i = Len(a)
    <3>1. Len(t) - Len(a) + i = Len(t) /\ Len(u) - Len(a) + i = Len(u)
      BY <2>2, <1>2, <1>3, <1>6
    <3> QED BY <2>1, <3>1, <1>2, <1>3
  <2>3. CASE i # Len(a)
    <3> DEFINE j == Len(t) - Len(a) + i
               k == Len(u) - Len(a) + i
    <3>1. j \in 1..Len(kept) /\ k \in 1..Len(s) /\ k = Len(s) - Len(kept) + j
      <4>1. Len(t) = Len(kept) + 1 /\ Len(u) = Len(s) + 1 /\ i \in 1..Len(a) /\ i # Len(a)
        BY <2>3, <1>2, <1>3
      <4> QED BY <4>1, <1>6
    <3>2. t[j] = kept[j] /\ u[k] = s[k] /\ kept[j] = s[Len(s) - Len(kept) + j]
      BY <3>1, <1>1, <1>2, <1>3
    <3> QED BY <2>1, <3>1, <3>2
  <2> QED BY <2>2, <2>3
<1>8. a = b
  BY <1>4, <1>5, <1>6, <1>7
<1> QED BY <1>8 DEF a, b, t, u, kept

-----------------------------------------------------------------------------
(* One mutation of a checkpoint at a time                                  *)

Files  == [revision : Nat, weight : Nat, milestones : Seq(Nat)]
Inside == {"queued", "loaded", "replaced"}    \* of #serialize

(* The mutations of one trust id: who is inside #serialize waits in the    *)
(* queue, once, and only its head has read the file or written it; what    *)
(* the head has read is still there.                                       *)
SerialInv ==
  /\ queue \in Seq(Calls)
  /\ \A i, j \in 1..Len(queue) : queue[i] = queue[j] => i = j
  /\ DOMAIN call = Calls
  /\ \A c \in Calls :
       /\ (call[c].at \in Inside) <=> (\E i \in 1..Len(queue) : queue[i] = c)
       /\ call[c].at \in {"loaded", "replaced"} => queue # <<>> /\ queue[1] = c
       /\ call[c].at = "loaded" => call[c].read = file
       /\ call[c].at = "loaded" /\ call[c].op = "upsert" => file # Garbled
       /\ call[c].body \in Bodies

(* The file and what was displaced since it was created.                   *)
LineageInv ==
  /\ file \in Files
  /\ lineage \in Seq(Nat)
  /\ ~Present(file) => file \in {NoFile, Garbled} /\ lineage = <<>>
  /\ HistoryIsFaithful

CheckpointInv == SerialInv /\ LineageInv

(* The head leaves the queue: those behind it move up and stay distinct.   *)
LEMMA TailOfQueue ==
  ASSUME SerialInv, queue # <<>>
  PROVE  /\ Tail(queue) \in Seq(Calls)
         /\ \A i, j \in 1..Len(Tail(queue)) : Tail(queue)[i] = Tail(queue)[j] => i = j
         /\ \A c \in Calls : (\E i \in 1..Len(Tail(queue)) : Tail(queue)[i] = c)
                            <=> (\E i \in 1..Len(queue) : queue[i] = c) /\ c # queue[1]
<1> USE DEF SerialInv
<1>1. /\ Tail(queue) \in Seq(Calls) /\ Len(Tail(queue)) = Len(queue) - 1 /\ Len(queue) \in Nat /\ Len(queue) > 0
      /\ \A i \in 1..Len(Tail(queue)) : Tail(queue)[i] = queue[i + 1]
  OBVIOUS
<1>2. ASSUME NEW i \in 1..Len(Tail(queue)), NEW j \in 1..Len(Tail(queue)), Tail(queue)[i] = Tail(queue)[j]
      PROVE  i = j
  <2>1. i + 1 \in 1..Len(queue) /\ j + 1 \in 1..Len(queue) /\ queue[i + 1] = queue[j + 1]
    BY <1>1, <1>2
  <2> QED BY <2>1, <1>1
<1>3. ASSUME NEW c \in Calls, NEW i \in 1..Len(Tail(queue)), Tail(queue)[i] = c
      PROVE  (\E k \in 1..Len(queue) : queue[k] = c) /\ c # queue[1]
  <2>1. i + 1 \in 1..Len(queue) /\ queue[i + 1] = c /\ 1 \in 1..Len(queue) /\ i + 1 # 1
    BY <1>1, <1>3
  <2> QED BY <2>1
<1>4. ASSUME NEW c \in Calls, NEW k \in 1..Len(queue), queue[k] = c, c # queue[1]
      PROVE  \E i \in 1..Len(Tail(queue)) : Tail(queue)[i] = c
  <2>1. k # 1 /\ k - 1 \in 1..Len(Tail(queue))
    BY <1>1, <1>4
  <2>2. Tail(queue)[k - 1] = queue[(k - 1) + 1] /\ (k - 1) + 1 = k
    BY <2>1, <1>1
  <2> QED BY <2>1, <2>2, <1>4
<1> QED BY <1>1, <1>2, <1>3, <1>4

(* A call that ends its turn.                                              *)
LEMMA ReleaseKeepsSerial ==
  ASSUME SerialInv, NEW c \in Calls, NEW place \in {"failed", "purged", "succeeded"},
         queue # <<>>, queue[1] = c, Released(c), Goto(c, place), UNCHANGED file
  PROVE  SerialInv'
<1>1. /\ queue' \in Seq(Calls)
      /\ \A i, j \in 1..Len(queue') : queue'[i] = queue'[j] => i = j
      /\ \A d \in Calls : (\E i \in 1..Len(queue') : queue'[i] = d)
                         <=> (\E i \in 1..Len(queue) : queue[i] = d) /\ d # c
  BY TailOfQueue DEF Released
<1>2. /\ DOMAIN call' = Calls
      /\ call'[c].at = place /\ call'[c].body = call[c].body
      /\ \A d \in Calls \ {c} : call'[d] = call[d] /\ call[d].at \notin {"loaded", "replaced"}
  BY DEF SerialInv, Goto
<1> QED BY <1>1, <1>2 DEF SerialInv, Inside

(* A call that moves on without entering or leaving the queue.             *)
LEMMA MoveKeepsSerial ==
  ASSUME SerialInv, NEW c \in Calls, NEW q, call' = [call EXCEPT ![c] = q], UNCHANGED <<file, queue>>,
         q.body \in Bodies, (q.at \in Inside) <=> (call[c].at \in Inside),
         q.at \in {"loaded", "replaced"} => queue # <<>> /\ queue[1] = c,
         q.at = "loaded" => q.read = file /\ (q.op = "upsert" => file # Garbled)
  PROVE  SerialInv'
BY DEF SerialInv

(* The next checkpoint displaces the one that was read: its milestones are *)
(* the latest of the lineage again.                                        *)
LEMMA ReplaceKeepsLineage ==
  ASSUME LineageInv, NEW b, b.weight \in Nat, file # Garbled,
         file' = Upserted(file, b), Fits(file'),
         lineage' = IF Present(file) THEN Append(lineage, file.revision) ELSE lineage
  PROVE  LineageInv'
<1> USE LimitAssumption DEF LineageInv, HistoryIsFaithful, Files
<1>0. file.revision \in Nat /\ file.milestones \in Seq(Nat) /\ MaxMilestones \in Nat
  OBVIOUS
<1>1. file'.revision = file.revision + 1 /\ file'.weight = b.weight /\ Present(file')
  BY <1>0 DEF Upserted, Present
<1>2. CASE Present(file)
  <2>1. file # NoFile
    BY <1>2 DEF Present, NoFile
  <2>2. file'.milestones = LastOf(Append(file.milestones, file.revision), MaxMilestones)
    BY <2>1 DEF Upserted, Milestone
  <2>3. file.milestones = LastOf(lineage, MaxMilestones)
    BY <1>2
  <2>4. lineage' = Append(lineage, file.revision)
    BY <1>2
  <2>5. LastOf(Append(LastOf(lineage, MaxMilestones), file.revision), MaxMilestones)
          = LastOf(Append(lineage, file.revision), MaxMilestones)
    BY SMTT(60), <1>0, LastOfAppend
  <2>6. file'.milestones = LastOf(lineage', MaxMilestones)
    BY <2>2, <2>3, <2>4, <2>5
  <2>7. /\ lineage' \in Seq(Nat) /\ lineage'[Len(lineage')] = file.revision
        /\ file'.milestones \in Seq(Nat)
    <3>1. lineage' \in Seq(Nat) /\ lineage'[Len(lineage')] = file.revision
      BY <2>4, <1>0
    <3>2. LastOf(lineage', MaxMilestones) \in Seq(Nat)
      BY <3>1, <1>0, LastOfProperties
    <3> QED BY <3>1, <3>2, <2>6
  <2>8. file' \in Files
    BY <1>0, <1>1, <2>7 DEF Upserted
  <2> QED BY <1>1, <2>6, <2>7, <2>8
<1>3. CASE ~Present(file)
  <2>1. file = NoFile /\ lineage = <<>> /\ lineage' = <<>>
    BY <1>3
  <2>2. file'.milestones = <<>> /\ file' \in Files
    BY <1>0, <1>1, <2>1 DEF Upserted
  <2>3. LastOf(<<>>, MaxMilestones) = <<>>
    BY <1>0 DEF LastOf
  <2> QED BY <1>1, <2>1, <2>2, <2>3
<1> QED BY <1>2, <1>3

(* Every step of the store, the trust of its root and its workspaces.      *)
LEMMA CheckpointStep == CheckpointInv /\ [CheckpointNext]_checkpointVars => CheckpointInv'
<1> SUFFICES ASSUME CheckpointInv, [CheckpointNext]_checkpointVars PROVE CheckpointInv'
  OBVIOUS
<1> USE DEF CheckpointInv
<1>1. ASSUME UNCHANGED <<file, lineage>> PROVE LineageInv'
  BY <1>1 DEF LineageInv, HistoryIsFaithful, Fits, Weight, Present
<1>2. NoCall.body \in Bodies /\ NoCall.at \notin Inside \union {"loaded", "replaced"}
  BY BodyAssumption DEF NoCall, Inside
<1>3. ASSUME NEW c \in Calls, Begin(c) PROVE CheckpointInv'
  <2>1. PICK op \in {"upsert", "clear", "untrust"}, expected \in 0..MaxRevision, b \in Bodies :
          call' = [call EXCEPT ![c].at = "decision", ![c].op = op, ![c].expected = expected, ![c].body = b]
    BY <1>3 DEF Begin
  <2>2. call[c].at = "idle" /\ UNCHANGED <<file, lineage, queue>>
    BY <1>3 DEF Begin, At
  <2>3. SerialInv'
    BY <2>1, <2>2 DEF SerialInv, Inside
  <2> QED BY <2>2, <2>3, <1>1
<1>4. ASSUME NEW c \in Calls, Enter(c) PROVE CheckpointInv'
  <2>1. call[c].at = "decision" /\ UNCHANGED <<file, lineage>>
    BY <1>4 DEF Enter, At
  <2>2. CASE Goto(c, "failed") /\ UNCHANGED queue
    BY <1>1, <2>1, <2>2 DEF Goto, SerialInv, Inside
  <2>3. CASE Goto(c, "queued") /\ queue' = Append(queue, c)
    <3>1. \A i \in 1..Len(queue) : queue[i] # c
      BY <2>1 DEF SerialInv, Inside
    <3>2. /\ queue' \in Seq(Calls) /\ Len(queue') = Len(queue) + 1 /\ Len(queue) \in Nat
          /\ queue'[Len(queue')] = c /\ \A i \in 1..Len(queue) : queue'[i] = queue[i]
      BY <2>3 DEF SerialInv
    <3>3. \A i, j \in 1..Len(queue') : queue'[i] = queue'[j] => i = j
      BY <3>1, <3>2 DEF SerialInv
    <3>4. \A d \in Calls : (\E i \in 1..Len(queue') : queue'[i] = d)
                          <=> (\E i \in 1..Len(queue) : queue[i] = d) \/ d = c
      BY <3>2
    <3>5. queue # <<>> => queue' # <<>> /\ queue'[1] = queue[1]
      BY <3>2 DEF SerialInv
    <3>6. /\ DOMAIN call' = Calls /\ call'[c].at = "queued" /\ call'[c].body = call[c].body
          /\ \A d \in Calls \ {c} : call'[d] = call[d]
      BY <2>3 DEF Goto, SerialInv
    <3>7. SerialInv'
      BY <2>1, <3>2, <3>3, <3>4, <3>5, <3>6 DEF SerialInv, Inside
    <3> QED BY <1>1, <2>1, <3>7
  <2> QED BY <1>4, <2>2, <2>3 DEF Enter
<1>5. ASSUME NEW c \in Calls, NotEntered(c) \/ Report(c) PROVE CheckpointInv'
  BY <1>1, <1>2, <1>5 DEF NotEntered, Report, At, Return, SerialInv, Inside
<1>6. ASSUME NEW c \in Calls, Load(c) PROVE CheckpointInv'
  <2>1. /\ call[c].at = "queued" /\ queue # <<>> /\ queue[1] = c /\ UNCHANGED <<file, lineage>>
    BY <1>6 DEF Load, At, Turn, SerialInv
  <2>2. CASE Goto(c, "failed") /\ Released(c)
    BY <1>1, <2>1, <2>2, ReleaseKeepsSerial
  <2>3. ASSUME call' = [call EXCEPT ![c].at = "loaded", ![c].read = file], UNCHANGED queue,
               call[c].op = "untrust" \/ Readable(file)
        PROVE  CheckpointInv'
    <3> DEFINE q == [call[c] EXCEPT !.at = "loaded", !.read = file]
    <3>1. call' = [call EXCEPT ![c] = q]
      BY <2>3
    <3>2. DOMAIN call[c] = DOMAIN q /\ q.at = "loaded" /\ q.body = call[c].body /\ q.op = call[c].op
      OBVIOUS
    <3>3. SerialInv'
      BY <2>1, <2>3 DEF SerialInv, Inside, Readable
    <3> QED BY <1>1, <2>1, <3>3
  <2> QED BY <1>6, <2>2, <2>3 DEF Load
<1>7. ASSUME NEW c \in Calls, Replace(c) PROVE CheckpointInv'
  <2>1. /\ call[c].at = "loaded" /\ call[c].op = "upsert" /\ UNCHANGED queue
        /\ file' = Upserted(call[c].read, call[c].body) /\ Fits(file')
        /\ lineage' = IF Present(file) THEN Append(lineage, file.revision) ELSE lineage
        /\ call' = [call EXCEPT ![c].at = "replaced"]
    BY <1>7 DEF Replace, At, Goto
  <2>2. call[c].read = file /\ file # Garbled /\ call[c].body \in Bodies
    BY <2>1 DEF SerialInv
  <2>3. LineageInv'
    BY <2>1, <2>2, BodyAssumption, ReplaceKeepsLineage
  <2>4. SerialInv'
    BY <2>1 DEF SerialInv, Inside
  <2> QED BY <2>3, <2>4
<1>8. ASSUME NEW c \in Calls, Delete(c) PROVE CheckpointInv'
  <2>1. /\ call[c].at = "loaded" /\ UNCHANGED queue
        /\ file' = NoFile /\ lineage' = <<>> /\ call' = [call EXCEPT ![c].at = "replaced"]
    BY <1>8 DEF Delete, At, Goto
  <2>2. LineageInv'
    BY <2>1 DEF LineageInv, HistoryIsFaithful, NoFile, Present, Files
  <2>3. SerialInv'
    BY <2>1 DEF SerialInv, Inside
  <2> QED BY <2>2, <2>3
<1>9. ASSUME NEW c \in Calls, Sync(c) \/ StoreFails(c) PROVE CheckpointInv'
  <2>1. call[c].at \in {"loaded", "replaced"} /\ UNCHANGED <<file, lineage>> /\ Released(c)
        /\ \E place \in {"failed", "purged", "succeeded"} : Goto(c, place)
    BY <1>9 DEF Sync, StoreFails, At
  <2>2. queue # <<>> /\ queue[1] = c
    BY <2>1 DEF SerialInv
  <2> QED BY <1>1, <2>1, <2>2, ReleaseKeepsSerial
<1>10. ASSUME NEW c \in Calls, RemoveTrust(c) PROVE CheckpointInv'
  <2>1. /\ call[c].at = "purged" /\ UNCHANGED <<file, lineage, queue>>
        /\ \E place \in {"failed", "succeeded"} : call' = [call EXCEPT ![c].at = place]
    BY <1>10 DEF RemoveTrust, At, Goto
  <2>2. SerialInv'
    BY <2>1 DEF SerialInv, Inside
  <2> QED BY <1>1, <2>1, <2>2
<1>11. CASE Reopen \/ UNCHANGED checkpointVars
  BY <1>1, <1>11 DEF Reopen, checkpointVars, SerialInv
<1>12. CASE Crash
  <2>1. /\ call' = [c \in Calls |-> NoCall] /\ queue' = <<>> /\ UNCHANGED <<file, lineage>>
    BY <1>12 DEF Crash
  <2>2. SerialInv'
    BY <1>2, <2>1 DEF SerialInv
  <2> QED BY <1>1, <2>1, <2>2
<1> QED BY <1>3, <1>4, <1>5, <1>6, <1>7, <1>8, <1>9, <1>10, <1>11, <1>12 DEF CheckpointNext, CallStep

(* The store starts with what an earlier server has left.                  *)
LEMMA CheckpointStarts == ASSUME CheckpointInit PROVE CheckpointInv
<1>1. NoCall.body \in Bodies /\ NoCall.at = "idle"
  BY BodyAssumption DEF NoCall
<1>2. SerialInv
  BY <1>1 DEF CheckpointInit, SerialInv, Inside
<1>3. lineage = <<>> /\ LastOf(<<>>, MaxMilestones) = <<>>
  BY LimitAssumption DEF CheckpointInit, LastOf
<1>4. file \in Files /\ file.milestones = <<>> /\ (Present(file) => file = Legacy)
  <2>1. <<>> \in Seq(Nat)
    OBVIOUS
  <2>2. CASE file = NoFile
    BY <2>1, <2>2 DEF NoFile, Present, Files
  <2>3. CASE file = Legacy
    BY <2>1, <2>3 DEF Legacy, Present, Files
  <2>4. CASE file = Garbled
    BY <2>1, <2>4 DEF Garbled, Present, Files
  <2> QED BY <2>2, <2>3, <2>4 DEF CheckpointInit
<1>5. Fits(Legacy)
  <2>1. Legacy.weight = 1 /\ Weight(Legacy) = 1
    BY DEF Legacy, Weight
  <2>2. 1 <= MaxCheckpoint /\ 1 <= MaxContinuity
    BY LimitAssumption
  <2> QED BY <2>1, <2>2 DEF Fits
<1>6. LineageInv
  BY <1>3, <1>4, <1>5 DEF LineageInv, HistoryIsFaithful, CheckpointInit, Legacy, Present
<1> QED BY <1>2, <1>6 DEF CheckpointInv

(* The milestones a resuming session reads are the latest checkpoints      *)
(* displaced, in order and without a gap, and what upsert wrote can be     *)
(* read back, for any number of calls, failures and crashes and any        *)
(* limits.                                                                 *)
THEOREM MilestonesAreFaithful == CheckpointSafety => []HistoryIsFaithful
<1>1. CheckpointInv => HistoryIsFaithful
  BY DEF CheckpointInv, LineageInv
<1> QED BY CheckpointStarts, <1>1, CheckpointStep, PTL DEF CheckpointSafety

-----------------------------------------------------------------------------
(* The checkpoint is a register that is compared and set                   *)

Mutations == {"upsert", "clear", "untrust"}

(* What a call asks stays as it is until it is answered, and what it has   *)
(* read is the revision it expects; only an untrust gets to remove trust.  *)
AskedInv ==
  /\ trusted \in BOOLEAN
  /\ \A c \in Calls :
       /\ call[c].at \in {"idle", "decision", "queued", "loaded", "replaced", "purged", "succeeded", "failed"}
       /\ call[c].at = "idle" => call[c] = NoCall
       /\ call[c].at # "idle" => call[c].op \in Mutations
       /\ call[c].expected \in 0..MaxRevision
       /\ call[c].op = "clear" => call[c].expected > 0
       /\ call[c].at = "loaded" /\ call[c].op # "untrust" =>
            call[c].expected = call[c].read.revision /\ call[c].read # Garbled
       /\ call[c].at = "purged" => call[c].op = "untrust"

RegisterInv == CheckpointInv /\ AskedInv

(* A call that only moves on.                                              *)
LEMMA GotoKeepsAsked ==
  ASSUME RegisterInv, NEW c \in Calls, NEW place \in {"queued", "replaced", "purged", "succeeded", "failed"},
         call[c].at # "idle", Goto(c, place), place = "purged" => call[c].op = "untrust", trusted' \in BOOLEAN
  PROVE  AskedInv'
<1>1. /\ call'[c].at = place /\ call'[c].op = call[c].op /\ call'[c].expected = call[c].expected
      /\ \A d \in Calls \ {c} : call'[d] = call[d]
  BY DEF RegisterInv, CheckpointInv, SerialInv, Goto
<1> QED BY <1>1 DEF RegisterInv, AskedInv

LEMMA AnswerKeepsAsked ==
  ASSUME RegisterInv, NEW c \in Calls, Return(c), UNCHANGED trusted
  PROVE  AskedInv'
<1>1. /\ call'[c] = NoCall /\ \A d \in Calls \ {c} : call'[d] = call[d]
  BY DEF RegisterInv, CheckpointInv, SerialInv, Return
<1>2. NoCall.at = "idle" /\ NoCall.op = "none" /\ NoCall.expected \in 0..MaxRevision
  BY LimitAssumption DEF NoCall
<1> QED BY <1>1, <1>2 DEF RegisterInv, AskedInv

LEMMA AskedStep == RegisterInv /\ [CheckpointNext]_checkpointVars => AskedInv'
<1> SUFFICES ASSUME RegisterInv, [CheckpointNext]_checkpointVars PROVE AskedInv'
  OBVIOUS
<1> USE DEF RegisterInv
<1>1. ASSUME NEW c \in Calls, Begin(c) PROVE AskedInv'
  <2>1. PICK op \in {"upsert", "clear", "untrust"}, expected \in 0..MaxRevision, b \in Bodies :
          /\ op = "clear" => expected > 0
          /\ call' = [call EXCEPT ![c].at = "decision", ![c].op = op, ![c].expected = expected, ![c].body = b]
    BY <1>1 DEF Begin
  <2>2. call[c].at = "idle" /\ UNCHANGED trusted /\ call[c] = NoCall
    BY <1>1 DEF Begin, At, AskedInv
  <2>3. /\ call'[c].at = "decision" /\ call'[c].op = op /\ call'[c].expected = expected
        /\ \A d \in Calls \ {c} : call'[d] = call[d]
    BY <2>1, <2>2 DEF CheckpointInv, SerialInv, NoCall
  <2> QED BY ZenonT(60), <2>1, <2>2, <2>3 DEF AskedInv, Mutations
<1>2. ASSUME NEW c \in Calls, Enter(c) PROVE AskedInv'
  BY <1>2, GotoKeepsAsked DEF Enter, At, AskedInv
<1>3. ASSUME NEW c \in Calls, NotEntered(c) \/ Report(c) PROVE AskedInv'
  BY <1>3, AnswerKeepsAsked DEF NotEntered, Report
<1>4. ASSUME NEW c \in Calls, Load(c) PROVE AskedInv'
  <2>1. call[c].at = "queued" /\ UNCHANGED trusted
    BY <1>4 DEF Load, At
  <2>2. CASE Goto(c, "failed")
    BY <2>1, <2>2, GotoKeepsAsked DEF AskedInv
  <2>3. ASSUME call[c].op = "untrust" \/ (Readable(file) /\ Expected(c, file)),
               call' = [call EXCEPT ![c].at = "loaded", ![c].read = file]
        PROVE  AskedInv'
    <3>1. /\ call'[c].at = "loaded" /\ call'[c].op = call[c].op /\ call'[c].expected = call[c].expected
          /\ \A d \in Calls \ {c} : call'[d] = call[d]
      BY <2>3 DEF CheckpointInv, SerialInv
    <3>2. call'[c].read = file
      BY <2>3 DEF CheckpointInv, SerialInv
    <3>3. call'[c].op # "untrust" => call'[c].expected = call'[c].read.revision /\ call'[c].read # Garbled
      BY <2>3, <3>1, <3>2 DEF Readable, Expected
    <3>4. call[c].op \in Mutations /\ call[c].expected \in 0..MaxRevision /\ (call[c].op = "clear" => call[c].expected > 0)
      BY <2>1 DEF AskedInv
    <3> QED BY <2>1, <3>1, <3>3, <3>4 DEF AskedInv
  <2> QED BY <1>4, <2>2, <2>3 DEF Load
<1>5. ASSUME NEW c \in Calls, Replace(c) \/ Delete(c) PROVE AskedInv'
  BY <1>5, GotoKeepsAsked DEF Replace, Delete, At, AskedInv
<1>6. ASSUME NEW c \in Calls, Sync(c) \/ StoreFails(c) PROVE AskedInv'
  BY <1>6, GotoKeepsAsked DEF Sync, StoreFails, At, AskedInv
<1>7. ASSUME NEW c \in Calls, RemoveTrust(c) PROVE AskedInv'
  BY <1>7, GotoKeepsAsked DEF RemoveTrust, At, AskedInv
<1>8. CASE Reopen \/ UNCHANGED checkpointVars
  BY <1>8 DEF Reopen, checkpointVars, AskedInv
<1>9. CASE Crash
  <2>1. /\ \A c \in Calls : call'[c] = NoCall
        /\ UNCHANGED trusted
    BY <1>9 DEF Crash
  <2>2. NoCall.at = "idle" /\ NoCall.op = "none" /\ NoCall.expected \in 0..MaxRevision
    BY LimitAssumption DEF NoCall
  <2> QED BY <2>1, <2>2 DEF AskedInv
<1> QED BY <1>1, <1>2, <1>3, <1>4, <1>5, <1>6, <1>7, <1>8, <1>9 DEF CheckpointNext, CallStep

LEMMA RegisterInvariance == CheckpointSafety => []RegisterInv
<1>1. ASSUME CheckpointInit PROVE AskedInv
  <2>1. NoCall.at = "idle" /\ NoCall.op = "none" /\ NoCall.expected \in 0..MaxRevision
    BY LimitAssumption DEF NoCall
  <2> QED BY <1>1, <2>1 DEF CheckpointInit, AskedInv
<1>2. CheckpointInit => RegisterInv
  BY <1>1, CheckpointStarts DEF RegisterInv
<1>3. RegisterInv /\ [CheckpointNext]_checkpointVars => RegisterInv'
  BY CheckpointStep, AskedStep DEF RegisterInv
<1> QED BY <1>2, <1>3, PTL DEF CheckpointSafety

-----------------------------------------------------------------------------
(* How the requests of the register follow the calls.                      *)
LEMMA OneMoves ==
  ASSUME NEW c \in Calls, \A d \in Calls \ {c} : call'[d] = call[d]
  PROVE  [d \in Calls |-> Requested(d)]' = [[d \in Calls |-> Requested(d)] EXCEPT ![c] = Requested(c)']
<1>1. ASSUME NEW d \in Calls \ {c} PROVE Requested(d)' = Requested(d)
  BY <1>1 DEF Requested, Progress, At
<1> QED BY <1>1

LEMMA Reaches ==
  ASSUME NEW c \in Calls, NEW from, NEW to, \A d \in Calls \ {c} : call'[d] = call[d],
         Requested(c).at = from, Requested(c)' = [Requested(c) EXCEPT !.at = to]
  PROVE  Register!Reached(c, from, to)
BY OneMoves DEF Register!Reached

(* The call goes to another place, and nothing else of it changes.         *)
LEMMA GotoReaches ==
  ASSUME RegisterInv, NEW c \in Calls, call[c].at # "idle",
         NEW place \in {"queued", "replaced", "purged", "succeeded", "failed"}, Goto(c, place)
  PROVE  /\ \A d \in Calls \ {c} : call'[d] = call[d]
         /\ call'[c].at = place /\ call'[c].op = call[c].op /\ call'[c].expected = call[c].expected
         /\ Requested(c)' = [Requested(c) EXCEPT !.at = Progress(c)']
<1>1. /\ call'[c].at = place /\ call'[c].op = call[c].op /\ call'[c].expected = call[c].expected
      /\ call'[c].body = call[c].body /\ place # "idle"
      /\ \A d \in Calls \ {c} : call'[d] = call[d]
  BY DEF RegisterInv, CheckpointInv, SerialInv, Goto
<1>2. Requested(c)' = [at |-> Progress(c)', op |-> call[c].op, expected |-> call[c].expected,
                       text |-> call[c].body.weight]
  BY <1>1 DEF Requested, At
<1>3. Requested(c) = [at |-> Progress(c), op |-> call[c].op, expected |-> call[c].expected,
                      text |-> call[c].body.weight]
  BY DEF Requested, At
<1> QED BY <1>1, <1>2, <1>3

(* The call has been answered.                                             *)
LEMMA ReturnAnswers ==
  ASSUME RegisterInv, NEW c \in Calls, Return(c), UNCHANGED <<file, trusted>>,
         Progress(c) \in {"asked", "succeeded", "failed"}
  PROVE  Register!Answer(c)
<1>1. call'[c] = NoCall /\ \A d \in Calls \ {c} : call'[d] = call[d]
  BY DEF RegisterInv, CheckpointInv, SerialInv, Return
<1>2. Requested(c)' = Register!Nothing
  BY <1>1 DEF Requested, Progress, At, NoCall, Register!Nothing
<1>3. Requested(c).at = Progress(c)
  BY DEF Requested
<1> QED BY <1>1, <1>2, <1>3, OneMoves DEF Register!Answer

(* A step that leaves the register alone.                                  *)
LEMMA Stutters ==
  ASSUME UNCHANGED <<file, trusted>>, \A c \in Calls : Requested(c)' = Requested(c)
  PROVE  UNCHANGED Register!vars
BY DEF Register!vars

LEMMA RegisterStep ==
  ASSUME RegisterInv, [CheckpointNext]_checkpointVars
  PROVE  [Register!Next]_(Register!vars)
<1> USE DEF RegisterInv
<1>1. ASSUME NEW c \in Calls, Begin(c) PROVE Register!Ask(c)
  <2>1. PICK op \in {"upsert", "clear", "untrust"}, expected \in 0..MaxRevision, b \in Bodies :
          /\ op = "clear" => expected > 0
          /\ call' = [call EXCEPT ![c].at = "decision", ![c].op = op, ![c].expected = expected, ![c].body = b]
    BY <1>1 DEF Begin
  <2>2. call[c].at = "idle" /\ trusted /\ UNCHANGED <<file, trusted>> /\ call[c] = NoCall
    BY <1>1 DEF Begin, At, AskedInv
  <2>3. /\ call'[c].at = "decision" /\ call'[c].op = op /\ call'[c].expected = expected /\ call'[c].body = b
        /\ \A d \in Calls \ {c} : call'[d] = call[d]
    BY <2>1, <2>2 DEF CheckpointInv, SerialInv, NoCall
  <2>4. Requested(c)' = [at |-> "asked", op |-> op, expected |-> expected, text |-> b.weight]
    BY <2>3 DEF Requested, Progress, At
  <2>5. Requested(c).at = "idle"
    BY <2>2 DEF Requested, Progress, At
  <2>6. b.weight \in {d.weight : d \in Bodies}
    OBVIOUS
  <2>7. [d \in Calls |-> Requested(d)]'
           = [[d \in Calls |-> Requested(d)] EXCEPT ![c] = [at |-> "asked", op |-> op, expected |-> expected, text |-> b.weight]]
    BY <2>3, <2>4, OneMoves
  <2> QED BY <2>1, <2>2, <2>5, <2>6, <2>7 DEF Register!Ask
<1>2. ASSUME NEW c \in Calls, Progress(c) \in {"asked", "taken"}, call[c].at # "idle", Goto(c, "failed"),
             UNCHANGED <<file, trusted>>
      PROVE  Register!Fail(c)
  <2>1. /\ Requested(c)' = [Requested(c) EXCEPT !.at = Progress(c)'] /\ call'[c].at = "failed"
        /\ \A d \in Calls \ {c} : call'[d] = call[d]
    BY <1>2, GotoReaches
  <2>2. Progress(c)' = "failed" /\ Requested(c).at = Progress(c)
    BY <2>1 DEF Progress, At, Requested
  <2> QED BY <1>2, <2>1, <2>2, Reaches DEF Register!Fail
<1>3. ASSUME NEW c \in Calls, NEW place \in {"queued", "purged"}, call[c].at # "idle", Goto(c, place),
             Progress(c) = Progress(c)', UNCHANGED <<file, trusted>>
      PROVE  UNCHANGED Register!vars
  <2>1. /\ Requested(c)' = [Requested(c) EXCEPT !.at = Progress(c)']
        /\ \A d \in Calls \ {c} : call'[d] = call[d]
    BY <1>3, GotoReaches
  <2>2. Requested(c)' = Requested(c)
    BY <1>3, <2>1 DEF Requested
  <2>3. \A d \in Calls \ {c} : Requested(d)' = Requested(d)
    BY <2>1 DEF Requested, Progress, At
  <2> QED BY <1>3, <2>2, <2>3, Stutters
<1>4. ASSUME NEW c \in Calls, Enter(c) PROVE Register!Fail(c) \/ UNCHANGED Register!vars
  <2>1. call[c].at = "decision" /\ UNCHANGED <<file, trusted>> /\ Progress(c) = "asked"
    BY <1>4 DEF Enter, At, Progress
  <2>2. CASE Goto(c, "failed")
    BY <1>2, <2>1, <2>2
  <2>3. CASE Goto(c, "queued")
    <3>1. call'[c].at = "queued"
      BY <2>1, <2>3, GotoReaches
    <3>2. Progress(c)' = "asked"
      BY <3>1 DEF Progress, At
    <3> QED BY <1>3, <2>1, <2>3, <3>2
  <2> QED BY <1>4, <2>2, <2>3 DEF Enter
<1>5. ASSUME NEW c \in Calls, NotEntered(c) \/ Report(c) PROVE Register!Answer(c)
  BY <1>5, ReturnAnswers DEF NotEntered, Report, At, Progress
<1>6. ASSUME NEW c \in Calls, Load(c) PROVE Register!Fail(c) \/ UNCHANGED Register!vars
  <2>1. call[c].at = "queued" /\ UNCHANGED <<file, trusted>> /\ Progress(c) = "asked"
    BY <1>6 DEF Load, At, Progress
  <2>2. CASE Goto(c, "failed")
    BY <1>2, <2>1, <2>2
  <2>3. ASSUME call' = [call EXCEPT ![c].at = "loaded", ![c].read = file]
        PROVE  UNCHANGED Register!vars
    <3>1. /\ call'[c].at = "loaded" /\ call'[c].op = call[c].op /\ call'[c].expected = call[c].expected
          /\ call'[c].body = call[c].body
          /\ \A d \in Calls \ {c} : call'[d] = call[d]
      BY <2>3 DEF CheckpointInv, SerialInv
    <3>2. Requested(c)' = Requested(c)
      BY <2>1, <3>1 DEF Requested, Progress, At
    <3>3. \A d \in Calls \ {c} : Requested(d)' = Requested(d)
      BY <3>1 DEF Requested, Progress, At
    <3> QED BY <2>1, <3>2, <3>3, Stutters
  <2> QED BY <1>6, <2>2, <2>3 DEF Load
<1>7. ASSUME NEW c \in Calls, call[c].at = "loaded", Goto(c, "replaced")
      PROVE  Register!Reached(c, "asked", "taken") /\ Requested(c).op = call[c].op
             /\ Requested(c).expected = call[c].expected /\ Requested(c).text = call[c].body.weight
  <2>1. /\ Requested(c)' = [Requested(c) EXCEPT !.at = Progress(c)'] /\ call'[c].at = "replaced"
        /\ \A d \in Calls \ {c} : call'[d] = call[d]
    BY <1>7, GotoReaches
  <2>2. Progress(c)' = "taken" /\ Requested(c).at = "asked"
    BY <1>7, <2>1 DEF Progress, At, Requested
  <2>3. Register!Reached(c, "asked", "taken")
    BY <2>1, <2>2, Reaches
  <2> QED BY <1>7, <2>3 DEF Requested, At
<1>8. ASSUME NEW c \in Calls, Replace(c) PROVE Register!TakeEffect(c)
  <2>1. /\ call[c].at = "loaded" /\ call[c].op = "upsert" /\ UNCHANGED trusted
        /\ file' = Upserted(call[c].read, call[c].body) /\ Goto(c, "replaced")
    BY <1>8 DEF Replace, At
  <2>2. call[c].read = file /\ file # Garbled /\ call[c].expected = file.revision
    BY <2>1 DEF CheckpointInv, SerialInv, AskedInv
  <2>3. file'.revision = file.revision + 1 /\ file'.weight = call[c].body.weight
    BY <2>1, <2>2 DEF Upserted
  <2>4. file.revision = 0 => file = NoFile
    BY <2>2 DEF CheckpointInv, LineageInv, Present
  <2>5. ~Register!Damaged
    BY <2>4 DEF Register!Damaged, Register!None, NoFile
  <2>6. Register!Upsert(c)
    BY <1>7, <2>1, <2>2, <2>3, <2>5 DEF Register!Upsert
  <2> QED BY <1>7, <2>1, <2>6 DEF Register!TakeEffect
<1>9. ASSUME NEW c \in Calls, Delete(c) PROVE Register!TakeEffect(c)
  <2>1. /\ call[c].at = "loaded" /\ call[c].op # "upsert" /\ UNCHANGED trusted
        /\ file' = NoFile /\ Goto(c, "replaced")
    BY <1>9 DEF Delete, At
  <2>2. call[c].op \in {"clear", "untrust"}
    BY <2>1 DEF AskedInv, Mutations
  <2>3. call[c].op = "clear" => call[c].expected = file.revision
    BY <2>1, <2>2 DEF CheckpointInv, SerialInv, AskedInv
  <2>4. Register!Clear(c) \/ Register!Purge(c)
    BY <1>7, <2>1, <2>2, <2>3 DEF Register!Clear, Register!Purge, Register!None, NoFile
  <2> QED BY <1>7, <2>1, <2>4 DEF Register!TakeEffect
<1>10. ASSUME NEW c \in Calls, call[c].at \in {"replaced", "purged"}, Goto(c, "succeeded"), UNCHANGED file,
              trusted' = (trusted /\ call[c].op # "untrust")
       PROVE  Register!Succeed(c)
  <2>1. /\ Requested(c)' = [Requested(c) EXCEPT !.at = Progress(c)'] /\ call'[c].at = "succeeded"
        /\ \A d \in Calls \ {c} : call'[d] = call[d]
    BY <1>10, GotoReaches
  <2>2. Progress(c)' = "succeeded" /\ Requested(c).at = "taken" /\ Requested(c).op = call[c].op
    BY <1>10, <2>1 DEF Progress, At, Requested
  <2>3. Register!Reached(c, "taken", "succeeded")
    BY <2>1, <2>2, Reaches
  <2> QED BY <1>10, <2>2, <2>3 DEF Register!Succeed
<1>11. ASSUME NEW c \in Calls, Sync(c) PROVE Register!Succeed(c) \/ UNCHANGED Register!vars
  <2>1. call[c].at = "replaced" /\ UNCHANGED <<file, trusted>> /\ Progress(c) = "taken"
    BY <1>11 DEF Sync, At, Progress
  <2>2. CASE call[c].op = "untrust"
    <3>1. Goto(c, "purged")
      BY <1>11, <2>2 DEF Sync
    <3>2. call'[c].at = "purged"
      BY <2>1, <3>1, GotoReaches
    <3>3. Progress(c)' = "taken"
      BY <3>2 DEF Progress, At
    <3> QED BY <1>3, <2>1, <3>1, <3>3
  <2>3. CASE call[c].op # "untrust"
    <3>1. Goto(c, "succeeded") /\ trusted' = (trusted /\ call[c].op # "untrust")
      BY <1>11, <2>1, <2>3 DEF Sync, AskedInv
    <3> QED BY <1>10, <2>1, <3>1
  <2> QED BY <2>2, <2>3
<1>12. ASSUME NEW c \in Calls, StoreFails(c) PROVE Register!Fail(c)
  BY <1>2, <1>12 DEF StoreFails, At, Progress
<1>13. ASSUME NEW c \in Calls, RemoveTrust(c) PROVE Register!Succeed(c) \/ Register!Fail(c)
  <2>1. call[c].at = "purged" /\ call[c].op = "untrust" /\ UNCHANGED file /\ Progress(c) = "taken"
    BY <1>13 DEF RemoveTrust, At, Progress, AskedInv
  <2>2. CASE Goto(c, "succeeded") /\ trusted' = FALSE
    BY <1>10, <2>1, <2>2
  <2>3. CASE Goto(c, "failed") /\ UNCHANGED trusted
    BY <1>2, <2>1, <2>3
  <2> QED BY <1>13, <2>2, <2>3 DEF RemoveTrust
<1>14. CASE Reopen \/ UNCHANGED checkpointVars
  <2>1. UNCHANGED <<file, trusted, call>>
    BY <1>14 DEF Reopen, checkpointVars
  <2> QED BY <2>1, Stutters DEF Requested, Progress, At
<1>15. CASE Crash
  <2>1. UNCHANGED <<file, trusted>> /\ \A c \in Calls : call'[c] = NoCall
    BY <1>15 DEF Crash
  <2>2. ASSUME NEW c \in Calls PROVE Requested(c)' = Register!Nothing
    <3>1. call'[c] = NoCall
      BY <2>1
    <3> QED BY <3>1 DEF Requested, Progress, At, NoCall, Register!Nothing
  <2> QED BY <2>1, <2>2 DEF Register!Next, Register!End
<1> QED
  BY <1>1, <1>4, <1>5, <1>6, <1>8, <1>9, <1>11, <1>12, <1>13, <1>14, <1>15
     DEF CheckpointNext, CallStep, Register!Next, Register!Progress

(* The checkpoint store implements the register.                           *)
THEOREM CheckpointsAreComparedAndSet == CheckpointSafety => ImplementsRegister
<1>1. CheckpointInit => Register!Init
  <2> SUFFICES ASSUME CheckpointInit PROVE Register!Init
    OBVIOUS
  <2>1. file.revision \in {0, 1} /\ trusted = TRUE
    BY DEF CheckpointInit, NoFile, Legacy, Garbled
  <2>2. \A c \in Calls : Requested(c) = Register!Nothing
    BY DEF CheckpointInit, Requested, Progress, At, NoCall, Register!Nothing
  <2> QED BY <2>1, <2>2 DEF Register!Init
<1>2. RegisterInv /\ [CheckpointNext]_checkpointVars => [Register!Next]_(Register!vars)
  BY RegisterStep
<1> QED BY <1>1, <1>2, RegisterInvariance, PTL DEF CheckpointSafety, ImplementsRegister, Register!Safety

-----------------------------------------------------------------------------
(* The tools                                                               *)

(* What its annotations let a tool do.                                     *)
Allows(hints, method) ==
  /\ Hints(hints).readOnly => method \notin Changing \union Removing \union Running
  /\ ~Hints(hints).destructive => method \notin Removing \union Running
  /\ ~Hints(hints).openWorld => method \notin Asking

(* A tool calls what its annotations allow; and once it has changed        *)
(* something it is done, or calls only what cannot be refused, or does not *)
(* tell a refusal from a failure, or it ends something in several steps.   *)
Refusable   == NeedsReady \union GitLocalChanges \union GitRemoteChanges \union FileChanges \union Running
GitChanges  == GitLocalChanges \union GitRemoteChanges
Telling     == {"plain", "preview"}
ManySteps   == {"preview.stop", "workspace.close"}
Sound(tool) ==
  /\ Len(tool.plan) \in Nat
  /\ \A i \in 1..Len(tool.plan) :
       Allows(tool.hints, tool.plan[i]) \/ (tool = ResumeTool /\ tool.plan[i] \in {"ciRead", "githubRead"})
  /\ \/ tool.name \in ManySteps
     \/ tool.errors \notin Telling /\ \A i \in 1..Len(tool.plan) : tool.plan[i] \notin GitChanges
     \/ \A i, j \in 1..Len(tool.plan) : i < j /\ tool.plan[i] \in Changing => tool.plan[j] \notin Refusable

(* The methods that only read.                                             *)
Quiet == FileMethods \union GitReads \union LocalMethods
           \union {"inspectExecutable", "processStatus", "listWorkspaces", "listTrustedWorkspaces", "workspaceInfo",
                   "requireReady", "readSession", "probe", "artifactRead"}

(* The annotations under which the others are called.                      *)
Promised ==
  {"MutatingFile"} \X FileChanges \union {"LocalGit"} \X GitLocalChanges \union {"RemoteGit"} \X {"gitPull", "gitPush"}
  \union {"ProcessRun"} \X {"runProcess", "runVerificationProcess"}
  \union {"Lifecycle"} \X {"openWorkspace", "trustWorkspace", "untrustWorkspace", "closeWorkspace", "checkpointWorkspace",
                           "releaseSession"}
  \union {"CiRead", "CiMutation", "CiCancel"} \X {"ciRead"}
  \union {"GitHubRead", "GitHubCreate"} \X {"githubRead"}
  \union {<<"GitFetch", "gitFetch">>, <<"ProcessCancel", "processCancel">>, <<"ProcessCancel", "releaseSession">>,
          <<"BrowserSession", "openSession">>, <<"BrowserInteraction", "actSession">>, <<"BrowserCapture", "captureSession">>,
          <<"CiMutation", "ciRerun">>, <<"CiMutation", "ciDispatch">>, <<"CiCancel", "ciCancel">>,
          <<"GitHubCreate", "githubCreate">>, <<"GitHubMerge", "githubMerge">>}

LEMMA QuietOnlyReads == \A m \in Quiet : m \notin Changing \union Removing \union Running \union Asking
BY DEF Quiet, Changing, Removing, Running, Asking, FileMethods, GitReads, LocalMethods, FileChanges, GitLocalChanges,
       GitRemoteChanges, RemoteMethods

(* The annotations allow what is done under them.                          *)
LEMMA PromisesAreAllowed == \A hints, m : <<hints, m>> \in Promised => Allows(hints, m)
<1> SUFFICES ASSUME NEW hints, NEW m, <<hints, m>> \in Promised PROVE Allows(hints, m)
  OBVIOUS
<1> USE DEF Allows, Hints, ReadOnlyHints, Changing, Removing, Running, Asking, FileChanges, GitLocalChanges,
            GitRemoteChanges, RemoteMethods
<1>1. CASE hints = "MutatingFile" /\ m \in FileChanges BY <1>1
<1>2. CASE hints = "LocalGit" /\ m \in GitLocalChanges BY <1>2
<1>3. CASE hints = "RemoteGit" /\ m \in {"gitPull", "gitPush"} BY <1>3
<1>4. CASE hints = "ProcessRun" /\ m \in {"runProcess", "runVerificationProcess"} BY <1>4
<1>5. CASE hints = "Lifecycle" /\ m \in {"openWorkspace", "trustWorkspace", "untrustWorkspace", "closeWorkspace",
                                        "checkpointWorkspace", "releaseSession"}
  BY <1>5
<1>6. CASE hints \in {"CiRead", "CiMutation", "CiCancel"} /\ m = "ciRead" BY <1>6
<1>7. CASE hints \in {"GitHubRead", "GitHubCreate"} /\ m = "githubRead" BY <1>7
<1>8. CASE <<hints, m>> \in {<<"GitFetch", "gitFetch">>, <<"ProcessCancel", "processCancel">>, <<"ProcessCancel", "releaseSession">>}
  BY <1>8
<1>9. CASE <<hints, m>> \in {<<"BrowserSession", "openSession">>, <<"BrowserInteraction", "actSession">>,
                            <<"BrowserCapture", "captureSession">>}
  BY <1>9
<1>10. CASE <<hints, m>> \in {<<"CiMutation", "ciRerun">>, <<"CiMutation", "ciDispatch">>, <<"CiCancel", "ciCancel">>,
                             <<"GitHubCreate", "githubCreate">>, <<"GitHubMerge", "githubMerge">>}
  BY <1>10
<1> HIDE DEF Allows, Hints, ReadOnlyHints, Changing, Removing, Running, Asking, FileChanges, GitLocalChanges,
             GitRemoteChanges, RemoteMethods
<1> QED BY <1>1, <1>2, <1>3, <1>4, <1>5, <1>6, <1>7, <1>8, <1>9, <1>10 DEF Promised

LastOfPlan(tool) == tool.plan[Len(tool.plan)]

(* Most tools read and then do one thing.                                  *)
ReadsThenActs(tool) ==
  /\ Len(tool.plan) \in Nat
  /\ \A i \in 1..Len(tool.plan) : i < Len(tool.plan) => tool.plan[i] \in Quiet
  /\ LastOfPlan(tool) \in Quiet \/ <<tool.hints, LastOfPlan(tool)>> \in Promised

LEMMA ReadersAreSound == ASSUME NEW tool, ReadsThenActs(tool) PROVE Sound(tool)
BY QuietOnlyReads, PromisesAreAllowed DEF ReadsThenActs, LastOfPlan, Sound, Allows

(* Most tools are of that kind.                                            *)
LEMMA MostToolsReadThenAct ==
  \A tool \in FileTools \union BrowserTools \union ConsoleAndArtifacts \union InspectionTools \union GitTools
                \union GitChangeTools \union ProcessTools \union ProfileAndSkillTools \union SystemTools :
    ReadsThenActs(tool)
<1> USE DEF T, ReadsThenActs, LastOfPlan
<1>1. \A tool \in FileTools : ReadsThenActs(tool)
  BY DEF FileTools, Promised, Quiet, FileMethods, FileChanges
<1>2. \A tool \in BrowserTools : ReadsThenActs(tool)
  BY DEF BrowserTools, Promised, Quiet
<1>3. \A tool \in ConsoleAndArtifacts : ReadsThenActs(tool)
  BY DEF ConsoleAndArtifacts, Quiet, LocalMethods
<1>4. \A tool \in InspectionTools : ReadsThenActs(tool)
  BY DEF InspectionTools, Quiet, FileMethods, GitReads
<1>5. \A tool \in GitTools : ReadsThenActs(tool)
  BY DEF GitTools, Quiet, GitReads
<1>6. \A tool \in GitChangeTools : ReadsThenActs(tool)
  BY DEF GitChangeTools, Promised, GitLocalChanges
<1>7. \A tool \in ProcessTools : ReadsThenActs(tool)
  BY SMTT(60) DEF ProcessTools, Promised, Quiet, GitReads, FileMethods
<1>8. \A tool \in ProfileAndSkillTools : ReadsThenActs(tool)
  BY DEF ProfileAndSkillTools, Quiet, LocalMethods
<1>9. \A tool \in SystemTools : ReadsThenActs(tool)
  BY DEF SystemTools, Quiet, LocalMethods
<1> HIDE DEF T, ReadsThenActs, LastOfPlan
<1> QED BY <1>1, <1>2, <1>3, <1>4, <1>5, <1>6, <1>7, <1>8, <1>9

(* The others are sound for reasons of their own.                          *)
LEMMA ToolsAreSound == \A tool \in Tools : Sound(tool)
<1>1. \A tool \in VisualTools : Sound(tool)
  <2>1. {"readSession", "captureSession", "artifactRead"} \intersect Refusable = {}
    BY DEF Refusable, NeedsReady, FileMethods, FileChanges, GitReads, GitLocalChanges, GitRemoteChanges, ProcessMethods, Running
  <2>2. /\ Allows("BrowserCapture", "readSession") /\ Allows("BrowserCapture", "captureSession")
        /\ Allows("BrowserCapture", "artifactRead")
    BY PromisesAreAllowed, QuietOnlyReads DEF Promised, Quiet, Allows
  <2> QED BY <2>1, <2>2 DEF VisualTools, T, Sound
<1>2. \A tool \in CiTools : Sound(tool)
  <2>1. \A tool \in CiTools :
          /\ Len(tool.plan) \in Nat /\ tool.errors \notin Telling
          /\ \A i \in 1..Len(tool.plan) : tool.plan[i] \in Quiet \/ <<tool.hints, tool.plan[i]>> \in Promised
          /\ \A i \in 1..Len(tool.plan) : tool.plan[i] \notin GitChanges
    BY DEF CiTools, CiPlan, T, Telling, GitChanges, GitLocalChanges, GitRemoteChanges, Promised, Quiet, GitReads
  <2> QED BY <2>1, PromisesAreAllowed, QuietOnlyReads DEF Sound, Allows
<1>3. \A tool \in PreviewTools : Sound(tool)
  <2>1. \A tool \in PreviewTools :
          /\ Len(tool.plan) \in Nat
          /\ \A i \in 1..Len(tool.plan) : tool.plan[i] \in Quiet \/ <<tool.hints, tool.plan[i]>> \in Promised
          /\ tool.name \in ManySteps \/ \A i \in 1..Len(tool.plan) : tool.plan[i] \notin Changing
    BY DEF PreviewTools, T, ManySteps, Promised, Quiet, Changing, FileChanges, GitLocalChanges, GitRemoteChanges, RemoteMethods
  <2> QED BY <2>1, PromisesAreAllowed, QuietOnlyReads DEF Sound, Allows
<1>4. \A tool \in WorkspaceTools : Sound(tool)
  <2>1. \A tool \in WorkspaceTools :
          /\ Len(tool.plan) \in Nat
          /\ tool.name = "workspace.close" => \A i \in 1..Len(tool.plan) : <<tool.hints, tool.plan[i]>> \in Promised
    BY DEF WorkspaceTools, T, Promised
  <2>2. \A tool \in WorkspaceTools : ReadsThenActs(tool) \/ tool.name = "workspace.close"
    BY DEF WorkspaceTools, T, ReadsThenActs, LastOfPlan, Quiet, Promised, GitReads
  <2> QED BY <2>1, <2>2, ReadersAreSound, PromisesAreAllowed DEF Sound, ManySteps
<1>5. \A tool \in GitHubTools : Sound(tool)
  <2>1. \A tool \in GitHubTools :
          /\ Len(tool.plan) \in Nat
          /\ tool.name = "github.pr.feedback.reply" =>
               /\ tool.errors \notin Telling
               /\ \A i \in 1..Len(tool.plan) : <<tool.hints, tool.plan[i]>> \in Promised /\ tool.plan[i] \notin GitChanges
    BY DEF GitHubTools, T, Promised, Telling, GitChanges, GitLocalChanges, GitRemoteChanges
  <2>2. \A tool \in GitHubTools : ReadsThenActs(tool) \/ tool.name = "github.pr.feedback.reply"
    BY DEF GitHubTools, T, ReadsThenActs, LastOfPlan, Quiet, Promised, GitReads
  <2> QED BY <2>1, <2>2, ReadersAreSound, PromisesAreAllowed DEF Sound, ManySteps
<1>6. Sound(ResumeTool)
  <2>1. Len(ResumeTool.plan) \in Nat /\ ResumeTool.name \notin ManySteps /\ ResumeTool.errors \notin Telling
    BY DEF ResumeTool, T, ManySteps, Telling
  <2>2. \A i \in 1..Len(ResumeTool.plan) : ResumeTool.plan[i] \in Quiet \union {"ciRead", "githubRead"}
    BY DEF ResumeTool, T, Quiet, FileMethods, GitReads
  <2>3. \A m \in Quiet \union {"ciRead", "githubRead"} : m \notin GitChanges
    BY QuietOnlyReads DEF Changing, GitChanges, GitLocalChanges, GitRemoteChanges
  <2> QED BY <2>1, <2>2, <2>3, QuietOnlyReads DEF Sound, Allows
<1> QED BY MostToolsReadThenAct, ReadersAreSound, <1>1, <1>2, <1>3, <1>4, <1>5, <1>6 DEF Tools

(* What a method does, one by one.                                         *)
Acts == {"changes", "removes", "runs", "remote"}
LEMMA EffectsOf ==
  ASSUME NEW m
  PROVE  /\ Effects(m) \subseteq Acts
         /\ "changes" \in Effects(m) <=> m \in Changing
         /\ "removes" \in Effects(m) <=> m \in Removing
         /\ "runs" \in Effects(m) <=> m \in Running
         /\ "remote" \in Effects(m) <=> m \in Asking
BY DEF Effects, Does, Acts

UseFields == {"at", "tool", "step", "did", "changedWhen", "recorded", "says"}

(* What a call has done its methods do, and a call in progress has done it *)
(* with the methods behind it; a session is closed by a call that uses one *)
(* and fails at once.                                                      *)
UseInv ==
  /\ DOMAIN use = UseFields
  /\ use.at \in {"idle", "calling", "answered"}
  /\ use.at # "idle" =>
       /\ use.tool \in Tools
       /\ \A act \in use.did \ {"closes"} : \E i \in 1..Len(use.tool.plan) : act \in Effects(use.tool.plan[i])
       /\ "closes" \in use.did => UsesSession(use.tool) /\ use.at = "answered" /\ use.says = "failed" /\ ~use.recorded
       /\ \A done \in use.changedWhen : done[1] \in GitChanges => done[2] = "trusted"
       /\ use.recorded => use.says = "ok"
       /\ use.says = "refused" => "changes" \notin use.did \/ use.tool.name \in ManySteps
  /\ use.at = "calling" =>
       /\ use.step \in Nat /\ use.step >= 1
       /\ "changes" \in use.did => \E i \in 1..Len(use.tool.plan) : i < use.step /\ use.tool.plan[i] \in Changing
       /\ use.says = "none" /\ use.recorded = FALSE

(* An answer that is not the result.                                       *)
LEMMA EndKeepsUse ==
  ASSUME UseInv, use.at = "calling", NEW says, Ends(says),
         says = "refused" => "changes" \notin use.did \/ use.tool.name \in ManySteps
  PROVE  UseInv'
BY DEF UseInv, Ends, UseFields

LEMMA UseStep == UseInv /\ [ToolNext]_toolVars => UseInv'
<1> SUFFICES ASSUME UseInv, [ToolNext]_toolVars PROVE UseInv'
  OBVIOUS
<1>1. CASE UseTool
  <2>1. PICK tool \in Tools :
          \/ use' = [Idle EXCEPT !.at = "calling", !.tool = tool, !.step = 1]
          \/ use' = [Idle EXCEPT !.at = "answered", !.tool = tool, !.says = Says(tool, "input")]
    BY <1>1 DEF UseTool
  <2>2. CASE use' = [Idle EXCEPT !.at = "calling", !.tool = tool, !.step = 1]
    BY <2>2 DEF Idle, UseInv, UseFields
  <2>3. CASE use' = [Idle EXCEPT !.at = "answered", !.tool = tool, !.says = Says(tool, "input")]
    BY <2>3 DEF Idle, UseInv, UseFields
  <2> QED BY <2>1, <2>2, <2>3
<1>2. CASE DoStep
  <2> DEFINE when == IF Effects(Method) = {} THEN use.changedWhen ELSE use.changedWhen \union {<<Method, profile>>}
             did  == [use EXCEPT !.did = @ \union Effects(Method), !.changedWhen = when]
  <2>1. /\ use.at = "calling" /\ use.step <= Len(use.tool.plan) /\ Admitted(Method)
        /\ \/ use' = [did EXCEPT !.step = @ + 1]
           \/ use' = [did EXCEPT !.at = "answered", !.says = Says(use.tool, "lost")]
    BY <1>2 DEF DoStep
  <2>2. /\ use.step \in 1..Len(use.tool.plan) /\ Len(use.tool.plan) \in Nat /\ use.tool \in Tools
        /\ Method = use.tool.plan[use.step]
    BY <2>1, ToolsAreSound DEF UseInv, Sound, Method
  <2>3. \A done \in when : done[1] \in GitChanges => done[2] = "trusted"
    <3>1. Method \in GitChanges => profile = "trusted"
      BY <2>1 DEF Admitted, Authorized, TrustedOnly, GitChanges
    <3> QED BY <2>1, <3>1 DEF UseInv
  <2>4. /\ \A act \in (use.did \union Effects(Method)) \ {"closes"} :
             \E i \in 1..Len(use.tool.plan) : act \in Effects(use.tool.plan[i])
        /\ "closes" \notin use.did \union Effects(Method)
    BY <2>1, <2>2, EffectsOf DEF UseInv, Acts
  <2>5. "changes" \in use.did \union Effects(Method) =>
          \E i \in 1..Len(use.tool.plan) : i < use.step + 1 /\ use.tool.plan[i] \in Changing
    BY <2>1, <2>2, EffectsOf DEF UseInv
  <2>6. Says(use.tool, "lost") = "failed"
    BY DEF Says
  <2>7. /\ did.at = use.at /\ did.tool = use.tool /\ did.step = use.step /\ did.did = use.did \union Effects(Method)
        /\ did.changedWhen = when /\ did.recorded = use.recorded /\ did.says = use.says /\ DOMAIN did = UseFields
    BY DEF UseInv, UseFields
  <2> HIDE DEF did, when
  <2>8. CASE use' = [did EXCEPT !.step = @ + 1]
    <3>1. /\ use'.at = use.at /\ use'.tool = use.tool /\ use'.step = use.step + 1
          /\ use'.did = use.did \union Effects(Method)
          /\ use'.changedWhen = when /\ use'.recorded = use.recorded /\ use'.says = use.says /\ DOMAIN use' = UseFields
      BY <2>7, <2>8 DEF UseFields
    <3> QED BY <2>1, <2>2, <2>3, <2>4, <2>5, <3>1 DEF UseInv
  <2>9. CASE use' = [did EXCEPT !.at = "answered", !.says = Says(use.tool, "lost")]
    <3>1. /\ use'.at = "answered" /\ use'.tool = use.tool
          /\ use'.did = use.did \union Effects(Method)
          /\ use'.changedWhen = when /\ use'.recorded = use.recorded /\ use'.says = "failed" /\ DOMAIN use' = UseFields
      BY <2>6, <2>7, <2>9 DEF UseFields
    <3> QED BY <2>1, <2>2, <2>3, <2>4, <3>1 DEF UseInv
  <2> QED BY <2>1, <2>8, <2>9
<1>3. CASE StepRefused
  <2>1. PICK why \in {"not_ready", "denied", "failed"} :
          /\ why = "not_ready" => Method \in NeedsReady /\ ~ready
          /\ why = "denied" => ~Authorized(Method)
          /\ Ends(Says(use.tool, why))
    BY <1>3 DEF StepRefused
  <2>2. use.at = "calling" /\ use.tool \in Tools /\ use.step \in 1..Len(use.tool.plan) /\ Method = use.tool.plan[use.step]
        /\ Sound(use.tool) /\ use.step \in Nat
    BY <1>3, ToolsAreSound DEF StepRefused, UseInv, Sound, Method
  <2>3. Says(use.tool, why) = "refused" =>
          Method \in Refusable /\ (use.tool.errors \in Telling \/ GitChanging(use.tool))
    BY <2>1 DEF Says, Telling, Refusable, Authorized, TrustedOnly, FileGate, ProcessGate, Running
  <2>4. GitChanging(use.tool) => \E i \in 1..Len(use.tool.plan) : use.tool.plan[i] \in GitChanges
    <3>1. ToSet(use.tool.plan) = {use.tool.plan[i] : i \in 1..Len(use.tool.plan)}
      BY <2>2 DEF ToSet
    <3> QED BY <3>1 DEF GitChanging, GitChanges
  <2>5. ASSUME Says(use.tool, why) = "refused", "changes" \in use.did, use.tool.name \notin ManySteps
        PROVE  FALSE
    <3>1. PICK i \in 1..Len(use.tool.plan) : i < use.step /\ use.tool.plan[i] \in Changing
      BY <2>2, <2>5 DEF UseInv
    <3> QED BY <2>2, <2>3, <2>4, <2>5, <3>1 DEF Sound
  <2> QED BY <2>1, <2>2, <2>5, EndKeepsUse
<1>4. CASE SkipStep
  BY <1>4 DEF SkipStep, UseInv, UseFields
<1>8. CASE SessionLost
  <2>1. use.at = "calling" /\ Method \in SessionUsers /\ Says(use.tool, "lost") = "failed"
        /\ use' = [use EXCEPT !.did = @ \union {"closes"}, !.at = "answered", !.says = Says(use.tool, "lost")]
    BY <1>8 DEF SessionLost, Says
  <2>2. /\ use'.at = "answered" /\ use'.tool = use.tool /\ use'.did = use.did \union {"closes"}
        /\ use'.changedWhen = use.changedWhen /\ use'.recorded = use.recorded /\ use'.says = "failed"
        /\ DOMAIN use' = UseFields
    BY <2>1 DEF UseInv, UseFields
  <2>3. UsesSession(use.tool)
    <3>1. use.step \in 1..Len(use.tool.plan) /\ Method = use.tool.plan[use.step]
      BY <1>8, ToolsAreSound DEF SessionLost, UseInv, Sound, Method
    <3>2. ToSet(use.tool.plan) = {use.tool.plan[i] : i \in 1..Len(use.tool.plan)}
      BY <3>1 DEF ToSet
    <3> QED BY <2>1, <3>1, <3>2 DEF UsesSession
  <2> QED BY <2>1, <2>2, <2>3 DEF UseInv
<1>5. CASE Result
  <2>1. CASE use' = [use EXCEPT !.at = "answered", !.says = "ok", !.recorded = TRUE]
    BY <1>5, <2>1 DEF Result, UseInv, UseFields
  <2>2. CASE Ends(Says(use.tool, "invalid"))
    <3>1. Says(use.tool, "invalid") = "failed"
      BY DEF Says
    <3> QED BY <1>5, <2>2, <3>1, EndKeepsUse DEF Result
  <2> QED BY <1>5, <2>1, <2>2 DEF Result
<1>6. CASE AgainIdle
  BY <1>6 DEF AgainIdle, Idle, UseInv, UseFields
<1>7. CASE UNCHANGED use
  BY <1>7 DEF UseInv
<1> QED BY <1>1, <1>2, <1>3, <1>4, <1>5, <1>6, <1>7, <1>8 DEF ToolNext, OthersLifecycle, toolVars

(* Whatever is closed, refused or lost under it, no tool does more than    *)
(* its annotations say, but for the browser session it may have closed, and*)
(* none that has changed or closed something says that it was refused.     *)
THEOREM ToolsDoWhatTheySay == ToolSpec => []ToolsKeepTheirWord
<1>1. ToolInit => UseInv
  BY DEF ToolInit, Idle, UseInv, UseFields
<1>2. UseInv => ToolsKeepTheirWord
  <2> SUFFICES ASSUME UseInv, use.at # "idle" PROVE ToolsKeepTheirWord
    BY DEF ToolsKeepTheirWord
  <2>1. use.tool \in Tools /\ Sound(use.tool)
    BY ToolsAreSound DEF UseInv
  <2>2. \A m \in {"ciRead", "githubRead"} : m \notin Changing \union Removing \union Running
    BY DEF Changing, Removing, Running, FileChanges, GitLocalChanges, GitRemoteChanges, RemoteMethods
  <2>3. \A i \in 1..Len(use.tool.plan) :
          /\ Hints(use.tool.hints).readOnly => use.tool.plan[i] \notin Changing \union Removing \union Running
          /\ ~Hints(use.tool.hints).destructive => use.tool.plan[i] \notin Removing \union Running
          /\ ~Hints(use.tool.hints).openWorld => use.tool.plan[i] \notin Asking \/ use.tool = ResumeTool
    BY <2>1, <2>2 DEF Sound, Allows
  <2>4. \A act \in use.did \ {"closes"} : \E i \in 1..Len(use.tool.plan) : act \in Effects(use.tool.plan[i])
    BY DEF UseInv
  <2>5. Hints(use.tool.hints).readOnly => use.did \intersect {"changes", "removes", "runs"} = {}
    BY <2>3, <2>4, EffectsOf
  <2>6. ~Hints(use.tool.hints).destructive => use.did \intersect {"removes", "runs"} = {}
    BY <2>3, <2>4, EffectsOf
  <2>7. ~Hints(use.tool.hints).openWorld => "remote" \notin use.did \/ use.tool = ResumeTool
    BY <2>3, <2>4, EffectsOf
  <2> QED BY <2>5, <2>6, <2>7 DEF UseInv, ToolsKeepTheirWord, ManySteps, GitChanges
<1> QED BY <1>1, <1>2, UseStep, PTL DEF ToolSpec
=============================================================================
