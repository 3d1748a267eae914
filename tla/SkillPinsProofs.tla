--------------------------- MODULE SkillPinsProofs ---------------------------
(***************************************************************************)
(* A pinned skill survives, whoever else works on its directory and        *)
(* whoever dies, for any number of processes and versions; and a call of   *)
(* the catalog tells the truth about its sources, for any number of them.  *)
(***************************************************************************)
EXTENDS SkillPins, SkillCatalog, TLAPS

-----------------------------------------------------------------------------
(* The inductive invariant                                                 *)

PinAts   == {"existing", "directories", "mkdir", "write", "raced", "rename", "settle"}
LoadAts  == {"load", "topology", "read"}
ListAts  == {"list", "manifests"}
UnpinAts == {"lstat", "rm", "prune", "rmdir"}
Removing == {"lstat", "rm"}

Runs ==
  [op : {"none", "pin", "unpin", "list", "load"}, fp : Fingerprints \union {Idle.fp},
   at : {"idle"} \union PinAts \union LoadAts \union ListAts \union UnpinAts,
   temp : SUBSET Files, made : BOOLEAN, left : SUBSET (Files \union Fingerprints),
   alone : BOOLEAN, answer : {"none", "ok", "not found", "invalid"}]

(* The steps of an operation, and what its temporary directory holds.      *)
RunOK(c) ==
  /\ c \in Runs
  /\ c.at # "idle" => c.fp \in Fingerprints
  /\ c.op = "pin" => c.at \in PinAts \union LoadAts
  /\ c.at \in PinAts => c.op = "pin"
  /\ c.at \in UnpinAts => c.op = "unpin"
  /\ c.at \in {"raced", "rename"} => c.temp = Files

Whole(f) == f \in snapshots /\ skillFiles[f] = Files

(* Nobody removes what a pin that is alone is about, and what it has found *)
(* or put there is there still.                                            *)
AloneOK(c) ==
  c.op = "pin" /\ c.alone =>
    /\ ~ Unpinning(c.fp, Procs)
    /\ c.at = "topology" => c.fp \in snapshots
    /\ c.at \in {"read", "settle"} => Whole(c.fp)

TypeInv ==
  /\ DOMAIN run = Procs
  /\ skillFiles \in [Fingerprints -> SUBSET Files]

IInv ==
  /\ TypeInv
  /\ \A p \in Procs : RunOK(run[p]) /\ AloneOK(run[p])
  /\ \A p \in Procs : run[p].at \in Removing => run[p].fp \in disturbed
  /\ \A f \in kept : Whole(f) /\ ~ Unpinning(f, Procs)
  /\ \A f \in snapshots \ disturbed : skillFiles[f] = Files
  /\ snapshots \subseteq Fingerprints

(* A process that is doing nothing is in a state a run may be in.          *)
LEMMA IdleOK ==
  ASSUME NEW answer \in {"none", "ok", "not found", "invalid"}
  PROVE  /\ RunOK([Idle EXCEPT !.answer = answer])
         /\ [Idle EXCEPT !.answer = answer].op = "none"
         /\ [Idle EXCEPT !.answer = answer].at = "idle"
         /\ RunOK(Idle) /\ Idle.op = "none" /\ Idle.at = "idle"
<1> DEFINE c == [Idle EXCEPT !.answer = answer]
<1>1. /\ Idle.op = "none" /\ Idle.at = "idle" /\ Idle.temp = {} /\ Idle.made = FALSE /\ Idle.left = {}
      /\ Idle.alone = TRUE /\ Idle.answer = "none"
      /\ Idle = [op |-> Idle.op, fp |-> Idle.fp, at |-> Idle.at, temp |-> Idle.temp, made |-> Idle.made,
                 left |-> Idle.left, alone |-> Idle.alone, answer |-> Idle.answer]
  BY DEF Idle
<1>2. Idle \in Runs
  BY <1>1 DEF Runs
<1>3. c \in Runs /\ c.op = Idle.op /\ c.at = Idle.at
  BY <1>2 DEF Runs
<1> HIDE DEF c
<1>4. RunOK(Idle)
  BY <1>1, <1>2 DEF RunOK, PinAts, UnpinAts
<1>5. RunOK(c)
  BY <1>1, <1>3 DEF RunOK, PinAts, UnpinAts
<1> QED BY <1>1, <1>3, <1>4, <1>5 DEF c

(* It holds at the start.                                                  *)
LEMMA InitIInv == PinInit => IInv
<1>1. RunOK(Idle) /\ Idle.op = "none" /\ Idle.at = "idle"
  BY IdleOK
<1> QED BY <1>1 DEF PinInit, IInv, TypeInv, AloneOK, Removing

-----------------------------------------------------------------------------
(* Every step preserves it                                                 *)

(* A step of p that leaves every snapshot as it is.                        *)
LEMMA QuietStep ==
  ASSUME IInv, NEW p \in Procs, NEW c, RunOK(c), AloneOK(c),
         run' = [run EXCEPT ![p] = c],
         c.at \in Removing => run[p].at \in Removing /\ c.fp = run[p].fp,
         snapshots' = snapshots, skillFiles' = skillFiles, disturbed' = disturbed, kept' = kept
  PROVE  IInv'
<1>1. DOMAIN run = Procs /\ run'[p] = c /\ \A q \in Procs \ {p} : run'[q] = run[q]
  BY DEF IInv, TypeInv
<1>2. \A f : Unpinning(f, Procs)' => Unpinning(f, Procs)
  BY <1>1 DEF Unpinning, Removing
<1>3. \A q \in Procs : RunOK(run'[q]) /\ (AloneOK(run[q]) => TRUE)
  BY <1>1 DEF IInv
<1>4. ASSUME NEW q \in Procs PROVE AloneOK(run[q])'
  <2>1. AloneOK(run'[q])
    BY <1>1 DEF IInv
  <2> QED BY <1>2, <2>1 DEF AloneOK, Whole
<1>5. \A q \in Procs : run'[q].at \in Removing => run'[q].fp \in disturbed'
  BY <1>1 DEF IInv
<1>6. \A f \in kept' : Whole(f)' /\ ~ Unpinning(f, Procs)'
  BY <1>2 DEF IInv, Whole
<1>7. (\A q \in Procs : RunOK(run[q]))'
  BY <1>3 DEF RunOK, Runs
<1>8. TypeInv' /\ snapshots' \subseteq Fingerprints /\ \A f \in snapshots' \ disturbed' : skillFiles'[f] = Files
  BY DEF IInv, TypeInv
<1> QED BY <1>4, <1>5, <1>6, <1>7, <1>8 DEF IInv

(* A call ends: a pin that was alone keeps its snapshot, which is whole.   *)
LEMMA AnswerStep ==
  ASSUME IInv, NEW p \in Procs, NEW answer \in {"none", "ok", "not found", "invalid"},
         Answer(p, answer), snapshots' = snapshots, skillFiles' = skillFiles,
         run[p].op = "pin" /\ answer = "ok" /\ run[p].alone => Whole(run[p].fp),
         run[p].at = "lstat" => run[p].fp \notin snapshots
  PROVE  IInv'
<1> DEFINE c == [Idle EXCEPT !.answer = answer]
           f == run[p].fp
<1>1. RunOK(c) /\ c.op = "none" /\ c.at = "idle"
  BY IdleOK
<1>2. run' = [run EXCEPT ![p] = c]
  BY DEF Answer
<1> HIDE DEF c
<1>3. DOMAIN run = Procs /\ run'[p] = c /\ \A q \in Procs \ {p} : run'[q] = run[q]
  BY <1>2 DEF IInv, TypeInv
<1>4. \A g : Unpinning(g, Procs)' => Unpinning(g, Procs)
  BY <1>1, <1>3 DEF Unpinning
<1>5. disturbed' = disturbed \/ (run[p].at = "lstat" /\ disturbed' = disturbed \ {f} /\ ~ Unpinning(f, Procs \ {p}))
  BY DEF Answer, Settled
<1>6. (\A q \in Procs : RunOK(run[q]))'
  <2>1. \A q \in Procs : RunOK(run'[q])
    BY <1>1, <1>3 DEF IInv
  <2> QED BY <2>1 DEF RunOK, Runs
<1>7. ASSUME NEW q \in Procs PROVE AloneOK(run[q])'
  <2>1. CASE q = p
    BY <1>1, <1>3, <2>1 DEF AloneOK
  <2>2. CASE q # p
    BY <1>3, <1>4, <2>2 DEF IInv, AloneOK, Whole
  <2> QED BY <2>1, <2>2
<1>8. \A q \in Procs : run'[q].at \in Removing => run'[q].fp \in disturbed'
  <2> SUFFICES ASSUME NEW q \in Procs, run'[q].at \in Removing PROVE run'[q].fp \in disturbed'
    OBVIOUS
  <2>1. q # p /\ run'[q] = run[q] /\ run[q].fp \in disturbed
    BY <1>1, <1>3 DEF IInv, Removing
  <2>2. run[q].fp = f => Unpinning(f, Procs \ {p})
    BY <2>1 DEF Unpinning, Removing
  <2>3. CASE disturbed' = disturbed
    BY <2>1, <2>3
  <2>4. CASE disturbed' = disturbed \ {f} /\ ~ Unpinning(f, Procs \ {p})
    BY <2>1, <2>2, <2>4
  <2> QED BY <1>5, <2>3, <2>4
<1>9. \A g \in kept' : Whole(g)' /\ ~ Unpinning(g, Procs)'
  <2>1. kept' = kept \/ (kept' = kept \union {f} /\ run[p].op = "pin" /\ answer = "ok" /\ run[p].alone)
    BY DEF Answer
  <2>2. run[p].op = "pin" /\ run[p].alone => ~ Unpinning(f, Procs)
    BY DEF IInv, AloneOK
  <2> QED BY <1>4, <2>1, <2>2 DEF IInv, Whole
<1>10. \A g \in snapshots' \ disturbed' : skillFiles'[g] = Files
  BY <1>5 DEF IInv
<1>11. TypeInv' /\ snapshots' \subseteq Fingerprints
  BY <1>2 DEF IInv, TypeInv
<1> QED BY <1>6, <1>7, <1>8, <1>9, <1>10, <1>11 DEF IInv

(* p goes on with its own call: what the next step may count on is there.  *)
LEMMA MoveStep ==
  ASSUME IInv, NEW p \in Procs, NEW c \in Runs, run' = [run EXCEPT ![p] = c],
         c.op = run[p].op, c.fp = run[p].fp, c.alone = run[p].alone,
         run[p].at # "idle", c.at # "idle",
         c.op = "pin" => c.at \in PinAts \union LoadAts,
         c.at \in PinAts => c.op = "pin",
         c.at \in UnpinAts => c.op = "unpin",
         c.at \in {"raced", "rename"} => c.temp = Files,
         c.at \in Removing => run[p].at \in Removing,
         c.op = "pin" /\ c.alone /\ c.at = "topology" => c.fp \in snapshots,
         c.op = "pin" /\ c.alone /\ c.at \in {"read", "settle"} => Whole(c.fp),
         snapshots' = snapshots, skillFiles' = skillFiles, disturbed' = disturbed, kept' = kept
  PROVE  IInv'
<1>1. RunOK(run[p]) /\ AloneOK(run[p])
  BY DEF IInv
<1>2. RunOK(c)
  BY <1>1 DEF RunOK
<1>3. AloneOK(c)
  BY <1>1 DEF AloneOK
<1> QED BY <1>2, <1>3, QuietStep

(* A step of pin.                                                          *)
LEMMA PinKeepsIInv ==
  ASSUME IInv, NEW p \in Procs, PinStep(p)
  PROVE  IInv'
<1> DEFINE r == run[p]
<1>1. r \in Runs /\ RunOK(r) /\ AloneOK(r)
  BY DEF IInv, RunOK
<1>2. \A at \in {"load", "settle"} :
        LET c == [r EXCEPT !.at = at, !.temp = {}, !.made = FALSE]
        IN c \in Runs /\ c.op = r.op /\ c.fp = r.fp /\ c.alone = r.alone /\ c.at = at /\ c.temp = {}
  BY <1>1 DEF Runs, PinAts, LoadAts
<1>3. \A at \in {"load", "directories", "rename", "raced"} :
        LET c == [r EXCEPT !.at = at]
        IN c \in Runs /\ c.op = r.op /\ c.fp = r.fp /\ c.alone = r.alone /\ c.at = at /\ c.temp = r.temp
  BY <1>1 DEF Runs, PinAts, LoadAts
<1>4. CASE Existing(p)
  <2>1. r.op = "pin" /\ snapshots' = snapshots /\ skillFiles' = skillFiles /\ r.at \in {"existing", "raced"}
    BY <1>1, <1>4 DEF Existing, RunOK, PinAts
  <2>2. CASE Answer(p, "invalid")
    BY <2>1, <2>2, AnswerStep
  <2>3. CASE Goto(p, IF r.at = "existing" THEN "directories" ELSE "rename") /\ UNCHANGED <<kept, disturbed>>
    <3> DEFINE at == IF r.at = "existing" THEN "directories" ELSE "rename"
               c == [r EXCEPT !.at = at]
    <3>1. run' = [run EXCEPT ![p] = c]
      BY <2>3 DEF Goto
    <3>2. at \in {"directories", "rename"} /\ (at = "rename" => r.at = "raced")
      BY <2>1
    <3> HIDE DEF at
    <3>3. c \in Runs /\ c.op = r.op /\ c.fp = r.fp /\ c.alone = r.alone /\ c.at = at /\ c.temp = r.temp
      BY <1>3, <3>2
    <3> HIDE DEF c
    <3>4. at = "rename" => r.temp = Files
      BY <1>1, <3>2 DEF RunOK
    <3> QED BY <2>1, <2>3, <3>1, <3>2, <3>3, <3>4, MoveStep DEF PinAts, LoadAts, UnpinAts, Removing
  <2>4. CASE run' = [run EXCEPT ![p].at = Reuse, ![p].temp = {}, ![p].made = FALSE] /\ UNCHANGED <<kept, disturbed>>
    <3> DEFINE c == [r EXCEPT !.at = "load", !.temp = {}, !.made = FALSE]
    <3>1. run' = [run EXCEPT ![p] = c]
      BY <2>4 DEF Reuse, LoadItFirst
    <3>2. c \in Runs /\ c.op = r.op /\ c.fp = r.fp /\ c.alone = r.alone /\ c.at = "load" /\ c.temp = {}
      BY <1>2
    <3> HIDE DEF c
    <3> QED BY <2>1, <2>4, <3>1, <3>2, MoveStep DEF PinAts, LoadAts, UnpinAts, Removing
  <2> QED BY <1>4, <2>2, <2>3, <2>4 DEF Existing
<1>5. CASE Directories(p)
  <2> DEFINE c == [r EXCEPT !.at = "mkdir"]
  <2>1. run' = [run EXCEPT ![p] = c] /\ r.at = "directories" /\ UNCHANGED <<snapshots, skillFiles, kept, disturbed>>
    BY <1>5 DEF Directories, Goto
  <2>2. c \in Runs /\ c.op = r.op /\ c.fp = r.fp /\ c.alone = r.alone /\ c.at = "mkdir" /\ r.op = "pin"
    BY <1>1, <2>1 DEF Runs, RunOK, PinAts
  <2> HIDE DEF c
  <2> QED BY <2>1, <2>2, MoveStep DEF PinAts, LoadAts, UnpinAts, Removing
<1>6. CASE MakeTemporary(p)
  <2>1. r.at = "mkdir" /\ r.op = "pin" /\ snapshots' = snapshots /\ skillFiles' = skillFiles
    BY <1>1, <1>6 DEF MakeTemporary, disk, RunOK, PinAts
  <2>2. CASE Answer(p, "invalid")
    BY <2>1, <2>2, AnswerStep
  <2>3. CASE run' = [run EXCEPT ![p].at = "write", ![p].made = TRUE] /\ UNCHANGED <<kept, disturbed>>
    <3> DEFINE c == [r EXCEPT !.at = "write", !.made = TRUE]
    <3>1. run' = [run EXCEPT ![p] = c]
      BY <2>3
    <3>2. c \in Runs /\ c.op = r.op /\ c.fp = r.fp /\ c.alone = r.alone /\ c.at = "write"
      BY <1>1 DEF Runs, PinAts
    <3> HIDE DEF c
    <3> QED BY <2>1, <2>3, <3>1, <3>2, MoveStep DEF PinAts, LoadAts, UnpinAts, Removing
  <2> QED BY <1>6, <2>2, <2>3 DEF MakeTemporary
<1>7. CASE WriteFile(p)
  <2> DEFINE c == [r EXCEPT !.temp = @ \union {NextFile(@)}]
  <2>1. /\ run' = [run EXCEPT ![p] = c] /\ r.at = "write"
        /\ snapshots' = snapshots /\ skillFiles' = skillFiles /\ kept' = kept /\ disturbed' = disturbed
    BY <1>7 DEF WriteFile, disk
  <2>2. NextFile(r.temp) \in Files
    BY DEF NextFile, Files
  <2>3. c \in Runs /\ c.op = r.op /\ c.fp = r.fp /\ c.alone = r.alone /\ c.at = "write" /\ r.op = "pin"
    BY <1>1, <2>1, <2>2 DEF Runs, RunOK, PinAts
  <2> HIDE DEF c
  <2> QED BY <2>1, <2>3, MoveStep DEF PinAts, LoadAts, UnpinAts, Removing
<1>8. CASE Written(p)
  <2> DEFINE c == [r EXCEPT !.at = "raced"]
  <2>1. /\ run' = [run EXCEPT ![p] = c] /\ r.at = "write" /\ r.temp = Files
        /\ snapshots' = snapshots /\ skillFiles' = skillFiles /\ kept' = kept /\ disturbed' = disturbed
    BY <1>8 DEF Written, Goto, Complete, AllWritten, disk
  <2>2. c \in Runs /\ c.op = r.op /\ c.fp = r.fp /\ c.alone = r.alone /\ c.at = "raced" /\ c.temp = Files /\ r.op = "pin"
    BY <1>1, <2>1 DEF Runs, RunOK, PinAts
  <2> HIDE DEF c
  <2> QED BY <2>1, <2>2, MoveStep DEF PinAts, LoadAts, UnpinAts, Removing
<1>9. CASE Publish(p)
  <2>1. r.at = "rename" /\ r.op = "pin" /\ r.temp = Files /\ r.fp \in Fingerprints
    BY <1>1, <1>9 DEF Publish, RunOK, PinAts
  <2>2. CASE /\ run' = [run EXCEPT ![p].at = "load", ![p].temp = {}, ![p].made = FALSE]
             /\ UNCHANGED <<snapshots, skillFiles, kept, disturbed>>
    <3> DEFINE c == [r EXCEPT !.at = "load", !.temp = {}, !.made = FALSE]
    <3>1. run' = [run EXCEPT ![p] = c]
      BY <2>2
    <3>2. c \in Runs /\ c.op = r.op /\ c.fp = r.fp /\ c.alone = r.alone /\ c.at = "load"
      BY <1>2
    <3> HIDE DEF c
    <3> QED BY <2>1, <2>2, <3>1, <3>2, MoveStep DEF PinAts, LoadAts, UnpinAts, Removing
  <2>3. CASE /\ snapshots' = snapshots \union {r.fp} /\ skillFiles' = [skillFiles EXCEPT ![r.fp] = r.temp]
             /\ run' = [run EXCEPT ![p].at = "settle", ![p].temp = {}, ![p].made = FALSE]
             /\ UNCHANGED <<kept, disturbed>>
    <3> DEFINE c == [r EXCEPT !.at = "settle", !.temp = {}, !.made = FALSE]
    <3>1. run' = [run EXCEPT ![p] = c]
      BY <2>3
    <3>2. c \in Runs /\ c.op = r.op /\ c.fp = r.fp /\ c.alone = r.alone /\ c.at = "settle"
      BY <1>2
    <3> HIDE DEF c
    <3>3. DOMAIN run = Procs /\ run'[p] = c /\ \A q \in Procs \ {p} : run'[q] = run[q]
      BY <3>1 DEF IInv, TypeInv
    <3>4. /\ DOMAIN skillFiles = Fingerprints /\ skillFiles' \in [Fingerprints -> SUBSET Files]
          /\ \A f \in Fingerprints : skillFiles'[f] = IF f = r.fp THEN Files ELSE skillFiles[f]
          /\ snapshots \subseteq Fingerprints /\ kept' = kept /\ disturbed' = disturbed
      BY <2>1, <2>3 DEF IInv, TypeInv
    <3>5. \A f \in Fingerprints : Whole(f) => Whole(f)'
      BY <2>3, <3>4 DEF Whole
    <3>6. r.fp \in snapshots' /\ skillFiles'[r.fp] = Files
      BY <2>1, <2>3, <3>4
    <3>7. \A f : Unpinning(f, Procs)' => Unpinning(f, Procs)
      BY <3>2, <3>3 DEF Unpinning
    <3>8. ASSUME NEW q \in Procs PROVE RunOK(run[q])' /\ AloneOK(run[q])'
      <4>1. CASE q = p
        <5>1. RunOK(c)
          BY <1>1, <2>1, <3>2 DEF RunOK, PinAts, UnpinAts
        <5>2. RunOK(run[q])'
          BY ZenonT(60), <3>3, <4>1, <5>1 DEF RunOK, Runs
        <5>3. c.alone => ~ Unpinning(c.fp, Procs)
          BY <1>1, <2>1, <3>2 DEF AloneOK
        <5>4. AloneOK(run[q])'
          BY <3>2, <3>3, <3>6, <3>7, <4>1, <5>3 DEF AloneOK, Whole
        <5> QED BY <5>2, <5>4
      <4>2. CASE q # p
        <5>1. RunOK(run[q]) /\ AloneOK(run[q]) /\ run'[q] = run[q]
          BY <3>3, <4>2 DEF IInv
        <5>2. run[q].at # "idle" => run[q].fp \in Fingerprints
          BY <5>1 DEF RunOK
        <5>3. run[q].at \in {"topology", "read", "settle"} => run[q].at # "idle"
          OBVIOUS
        <5>4. run[q].at # "idle" /\ run[q].fp \in snapshots => run[q].fp \in snapshots'
          BY <2>3
        <5>5. run[q].at # "idle" /\ Whole(run[q].fp) => run[q].fp \in snapshots' /\ skillFiles'[run[q].fp] = Files
          BY <3>5, <5>2 DEF Whole
        <5>6. AloneOK(run[q])'
          BY <3>7, <5>1, <5>3, <5>4, <5>5 DEF AloneOK, Whole
        <5>7. RunOK(run[q])'
          BY <5>1 DEF RunOK, Runs
        <5> QED BY <5>6, <5>7
      <4> QED BY <4>1, <4>2
    <3>9. \A q \in Procs : run'[q].at \in Removing => run'[q].fp \in disturbed'
      BY <3>2, <3>3, <3>4 DEF IInv, Removing
    <3>10. \A f \in kept' : Whole(f)' /\ ~ Unpinning(f, Procs)'
      <4>1. \A f \in kept : f \in Fingerprints /\ Whole(f) /\ ~ Unpinning(f, Procs)
        BY <3>4 DEF IInv, Whole
      <4> QED BY <3>4, <3>5, <3>7, <4>1
    <3>11. \A f \in snapshots' \ disturbed' : skillFiles'[f] = Files
      BY <2>1, <2>3, <3>4 DEF IInv
    <3>12. TypeInv' /\ snapshots' \subseteq Fingerprints
      BY <2>1, <2>3, <3>1, <3>4 DEF IInv, TypeInv
    <3> QED BY <3>8, <3>9, <3>10, <3>11, <3>12 DEF IInv
  <2> QED BY <1>9, <2>2, <2>3 DEF Publish
<1>10. CASE SettlePin(p)
  <2>1. r.at = "settle" /\ r.op = "pin" /\ snapshots' = snapshots /\ skillFiles' = skillFiles
    BY <1>1, <1>10 DEF SettlePin, disk, RunOK, PinAts
  <2>2. r.alone => Whole(r.fp)
    BY <1>1, <2>1 DEF AloneOK
  <2>3. Answer(p, "ok") \/ Answer(p, "invalid")
    BY <1>10 DEF SettlePin
  <2> QED BY <2>1, <2>2, <2>3, AnswerStep
<1> QED BY <1>4, <1>5, <1>6, <1>7, <1>8, <1>9, <1>10 DEF PinStep

(* A step of load, by itself or for a pin, or of list.                     *)
LEMMA LoadKeepsIInv ==
  ASSUME IInv, NEW p \in Procs, LoadStep(p)
  PROVE  IInv'
<1> DEFINE r == run[p]
<1>1. r \in Runs /\ RunOK(r) /\ AloneOK(r) /\ snapshots \subseteq Fingerprints
  BY DEF IInv, RunOK
<1>2. snapshots' = snapshots /\ skillFiles' = skillFiles
  BY DEF LoadStep, LoadDirectory, LoadTopology, LoadFile, ListEntries, ListManifest, disk
<1>3. r.at \in LoadAts \union ListAts
  BY DEF LoadStep, LoadDirectory, LoadTopology, LoadFile, ListEntries, ListManifest, LoadAts, ListAts
<1>4. ASSUME NEW answer \in {"not found", "invalid"}, Answer(p, answer) PROVE IInv'
  BY <1>2, <1>3, <1>4, AnswerStep DEF LoadAts, ListAts
<1>5. ASSUME NEW left \in SUBSET (Files \union Fingerprints), NEW at \in {"topology", "read", "manifests"},
             run' = [run EXCEPT ![p].at = at, ![p].left = left] \/ (at = "topology" /\ run' = [run EXCEPT ![p].at = at]),
             r.op = "pin" => at # "manifests",
             r.op = "pin" /\ r.alone => r.fp \in snapshots /\ (at = "read" => Whole(r.fp)),
             UNCHANGED <<kept, disturbed>>
      PROVE  IInv'
  <2> DEFINE c == [r EXCEPT !.at = at, !.left = left]
             d == [r EXCEPT !.at = at]
  <2>1. c \in Runs /\ c.op = r.op /\ c.fp = r.fp /\ c.alone = r.alone /\ c.at = at
    BY <1>1 DEF Runs, LoadAts, ListAts
  <2>2. d \in Runs /\ d.op = r.op /\ d.fp = r.fp /\ d.alone = r.alone /\ d.at = at
    BY <1>1 DEF Runs, LoadAts, ListAts
  <2>3. run' = [run EXCEPT ![p] = c] \/ run' = [run EXCEPT ![p] = d]
    BY <1>5
  <2>4. at \notin PinAts \union UnpinAts \union Removing \union {"idle"} /\ (r.op = "pin" => at \in LoadAts) /\ r.at # "idle"
    BY <1>3, <1>5 DEF PinAts, UnpinAts, Removing, LoadAts, ListAts
  <2> HIDE DEF c, d
  <2>5. CASE run' = [run EXCEPT ![p] = c]
    BY <1>2, <1>5, <2>1, <2>4, <2>5, MoveStep DEF PinAts, Removing
  <2>6. CASE run' = [run EXCEPT ![p] = d]
    BY <1>2, <1>5, <2>2, <2>4, <2>6, MoveStep DEF PinAts, Removing
  <2> QED BY <2>3, <2>5, <2>6
<1>6. CASE LoadDirectory(p)
  <2>1. r.at = "load"
    BY <1>1, <1>6 DEF LoadDirectory, RunOK, Runs, LoadAts, PinAts, UnpinAts, IInv
  <2>2. CASE r.fp \in snapshots
    <3>1. run' = [run EXCEPT ![p].at = "topology"] /\ UNCHANGED <<kept, disturbed>>
      BY <1>6, <2>2 DEF LoadDirectory, Goto
    <3> QED BY <1>1, <1>5, <2>1, <2>2, <3>1
  <2>3. CASE r.fp \notin snapshots
    BY <1>4, <1>6, <2>3 DEF LoadDirectory
  <2> QED BY <2>2, <2>3
<1>7. CASE LoadTopology(p)
  <2>1. r.at = "topology"
    BY <1>1, <1>7 DEF LoadTopology, RunOK, IInv
  <2>2. CASE skillFiles[r.fp] = Files
    <3>1. run' = [run EXCEPT ![p].at = "read", ![p].left = Files] /\ UNCHANGED <<kept, disturbed>>
      BY <1>7, <2>2 DEF LoadTopology
    <3>2. r.op = "pin" /\ r.alone => r.fp \in snapshots /\ Whole(r.fp)
      BY <1>1, <2>1, <2>2 DEF AloneOK, Whole
    <3> QED BY <1>5, <2>1, <3>1, <3>2
  <2>3. CASE skillFiles[r.fp] # Files
    BY <1>4, <1>7, <2>3 DEF LoadTopology
  <2> QED BY <2>2, <2>3
<1>8. CASE LoadFile(p)
  <2>1. r.at = "read"
    BY <1>1, <1>8 DEF LoadFile, RunOK, IInv
  <2>2. r.op = "pin" /\ r.alone => Whole(r.fp)
    BY <1>1, <2>1 DEF AloneOK
  <2>3. PICK file \in r.left :
          \/ Answer(p, "ok") \/ Answer(p, "invalid")
          \/ run' = [run EXCEPT ![p].left = @ \ {file}] /\ UNCHANGED <<kept, disturbed>>
    BY <1>8 DEF LoadFile
  <2>4. CASE Answer(p, "ok")
    BY <1>2, <2>1, <2>2, <2>4, AnswerStep
  <2>5. CASE Answer(p, "invalid")
    BY <1>4, <2>5
  <2>6. CASE run' = [run EXCEPT ![p].left = @ \ {file}] /\ UNCHANGED <<kept, disturbed>>
    <3> DEFINE c == [r EXCEPT !.left = r.left \ {file}]
    <3>1. run' = [run EXCEPT ![p] = c]
      BY <2>6
    <3>2. c \in Runs /\ c.op = r.op /\ c.fp = r.fp /\ c.alone = r.alone /\ c.at = r.at
      BY <1>1 DEF Runs
    <3>3. r.at \notin PinAts \union UnpinAts \union Removing \union {"idle", "topology"} /\ r.at \in LoadAts
      BY <2>1 DEF PinAts, UnpinAts, Removing, LoadAts
    <3> HIDE DEF c
    <3> QED BY <1>2, <2>1, <2>2, <2>6, <3>1, <3>2, <3>3, MoveStep DEF PinAts
  <2> QED BY <2>3, <2>4, <2>5, <2>6
<1>9. ASSUME r.at \in ListAts, Answer(p, "ok") PROVE IInv'
  <2>1. r.op # "pin" /\ r.at # "lstat"
    BY <1>1, <1>9 DEF RunOK, ListAts, PinAts, LoadAts
  <2> QED BY <1>2, <1>9, <2>1, AnswerStep
<1>10. CASE ListEntries(p)
  <2>1. r.at = "list" /\ r.op # "pin"
    BY <1>1, <1>10 DEF ListEntries, RunOK, PinAts, LoadAts, UnpinAts, IInv
  <2>2. CASE snapshots = {}
    BY <1>9, <1>10, <2>1, <2>2 DEF ListEntries, ListAts
  <2>3. CASE snapshots # {}
    <3>1. run' = [run EXCEPT ![p].at = "manifests", ![p].left = snapshots] /\ UNCHANGED <<kept, disturbed>>
      BY <1>10, <2>3 DEF ListEntries
    <3> QED BY <1>1, <1>5, <2>1, <3>1
  <2> QED BY <2>2, <2>3
<1>11. CASE ListManifest(p)
  <2>1. r.at = "manifests" /\ r.op # "pin"
    BY <1>1, <1>11 DEF ListManifest, RunOK, PinAts, LoadAts, UnpinAts, IInv
  <2>2. PICK f \in r.left :
          \/ Answer(p, "ok") \/ Answer(p, "invalid")
          \/ run' = [run EXCEPT ![p].left = @ \ {f}] /\ UNCHANGED <<kept, disturbed>>
    BY <1>11 DEF ListManifest
  <2>3. CASE run' = [run EXCEPT ![p].left = @ \ {f}] /\ UNCHANGED <<kept, disturbed>>
    <3> DEFINE c == [r EXCEPT !.left = r.left \ {f}]
    <3>1. run' = [run EXCEPT ![p] = c]
      BY <2>3
    <3>2. c \in Runs /\ c.op = r.op /\ c.fp = r.fp /\ c.alone = r.alone /\ c.at = r.at
      BY <1>1 DEF Runs
    <3>3. r.at \notin PinAts \union UnpinAts \union Removing \union {"idle"}
      BY <2>1 DEF PinAts, UnpinAts, Removing
    <3> HIDE DEF c
    <3> QED BY <1>2, <2>1, <2>3, <3>1, <3>2, <3>3, MoveStep DEF PinAts
  <2> QED BY <1>4, <1>9, <2>1, <2>2, <2>3 DEF ListAts
<1> QED BY <1>6, <1>7, <1>8, <1>10, <1>11 DEF LoadStep

(* What a removal may count on: no pin that is kept, or alone, is about    *)
(* its snapshot.                                                           *)
LEMMA RemovedIsNobodys ==
  ASSUME IInv, NEW p \in Procs, run[p].at \in Removing
  PROVE  /\ Unpinning(run[p].fp, Procs)
         /\ run[p].fp \in disturbed /\ run[p].fp \in Fingerprints /\ run[p].fp \notin kept
         /\ \A q \in Procs : run[q].op = "pin" /\ run[q].alone => run[q].fp # run[p].fp
<1>1. Unpinning(run[p].fp, Procs)
  BY DEF Unpinning, Removing
<1> QED BY <1>1 DEF IInv, RunOK, AloneOK, Removing

(* The snapshots other than one that is being removed stay as they are.    *)
LEMMA RemovalStep ==
  ASSUME IInv, NEW p \in Procs, run[p].at \in Removing, NEW c, RunOK(c), c.op = "unpin", c.fp = run[p].fp,
         run' = [run EXCEPT ![p] = c],
         c.at \in Removing \/ run[p].fp \notin snapshots',
         snapshots' \in {snapshots, snapshots \ {run[p].fp}},
         skillFiles' \in [Fingerprints -> SUBSET Files],
         \A f \in Fingerprints \ {run[p].fp} : skillFiles'[f] = skillFiles[f],
         kept' = kept,
         disturbed' = disturbed \/ (c.at \notin Removing /\ disturbed' = Settled(run[p].fp, Procs \ {p}))
  PROVE  IInv'
<1> DEFINE f == run[p].fp
<1>1. DOMAIN run = Procs /\ run'[p] = c /\ \A q \in Procs \ {p} : run'[q] = run[q]
  BY DEF IInv, TypeInv
<1>2. /\ f \in disturbed /\ f \in Fingerprints /\ f \notin kept
      /\ \A q \in Procs : run[q].op = "pin" /\ run[q].alone => run[q].fp # f
  BY RemovedIsNobodys
<1>3. \A g : Unpinning(g, Procs)' => Unpinning(g, Procs)
  BY <1>1 DEF Unpinning, Removing
<1>4. \A g \in Fingerprints : g # f /\ Whole(g) => Whole(g)'
  BY DEF Whole
<1>5. ASSUME NEW q \in Procs PROVE RunOK(run[q])' /\ AloneOK(run[q])'
  <2>1. CASE q = p
    BY <1>1, <2>1 DEF RunOK, Runs, AloneOK
  <2>2. CASE q # p
    <3>1. RunOK(run[q]) /\ AloneOK(run[q]) /\ run'[q] = run[q]
      BY <1>1, <2>2 DEF IInv
    <3>2. RunOK(run[q])'
      BY <3>1 DEF RunOK, Runs
    <3>3. SUFFICES ASSUME run[q].op = "pin", run[q].alone
                   PROVE  AloneOK(run[q])'
      BY <3>1, <3>2 DEF AloneOK
    <3>4. run[q].fp # f
      BY <1>2, <3>3
    <3>5. Whole(run[q].fp) => run[q].fp \in snapshots' /\ skillFiles'[run[q].fp] = Files
      BY <3>4 DEF Whole, IInv
    <3>6. run[q].fp \in snapshots => run[q].fp \in snapshots'
      BY <3>4
    <3> QED BY <1>3, <3>1, <3>5, <3>6 DEF AloneOK, Whole
  <2> QED BY <2>1, <2>2
<1>6. disturbed' = disturbed \/ (c.at \notin Removing /\ disturbed' = disturbed \ {f} /\ ~ Unpinning(f, Procs \ {p}))
  BY DEF Settled
<1>7. ASSUME NEW q \in Procs, run'[q].at \in Removing PROVE run'[q].fp \in disturbed'
  <2>1. CASE q = p
    BY <1>1, <1>2, <1>6, <1>7, <2>1
  <2>2. CASE q # p
    <3>1. run'[q] = run[q] /\ run[q].fp \in disturbed
      BY <1>1, <1>7, <2>2 DEF IInv
    <3>2. run[q].fp = f => Unpinning(f, Procs \ {p})
      BY <1>7, <2>2, <3>1 DEF Unpinning, Removing
    <3>3. CASE disturbed' = disturbed
      BY <3>1, <3>3
    <3>4. CASE disturbed' = disturbed \ {f} /\ ~ Unpinning(f, Procs \ {p})
      BY <3>1, <3>2, <3>4
    <3> QED BY <1>6, <3>3, <3>4
  <2> QED BY <2>1, <2>2
<1>8. \A g \in kept' : Whole(g)' /\ ~ Unpinning(g, Procs)'
  <2>1. \A g \in kept : g \in Fingerprints /\ g # f /\ Whole(g) /\ ~ Unpinning(g, Procs)
    BY <1>2 DEF IInv, Whole
  <2> QED BY <1>3, <1>4, <2>1
<1>9. ASSUME NEW g \in snapshots' \ disturbed' PROVE skillFiles'[g] = Files
  <2>1. g # f
    <3>1. CASE disturbed' = disturbed
      BY <1>2, <3>1
    <3>2. CASE c.at \notin Removing
      BY <3>2
    <3> QED BY <1>6, <3>1, <3>2
  <2>2. g \in snapshots /\ g \notin disturbed /\ g \in Fingerprints
    BY <1>6, <2>1 DEF IInv
  <2> QED BY <2>1, <2>2 DEF IInv
<1>10. TypeInv' /\ snapshots' \subseteq Fingerprints
  BY <1>1 DEF IInv, TypeInv
<1> QED BY <1>5, <1>7, <1>8, <1>9, <1>10 DEF IInv

(* A step of unpin.                                                        *)
LEMMA UnpinKeepsIInv ==
  ASSUME IInv, NEW p \in Procs, UnpinStep(p)
  PROVE  IInv'
<1> DEFINE r == run[p]
<1>1. r \in Runs /\ RunOK(r) /\ snapshots \subseteq Fingerprints /\ skillFiles \in [Fingerprints -> SUBSET Files]
  BY DEF IInv, RunOK, TypeInv
<1>2. r.at \in UnpinAts /\ r.op = "unpin" /\ r.at # "idle" /\ r.fp \in Fingerprints
  <2>1. r.at \in UnpinAts
    BY DEF UnpinStep, UnpinLstat, RemoveFile, RemoveDirectory, Prune, RemoveSkillRoot, UnpinAts
  <2> QED BY <1>1, <2>1 DEF RunOK, UnpinAts
<1>3. CASE UnpinLstat(p)
  <2>1. CASE r.fp \in snapshots
    <3> DEFINE c == [r EXCEPT !.at = "rm", !.left = skillFiles[r.fp]]
    <3>1. /\ run' = [run EXCEPT ![p] = c] /\ r.at = "lstat"
          /\ snapshots' = snapshots /\ skillFiles' = skillFiles /\ kept' = kept /\ disturbed' = disturbed
      BY <1>3, <2>1 DEF UnpinLstat, disk
    <3>2. c \in Runs /\ c.op = r.op /\ c.fp = r.fp /\ c.alone = r.alone /\ c.at = "rm"
      BY <1>1, <1>2 DEF Runs, UnpinAts
    <3> HIDE DEF c
    <3> QED BY <1>2, <3>1, <3>2, MoveStep DEF PinAts, LoadAts, UnpinAts, Removing
  <2>2. CASE r.fp \notin snapshots
    <3>1. Answer(p, "not found") /\ snapshots' = snapshots /\ skillFiles' = skillFiles
      BY <1>3, <2>2 DEF UnpinLstat, disk
    <3> QED BY <1>2, <2>2, <3>1, AnswerStep
  <2> QED BY <2>1, <2>2
<1>4. CASE RemoveFile(p)
  <2>1. PICK file \in r.left :
          /\ skillFiles' = [skillFiles EXCEPT ![r.fp] = @ \ {file}]
          /\ run' = [run EXCEPT ![p].left = @ \ {file}]
    BY <1>4 DEF RemoveFile
  <2> DEFINE c == [r EXCEPT !.left = r.left \ {file}]
  <2>2. run' = [run EXCEPT ![p] = c] /\ r.at = "rm" /\ snapshots' = snapshots /\ kept' = kept /\ disturbed' = disturbed
    BY <1>4, <2>1 DEF RemoveFile
  <2>3. c \in Runs /\ c.op = r.op /\ c.fp = r.fp /\ c.at = "rm" /\ c.temp = r.temp
    BY <1>1, <2>2 DEF Runs
  <2>4. skillFiles' \in [Fingerprints -> SUBSET Files] /\ \A f \in Fingerprints \ {r.fp} : skillFiles'[f] = skillFiles[f]
    BY <1>1, <1>2, <2>1
  <2> HIDE DEF c
  <2>5. RunOK(c)
    BY <1>2, <2>3 DEF RunOK, PinAts, UnpinAts
  <2> QED BY <1>2, <2>2, <2>3, <2>4, <2>5, RemovalStep DEF Removing
<1>5. CASE RemoveDirectory(p)
  <2>1. CASE skillFiles[r.fp] = {}
    <3> DEFINE c == [r EXCEPT !.at = "prune"]
    <3>1. /\ run' = [run EXCEPT ![p] = c] /\ r.at = "rm" /\ snapshots' = snapshots \ {r.fp} /\ skillFiles' = skillFiles
          /\ kept' = kept /\ disturbed' = Settled(r.fp, Procs \ {p})
      BY <1>5, <2>1 DEF RemoveDirectory, Goto
    <3>2. c \in Runs /\ c.op = r.op /\ c.fp = r.fp /\ c.at = "prune" /\ c.temp = r.temp
      BY <1>1 DEF Runs, UnpinAts
    <3> HIDE DEF c
    <3>3. RunOK(c)
      BY <1>2, <3>2 DEF RunOK, PinAts, UnpinAts
    <3> QED BY <1>1, <1>2, <3>1, <3>2, <3>3, RemovalStep DEF Removing
  <2>2. CASE skillFiles[r.fp] # {}
    <3>1. Answer(p, "invalid") /\ snapshots' = snapshots /\ skillFiles' = skillFiles /\ r.at = "rm"
      BY <1>5, <2>2 DEF RemoveDirectory
    <3> QED BY <3>1, AnswerStep
  <2> QED BY <2>1, <2>2
<1>6. CASE Prune(p)
  <2>1. r.at = "prune" /\ snapshots' = snapshots /\ skillFiles' = skillFiles
    BY <1>6 DEF Prune, disk
  <2>2. CASE Answer(p, "ok")
    BY <1>2, <2>1, <2>2, AnswerStep
  <2>3. CASE Goto(p, "rmdir") /\ UNCHANGED <<kept, disturbed>>
    <3> DEFINE c == [r EXCEPT !.at = "rmdir"]
    <3>1. run' = [run EXCEPT ![p] = c]
      BY <2>3 DEF Goto
    <3>2. c \in Runs /\ c.op = r.op /\ c.fp = r.fp /\ c.alone = r.alone /\ c.at = "rmdir"
      BY <1>1 DEF Runs, UnpinAts
    <3> HIDE DEF c
    <3> QED BY <1>2, <2>1, <2>3, <3>1, <3>2, MoveStep DEF PinAts, LoadAts, UnpinAts, Removing
  <2> QED BY <1>6, <2>2, <2>3 DEF Prune
<1>7. CASE RemoveSkillRoot(p)
  <2>1. r.at = "rmdir" /\ snapshots' = snapshots /\ skillFiles' = skillFiles /\ (Answer(p, "ok") \/ Answer(p, "invalid"))
    BY <1>7 DEF RemoveSkillRoot
  <2> QED BY <1>2, <2>1, AnswerStep
<1> QED BY <1>3, <1>4, <1>5, <1>6, <1>7 DEF UnpinStep

(* A process dies: what it did stays, and it does nothing any more.        *)
LEMMA CrashKeepsIInv ==
  ASSUME IInv, NEW p \in Procs, Crash(p)
  PROVE  IInv'
<1>1. RunOK(Idle) /\ Idle.op = "none" /\ Idle.at = "idle"
  BY IdleOK
<1>2. AloneOK(Idle) /\ Idle.at \notin Removing
  BY <1>1 DEF AloneOK, Removing
<1> QED BY <1>1, <1>2, QuietStep DEF Crash

(* A call begins: an unpin makes every pin of the same snapshot share it.  *)
LEMMA BeginKeepsIInv ==
  ASSUME IInv, NEW p \in Procs, Begin(p)
  PROVE  IInv'
<1>1. PICK op \in {"pin", "unpin", "list", "load"}, f \in Fingerprints :
        /\ run' = [q \in Procs |->
              IF q = p THEN [Idle EXCEPT !.op = op, !.fp = f, !.at = FirstStep[op], !.alone = ~Unpinning(f, Procs)]
              ELSE [run[q] EXCEPT !.alone = @ /\ ~(op = "unpin" /\ run[q].op = "pin" /\ run[q].fp = f)]]
        /\ kept' = IF op = "unpin" THEN kept \ {f} ELSE kept
        /\ disturbed' = IF op = "unpin" THEN disturbed \union {f} ELSE disturbed
  BY DEF Begin
<1>2. snapshots' = snapshots /\ skillFiles' = skillFiles /\ run[p].at = "idle"
  BY DEF Begin, disk
<1> DEFINE at == FirstStep[op]
           alone == ~Unpinning(f, Procs)
           c == [Idle EXCEPT !.op = op, !.fp = f, !.at = at, !.alone = alone]
<1>3. /\ op = "pin" => at = "existing"
      /\ op = "unpin" => at = "lstat"
      /\ op = "list" => at = "list"
      /\ op = "load" => at = "load"
  BY DEF FirstStep
<1>4. alone \in BOOLEAN
  BY DEF Unpinning
<1>5. Idle \in Runs
  BY IdleOK DEF RunOK
<1> HIDE DEF at, alone
<1>6. c \in Runs /\ c.op = op /\ c.fp = f /\ c.at = at /\ c.alone = alone
  <2>1. at \in {"existing", "lstat", "list", "load"}
    BY <1>3
  <2> QED BY ZenonT(60), <1>4, <1>5, <2>1 DEF Runs, PinAts, LoadAts, ListAts, UnpinAts
<1>7. RunOK(c)
  BY <1>3, <1>6 DEF RunOK, PinAts, LoadAts, ListAts, UnpinAts
<1>8. run'[p] = c
  BY <1>1 DEF at, alone
<1> HIDE DEF c
<1>9. ASSUME NEW q \in Procs \ {p}
      PROVE  /\ run'[q] \in Runs /\ run'[q].op = run[q].op /\ run'[q].fp = run[q].fp /\ run'[q].at = run[q].at
             /\ run'[q].temp = run[q].temp
             /\ run'[q].alone => run[q].alone /\ ~(op = "unpin" /\ run[q].op = "pin" /\ run[q].fp = f)
  <2>1. run[q] \in Runs
    BY DEF IInv, RunOK
  <2> DEFINE b == run[q].alone /\ ~(op = "unpin" /\ run[q].op = "pin" /\ run[q].fp = f)
  <2>2. b \in BOOLEAN
    BY <2>1 DEF Runs
  <2>3. run'[q] = [run[q] EXCEPT !.alone = b]
    BY <1>1, <1>9
  <2> HIDE DEF b
  <2>4. run'[q] \in Runs /\ run'[q].op = run[q].op /\ run'[q].fp = run[q].fp /\ run'[q].at = run[q].at
        /\ run'[q].temp = run[q].temp /\ run'[q].alone = b
    BY <2>1, <2>2, <2>3 DEF Runs
  <2> QED BY <2>4 DEF b
<1>10. \A g : Unpinning(g, Procs)' => Unpinning(g, Procs) \/ (op = "unpin" /\ g = f)
  <2> SUFFICES ASSUME NEW g, NEW q \in Procs, run'[q].at \in {"lstat", "rm"}, run'[q].fp = g
               PROVE  Unpinning(g, Procs) \/ (op = "unpin" /\ g = f)
    BY DEF Unpinning
  <2>1. CASE q = p
    BY <1>3, <1>6, <1>8, <2>1
  <2>2. CASE q # p
    BY <1>9, <2>2 DEF Unpinning
  <2> QED BY <2>1, <2>2
<1>11. ASSUME NEW q \in Procs PROVE RunOK(run[q])' /\ AloneOK(run[q])'
  <2>1. CASE q = p
    <3>1. RunOK(run[q])'
      BY ZenonT(60), <1>7, <1>8, <2>1 DEF RunOK, Runs
    <3>2. AloneOK(run[q])'
      BY <1>3, <1>6, <1>8, <1>10, <2>1 DEF AloneOK, alone
    <3> QED BY <3>1, <3>2
  <2>2. CASE q # p
    <3>1. RunOK(run[q]) /\ AloneOK(run[q])
      BY DEF IInv
    <3>2. RunOK(run'[q])
      BY <1>9, <2>2, <3>1 DEF RunOK
    <3>3. RunOK(run[q])'
      BY <3>2 DEF RunOK, Runs
    <3>4. AloneOK(run[q])'
      BY <1>2, <1>9, <1>10, <2>2, <3>1 DEF AloneOK, Whole
    <3> QED BY <3>3, <3>4
  <2> QED BY <2>1, <2>2
<1>12. ASSUME NEW q \in Procs, run'[q].at \in Removing PROVE run'[q].fp \in disturbed'
  <2>1. CASE q = p
    BY <1>1, <1>3, <1>6, <1>8, <1>12, <2>1 DEF Removing
  <2>2. CASE q # p
    BY <1>1, <1>9, <1>12, <2>2 DEF IInv
  <2> QED BY <2>1, <2>2
<1>13. \A g \in kept' : Whole(g)' /\ ~ Unpinning(g, Procs)'
  BY <1>1, <1>2, <1>10 DEF IInv, Whole
<1>14. \A g \in snapshots' \ disturbed' : skillFiles'[g] = Files
  BY <1>1, <1>2 DEF IInv
<1>15. TypeInv' /\ snapshots' \subseteq Fingerprints
  BY <1>1, <1>2 DEF IInv, TypeInv
<1> QED BY <1>11, <1>12, <1>13, <1>14, <1>15 DEF IInv

(* Every step of a process, and its death, keeps the invariant.            *)
LEMMA StepKeepsIInv == IInv /\ [PinNext]_pinVars => IInv'
<1> SUFFICES ASSUME IInv, [PinNext]_pinVars PROVE IInv'
  OBVIOUS
<1>1. CASE UNCHANGED pinVars
  <2>1. run' = run /\ snapshots' = snapshots /\ skillFiles' = skillFiles /\ kept' = kept /\ disturbed' = disturbed
    BY <1>1 DEF pinVars
  <2>2. \A f : (Unpinning(f, Procs) <=> Unpinning(f, Procs)') /\ (Whole(f) <=> Whole(f)')
    BY <2>1 DEF Unpinning, Whole
  <2>3. \A p \in Procs : AloneOK(run[p])'
    BY <2>1, <2>2 DEF IInv, AloneOK
  <2>4. TypeInv' /\ \A p \in Procs : RunOK(run[p])'
    BY <2>1 DEF IInv, TypeInv, RunOK, Runs
  <2> QED BY <2>1, <2>2, <2>3, <2>4 DEF IInv
<1> QED BY <1>1, BeginKeepsIInv, PinKeepsIInv, LoadKeepsIInv, UnpinKeepsIInv, CrashKeepsIInv DEF PinNext

(* What pin answered for is there in full until somebody asks to unpin it, *)
(* and no snapshot but a disturbed one is ever partial, however many       *)
(* processes pin, load, list and unpin, and die at whatever step           *)
(* (pin-store.ts pin, load, unpin).                                        *)
THEOREM PinnedSkillsSurvive == PinSpec => []PinsSurvive
<1>1. IInv => PinsSurvive
  BY DEF IInv, Whole, PinsSurvive
<1> QED BY InitIInv, StepKeepsIInv, <1>1, PTL DEF PinSpec

-----------------------------------------------------------------------------
(* What a session is told of the skills there are                          *)

(* The sources a call may name a skill of.                                 *)
InReach(s) == IF s \in LocalSources THEN skillCall.scope ELSE \E w \in during : s \in w.stored
Lacked(s)  == \E w \in during : ~LiveSkill(w, s, skillCall.scope)
Steady(s, f) == \A w \in during : Named(w, s, skillCall.scope) /\ Bundle(w, s) = f

SkillShape ==
  /\ DOMAIN skillCall = DOMAIN NoSkillCall /\ DOMAIN skillCall.found = Sources
  /\ skillCall.at \in {"idle", "discover", "build", "lookup", "pin", "pinned", "load", "explain", "elsewhere", "loadEach", "answered"}
  /\ skillCall.at = "idle" => skillWorld.stored = GlobalSources
  /\ skillCall.at # "idle" => skillWorld \in during /\ skillCall.skill \in Sources
                              /\ skillCall.op \in {"list", "load", "pin"}

(* What discovery has not found was missing at some time of the call, and  *)
(* what it has found can be reached.                                       *)
FoundInv ==
  /\ skillCall.at = "discover" => /\ skillCall.now \subseteq skillCall.left
                                  /\ \A s \in skillCall.left : s \in Sources /\ InReach(s)
                                  /\ skillCall.doc = Missing /\ skillCall.entries = {}
  /\ skillCall.at \notin {"idle", "answered"} =>
       \A s \in Sources : IF skillCall.found[s] = Missing
                            THEN Lacked(s) \/ (skillCall.at = "discover" /\ s \in skillCall.left)
                            ELSE InReach(s)

(* What is being read, and what has been.                                  *)
BuildInv ==
  /\ skillCall.at = "build" =>
       /\ skillCall.now \subseteq skillCall.left
       /\ \A s \in skillCall.left : /\ s \in Sources /\ skillCall.found[s] # Missing
                                    /\ skillCall.op # "list" => s = skillCall.skill
       /\ skillCall.now = {} => skillCall.doc = Missing
       /\ skillCall.doc # Missing =>
            \A s \in skillCall.now : \E w \in during : Readable(w, s) /\ w.disk[s].doc = skillCall.doc
  /\ skillCall.at \in {"lookup", "pin"} =>
       /\ skillCall.op = (IF skillCall.at = "pin" THEN "pin" ELSE "load")
       /\ \A f \in skillCall.fp : /\ skillCall.want \subseteq {f} /\ WasThere(skillCall.skill, f)
                                  /\ f[1] = skillCall.found[skillCall.skill]

(* What is pinned is loaded, or there was nothing of the kind: at some time*)
(* the skill was not live, and at some time no pin of it would have done.  *)
Unpinned(s) == \E w \in during : \A f \in BundleFingerprints : Eligible(f) => <<s, f>> \notin w.pins
LoadInv ==
  /\ skillCall.at \in {"pinned", "load", "explain", "elsewhere"} /\ skillCall.op = "load" /\ skillCall.skill \in Found =>
       skillCall.want # {} \/ Lacked(skillCall.skill)
  /\ skillCall.at = "load" =>
       /\ skillCall.op = "load" /\ skillCall.want = {}
       /\ \A f \in skillCall.fp : <<skillCall.skill, f>> \in skillWorld.pins \union unpinned
  /\ skillCall.at \in {"explain", "elsewhere"} => skillCall.op = "load" /\ Unpinned(skillCall.skill)
  /\ skillCall.at = "elsewhere" => skillCall.skill \notin Found \/ skillCall.want = {}

(* What a list has and has still to build.                                 *)
ListInv ==
  skillCall.op = "list" =>
    /\ skillCall.at \in {"discover", "build", "pinned"} => \A e \in skillCall.entries : WasThere(e[1], e[2])
    /\ skillCall.at \in {"discover", "build", "pinned"} /\ ~skillCall.unavailable =>
         \A s \in Sources, f \in BundleFingerprints : Steady(s, f) =>
           IF skillCall.at = "discover" THEN s \in skillCall.left \/ skillCall.found[s] # Missing
                                        ELSE s \in skillCall.left \/ <<s, f>> \in skillCall.entries
    /\ skillCall.at = "pinned" => skillCall.left = {}
EachInv ==
  skillCall.at = "loadEach" =>
    /\ skillCall.op = "list"
    /\ \A e \in skillCall.entries : WasThere(e[1], e[2]) \/ \E w \in during : e \in w.pins
    /\ ~skillCall.unavailable =>
         \A s \in Sources, f \in BundleFingerprints : Steady(s, f) => <<s, f>> \in skillCall.entries
    /\ \A e : (\A w \in during : e \in w.pins) => e \in skillCall.entries \union skillCall.toLoad
    /\ skillCall.toLoad \subseteq skillWorld.pins \union unpinned

PinsInv    == LoadInv /\ EachInv
CatalogInv == SkillShape /\ FoundInv /\ BuildInv /\ ListInv /\ PinsInv /\ CatalogTellsTheTruth

Promised == {"live", "pinned", "NOT_FOUND", "listed"}

LEMMA CatalogStarts == CatalogInit => CatalogInv
<1> SUFFICES ASSUME CatalogInit PROVE CatalogInv
  OBVIOUS
<1>1. skillCall = NoSkillCall /\ NoSkillCall.at = "idle" /\ DOMAIN NoSkillCall.found = Sources /\ NoSkillCall.op = "none"
  BY DEF CatalogInit, NoSkillCall
<1>2. skillWorld.stored = GlobalSources
  BY DEF CatalogInit
<1> QED
  BY <1>1, <1>2 DEF CatalogInv, SkillShape, FoundInv, BuildInv, ListInv, PinsInv, LoadInv, EachInv, CatalogTellsTheTruth

(* A refusal promises nothing.                                             *)
LEMMA RefusalStep ==
  ASSUME CatalogInv, skillCall.at # "idle", UNCHANGED <<skillWorld, during, unpinned>>, NEW a, a \notin Promised,
         AnswerSkill(a)
  PROVE  CatalogInv'
<1>1. /\ skillCall'.at = "answered" /\ skillCall'.answer = a /\ skillCall'.op = skillCall.op
      /\ skillCall'.skill = skillCall.skill /\ skillCall'.scope = skillCall.scope
      /\ skillCall'.found = skillCall.found /\ DOMAIN skillCall' = DOMAIN skillCall
  BY DEF AnswerSkill, CatalogInv, SkillShape, NoSkillCall
<1>2. SkillShape'
  BY <1>1 DEF CatalogInv, SkillShape, InReach
<1> QED
  BY <1>1, <1>2 DEF CatalogInv, FoundInv, BuildInv, ListInv, PinsInv, LoadInv, EachInv, CatalogTellsTheTruth,
                    BundleWasThere, NotFoundWasMissing, ListIsComplete, Promised

LEMMA RefusalsPromiseNothing == \A s : Refusal(s) \notin Promised
  BY DEF Refusal, Promised

LEMMA BeginStep == CatalogInv /\ BeginSkillCall => CatalogInv'
<1> SUFFICES ASSUME CatalogInv, BeginSkillCall PROVE CatalogInv'
  OBVIOUS
<1>1. PICK op \in {"list", "load", "pin"}, s \in Sources, scope \in BOOLEAN,
           want \in {{}} \union {{f} : f \in BundleFingerprints} :
        LET asked == [NoSkillCall EXCEPT !.at = "discover", !.op = op, !.skill = s, !.want = want, !.scope = scope]
            locals == {l \in LocalSources : scope /\ skillWorld.disk[l].there}
        IN /\ op = "list" => s = NoSkillCall.skill /\ want = {}
           /\ op = "pin" => ~scope
           /\ skillCall' = IF scope /\ ~skillWorld.ready THEN [asked EXCEPT !.at = "answered", !.answer = "MISMATCH"]
                           ELSE [asked EXCEPT !.left = skillWorld.stored \union locals]
  BY Zenon DEF BeginSkillCall
<1> DEFINE locals == {l \in LocalSources : scope /\ skillWorld.disk[l].there}
<1>2. /\ skillCall'.op = op /\ skillCall'.skill = s /\ skillCall'.scope = scope
      /\ skillCall'.now = {} /\ skillCall'.doc = Missing /\ skillCall'.entries = {}
      /\ skillCall'.found = [t \in Sources |-> Missing]
      /\ DOMAIN skillCall' = DOMAIN NoSkillCall /\ during' = {skillWorld} /\ skillWorld' = skillWorld
      /\ IF scope /\ ~skillWorld.ready THEN skillCall'.at = "answered" /\ skillCall'.answer = "MISMATCH"
           ELSE skillCall'.at = "discover" /\ skillCall'.left = skillWorld.stored \union locals
  BY <1>1 DEF BeginSkillCall, NoSkillCall
<1>3. skillWorld.stored = GlobalSources
  BY DEF BeginSkillCall, CatalogInv, SkillShape
<1>5. SkillShape'
  BY <1>2 DEF SkillShape
<1>10. PinsInv'
  BY <1>2 DEF PinsInv, LoadInv, EachInv
<1>11. CASE scope /\ ~skillWorld.ready
  BY <1>2, <1>5, <1>10, <1>11 DEF CatalogInv, FoundInv, BuildInv, ListInv, CatalogTellsTheTruth, BundleWasThere,
     NotFoundWasMissing, ListIsComplete
<1>12. CASE ~(scope /\ ~skillWorld.ready)
  <2>1. skillCall'.at = "discover" /\ skillCall'.left = GlobalSources \union locals
    BY <1>2, <1>3, <1>12
  <2>2. ASSUME NEW t \in skillCall'.left PROVE InReach(t)'
    BY <1>2, <1>3, <2>1, SourcesAssumption DEF InReach
  <2>3. ASSUME NEW t \in Sources, t \notin skillCall'.left PROVE Lacked(t)'
    <3>1. ~LiveSkill(skillWorld, t, scope)
      BY <1>2, <1>3, <2>1, <2>3 DEF LiveSkill, Named, Sources
    <3> QED
      BY <1>2, <3>1 DEF Lacked
  <2>4. FoundInv'
    BY <1>2, <2>1, <2>2, <2>3 DEF FoundInv, Sources
  <2>5. ASSUME NEW t \in Sources, NEW f \in BundleFingerprints, Steady(t, f)' PROVE t \in skillCall'.left
    BY <1>2, <1>3, <2>1, <2>5 DEF Steady, Named, Sources
  <2>6. ListInv'
    BY <1>2, <2>1, <2>5 DEF ListInv
  <2> QED
    BY <1>2, <1>5, <1>10, <2>1, <2>4, <2>6 DEF CatalogInv, BuildInv, CatalogTellsTheTruth
<1> QED
  BY <1>11, <1>12

(* What was true at some time of the call stays so.                        *)
LEMMA OthersStep == CatalogInv /\ Others => CatalogInv'
<1> SUFFICES ASSUME CatalogInv, Others PROVE CatalogInv'
  OBVIOUS
<1>1. /\ skillCall' = skillCall /\ during \subseteq during' /\ skillWorld' \in during'
      /\ skillCall.at \notin {"idle", "answered"}
      /\ skillWorld.pins \union unpinned \subseteq skillWorld'.pins \union unpinned'
  BY DEF Others
<1>2. \A s : /\ InReach(s) => InReach(s)'
             /\ Lacked(s) => Lacked(s)'
             /\ \A f : /\ Steady(s, f)' => Steady(s, f)
                       /\ WasThere(s, f) => WasThere(s, f)'
  BY <1>1 DEF InReach, Lacked, Steady, WasThere
<1>3. SkillShape'
  BY <1>1, <1>2 DEF CatalogInv, SkillShape
<1>4. FoundInv'
  BY <1>1, <1>2 DEF CatalogInv, FoundInv
<1>5. BuildInv'
  BY <1>1, <1>2 DEF CatalogInv, BuildInv, Found
<1>6. ListInv'
  BY <1>1, <1>2 DEF CatalogInv, ListInv
<1>7. LoadInv'
  BY <1>1, <1>2 DEF CatalogInv, PinsInv, LoadInv, Found, Unpinned, Eligible
<1>8. EachInv'
  BY <1>1, <1>2 DEF CatalogInv, PinsInv, EachInv
<1> QED
  BY <1>1, <1>3, <1>4, <1>5, <1>6, <1>7, <1>8 DEF CatalogInv, PinsInv, CatalogTellsTheTruth

(* A source that is passed over had something missing.                     *)
LEMMA PassOverStep ==
  ASSUME CatalogInv, skillCall.at = "discover", UNCHANGED <<skillWorld, during, unpinned>>, NEW s \in skillCall.left,
         PassOver(s), ~LiveSkill(skillWorld, s, skillCall.scope)
  PROVE  CatalogInv'
<1>1. /\ skillCall'.at = "discover" /\ skillCall'.unavailable /\ skillCall'.now = {}
      /\ skillCall'.left = skillCall.left \ {s} /\ skillCall'.doc = skillCall.doc
      /\ skillCall'.entries = skillCall.entries /\ skillCall'.found = skillCall.found
      /\ skillCall'.op = skillCall.op /\ skillCall'.scope = skillCall.scope
      /\ skillCall'.skill = skillCall.skill /\ DOMAIN skillCall' = DOMAIN skillCall
  BY DEF PassOver, Recorded, SaysSo, CatalogInv, SkillShape, NoSkillCall
<1>2. \A t : (InReach(t) <=> InReach(t)') /\ (Lacked(t) <=> Lacked(t)')
  BY <1>1 DEF InReach, Lacked
<1>3. SkillShape'
  BY <1>1, <1>2 DEF CatalogInv, SkillShape
<1>4. Lacked(s)
  BY <1>1 DEF Lacked, CatalogInv, SkillShape
<1>5. FoundInv'
  BY <1>1, <1>2, <1>4 DEF CatalogInv, FoundInv
<1> QED
  BY <1>1, <1>3, <1>5 DEF CatalogInv, FoundInv, BuildInv, ListInv, PinsInv, LoadInv, EachInv, CatalogTellsTheTruth

(* Discovery goes on to the next source, or reads what it has found of one.*)
LEMMA DiscoverStep ==
  ASSUME CatalogInv, NEW s \in Sources, DiscoverTree(s) \/ DiscoverDocument(s)
  PROVE  CatalogInv'
<1>1. /\ skillCall.at = "discover" /\ s \in skillCall.left /\ InReach(s) /\ skillWorld \in during
      /\ UNCHANGED <<skillWorld, during, unpinned>>
  BY DEF DiscoverTree, DiscoverDocument, CatalogInv, FoundInv, SkillShape
<1>2. CASE Unreachable(s) /\ (~Reached(s) \/ skillWorld.disk[s].doc = Missing)
  <2>1. CASE Refusal(s) = "UNAVAILABLE" /\ Tolerates
    <3>1. ~LiveSkill(skillWorld, s, skillCall.scope)
      BY <1>2, <2>1 DEF LiveSkill, Named, Reached, Refusal, Sources
    <3> QED
      BY <1>1, <1>2, <2>1, <3>1, PassOverStep DEF Unreachable
  <2>2. CASE ~(Refusal(s) = "UNAVAILABLE" /\ Tolerates)
    BY <1>1, <1>2, <2>2, RefusalStep, RefusalsPromiseNothing DEF Unreachable
  <2> QED
    BY <2>1, <2>2
<1>3. ASSUME /\ skillCall'.at = "discover" /\ skillCall'.unavailable = skillCall.unavailable
             /\ skillCall'.doc = skillCall.doc /\ skillCall'.entries = skillCall.entries
             /\ skillCall'.op = skillCall.op /\ skillCall'.scope = skillCall.scope
             /\ skillCall'.skill = skillCall.skill /\ DOMAIN skillCall' = DOMAIN skillCall,
             skillCall'.now \subseteq skillCall'.left, DOMAIN skillCall'.found = Sources,
             skillCall'.left \in {skillCall.left, skillCall.left \ {s}},
             \A t \in Sources \ {s} : skillCall'.found[t] = skillCall.found[t],
             \/ skillCall'.left = skillCall.left /\ skillCall'.found = skillCall.found
             \/ s \notin skillCall'.left /\ skillCall'.found[s] # Missing
             \/ s \notin skillCall'.left /\ skillCall'.found = skillCall.found /\ skillWorld.disk[s].doc = Missing
      PROVE  CatalogInv'
  <2>1. \A t : /\ (InReach(t) <=> InReach(t)') /\ (Lacked(t) <=> Lacked(t)')
              /\ \A f : Steady(t, f) <=> Steady(t, f)'
    BY <1>1, <1>3 DEF InReach, Lacked, Steady
  <2>2. SkillShape'
    BY <1>1, <1>3, <2>1 DEF CatalogInv, SkillShape
  <2>3. skillWorld.disk[s].doc = Missing => Lacked(s) /\ \A f : ~Steady(s, f)
    BY <1>1 DEF Lacked, LiveSkill, Named, Steady
  <2>4. FoundInv'
    BY <1>1, <1>3, <2>1, <2>3 DEF CatalogInv, FoundInv
  <2>5. ListInv'
    BY <1>1, <1>3, <2>1, <2>3 DEF CatalogInv, FoundInv, ListInv
  <2> QED
    BY <1>3, <2>2, <2>4, <2>5 DEF CatalogInv, BuildInv, PinsInv, LoadInv, EachInv, CatalogTellsTheTruth
<1>4. CASE skillCall' = [skillCall EXCEPT !.left = @ \ {s}, !.looked = {}] /\ skillCall.now = {} /\ skillWorld.disk[s].doc = Missing
  <2>1. /\ skillCall'.at = "discover" /\ skillCall'.unavailable = skillCall.unavailable
        /\ skillCall'.doc = skillCall.doc /\ skillCall'.entries = skillCall.entries
        /\ skillCall'.op = skillCall.op /\ skillCall'.scope = skillCall.scope
        /\ skillCall'.skill = skillCall.skill /\ DOMAIN skillCall' = DOMAIN skillCall
        /\ skillCall'.now = {} /\ skillCall'.found = skillCall.found /\ skillCall'.left = skillCall.left \ {s}
        /\ DOMAIN skillCall.found = Sources
    BY <1>1, <1>4 DEF CatalogInv, SkillShape, NoSkillCall
  <2> QED
    BY <1>3, <1>4, <2>1
<1>5. CASE skillCall' = [skillCall EXCEPT !.now = {s}, !.looked = {}]
  <2>1. /\ skillCall'.at = "discover" /\ skillCall'.unavailable = skillCall.unavailable
        /\ skillCall'.doc = skillCall.doc /\ skillCall'.entries = skillCall.entries
        /\ skillCall'.op = skillCall.op /\ skillCall'.scope = skillCall.scope
        /\ skillCall'.skill = skillCall.skill /\ DOMAIN skillCall' = DOMAIN skillCall
        /\ skillCall'.now = {s} /\ skillCall'.found = skillCall.found /\ skillCall'.left = skillCall.left
        /\ DOMAIN skillCall.found = Sources
    BY <1>1, <1>5 DEF CatalogInv, SkillShape, NoSkillCall
  <2> QED
    BY <1>1, <1>3, <2>1
<1>6. CASE /\ skillWorld.disk[s].doc # Missing
           /\ skillCall' = [skillCall EXCEPT !.left = @ \ {s}, !.looked = {}, !.now = {}, !.found[s] = skillWorld.disk[s].doc]
  <2>1. /\ skillCall'.at = "discover" /\ skillCall'.unavailable = skillCall.unavailable
        /\ skillCall'.doc = skillCall.doc /\ skillCall'.entries = skillCall.entries
        /\ skillCall'.op = skillCall.op /\ skillCall'.scope = skillCall.scope
        /\ skillCall'.skill = skillCall.skill /\ DOMAIN skillCall' = DOMAIN skillCall
        /\ skillCall'.now = {} /\ skillCall'.left = skillCall.left \ {s}
        /\ skillCall'.found = [skillCall.found EXCEPT ![s] = skillWorld.disk[s].doc]
        /\ DOMAIN skillCall.found = Sources
    BY <1>1, <1>6 DEF CatalogInv, SkillShape, NoSkillCall
  <2>2. /\ DOMAIN skillCall'.found = Sources /\ skillCall'.found[s] # Missing
        /\ \A t \in Sources \ {s} : skillCall'.found[t] = skillCall.found[t]
    BY <1>6, <2>1
  <2> QED
    BY <1>3, <2>1, <2>2
<1>7. CASE DiscoverTree(s)
  BY <1>2, <1>4, <1>5, <1>7 DEF DiscoverTree
<1>8. CASE DiscoverDocument(s)
  BY <1>2, <1>6, <1>8 DEF DiscoverDocument
<1> QED
  BY <1>7, <1>8

(* A look at the sources of the workspace finds out nothing about a skill. *)
LEMMA LookStep == ASSUME CatalogInv, NEW s \in Sources, Look(s) PROVE CatalogInv'
<1>1. skillCall.at \in {"discover", "build"} /\ UNCHANGED <<skillWorld, during, unpinned>>
  BY DEF Look
<1>2. CASE skillCall' = [skillCall EXCEPT !.looked = {s}]
  <2>1. /\ skillCall'.at = skillCall.at /\ skillCall'.unavailable = skillCall.unavailable
        /\ skillCall'.doc = skillCall.doc /\ skillCall'.entries = skillCall.entries
        /\ skillCall'.op = skillCall.op /\ skillCall'.scope = skillCall.scope
        /\ skillCall'.skill = skillCall.skill /\ DOMAIN skillCall' = DOMAIN skillCall
        /\ skillCall'.now = skillCall.now /\ skillCall'.left = skillCall.left /\ skillCall'.found = skillCall.found
    BY <1>1, <1>2 DEF CatalogInv, SkillShape, NoSkillCall
  <2>2. \A t : /\ (InReach(t) <=> InReach(t)') /\ (Lacked(t) <=> Lacked(t)')
              /\ \A f : (Steady(t, f) <=> Steady(t, f)') /\ (WasThere(t, f) <=> WasThere(t, f)')
    BY <1>1, <2>1 DEF InReach, Lacked, Steady, WasThere
  <2>3. SkillShape' /\ FoundInv'
    BY <1>1, <2>1, <2>2 DEF CatalogInv, SkillShape, FoundInv
  <2>4. BuildInv'
    BY <1>1, <2>1 DEF CatalogInv, BuildInv
  <2>5. ListInv'
    BY <1>1, <2>1, <2>2 DEF CatalogInv, ListInv
  <2> QED
    BY <1>1, <2>1, <2>3, <2>4, <2>5 DEF CatalogInv, PinsInv, LoadInv, EachInv, CatalogTellsTheTruth
<1>3. skillCall' = [skillCall EXCEPT !.looked = {s}] \/ AnswerSkill("MISMATCH") \/ AnswerSkill("SOURCE_NOT_FOUND")
  BY DEF Look
<1> QED
  BY <1>1, <1>2, <1>3, RefusalStep DEF Promised

(* What has been found is built: every skill for a list, one for the rest. *)
LEMMA DiscoveredStep == CatalogInv /\ Discovered => CatalogInv'
<1> SUFFICES ASSUME CatalogInv, Discovered PROVE CatalogInv'
  OBVIOUS
<1>1. /\ skillCall.at = "discover" /\ skillCall.left = {} /\ UNCHANGED <<skillWorld, during, unpinned>>
      /\ skillCall.now = {} /\ skillCall.doc = Missing /\ skillCall.entries = {}
      /\ skillCall.skill \in Sources /\ ToBuild \subseteq Found /\ Found \subseteq Sources
      /\ \A s \in Sources : skillCall.found[s] = Missing => Lacked(s)
  BY DEF Discovered, CatalogInv, FoundInv, SkillShape, ToBuild, Found
<1>2. CASE ToBuild = {} /\ skillCall.op = "pin"
  <2>1. /\ skillCall'.at = "answered" /\ skillCall'.answer = "NOT_FOUND" /\ skillCall'.op = "pin"
        /\ skillCall'.skill = skillCall.skill /\ skillCall'.scope = skillCall.scope
        /\ skillCall'.found = skillCall.found /\ DOMAIN skillCall' = DOMAIN skillCall
    BY <1>2 DEF Discovered, AnswerSkill, CatalogInv, SkillShape, NoSkillCall
  <2>2. SkillShape'
    BY <1>1, <2>1 DEF CatalogInv, SkillShape, InReach
  <2>3. Lacked(skillCall.skill)
    BY <1>1, <1>2 DEF ToBuild, Found
  <2> QED
    BY <1>1, <2>1, <2>2, <2>3 DEF CatalogInv, FoundInv, BuildInv, ListInv, PinsInv, LoadInv, EachInv, CatalogTellsTheTruth,
      BundleWasThere, NotFoundWasMissing, ListIsComplete, Lacked
<1>3. CASE ~(ToBuild = {} /\ skillCall.op = "pin")
  <2>1. /\ skillCall'.at = IF ToBuild = {} THEN "pinned" ELSE "build"
        /\ skillCall'.left = ToBuild /\ skillCall'.now = skillCall.now /\ skillCall'.doc = skillCall.doc
        /\ skillCall'.entries = skillCall.entries /\ skillCall'.unavailable = skillCall.unavailable
        /\ skillCall'.op = skillCall.op /\ skillCall'.want = skillCall.want
        /\ skillCall'.skill = skillCall.skill /\ skillCall'.scope = skillCall.scope
        /\ skillCall'.found = skillCall.found /\ DOMAIN skillCall' = DOMAIN skillCall
    BY ZenonT(60), <1>3 DEF Discovered, CatalogInv, SkillShape, NoSkillCall
  <2>2. SkillShape'
    BY <1>1, <2>1 DEF CatalogInv, SkillShape, InReach
  <2>3. FoundInv'
    BY <1>1, <2>1 DEF CatalogInv, FoundInv, InReach, Lacked
  <2>4. BuildInv'
    BY <1>1, <2>1 DEF BuildInv, Found, ToBuild
  <2>5. ASSUME skillCall.op = "list" PROVE ListInv'
    <3>1. ToBuild = Found
      BY <2>5 DEF ToBuild
    <3>2. ASSUME ~skillCall.unavailable, NEW s \in Sources, NEW f \in BundleFingerprints, Steady(s, f)'
          PROVE  s \in skillCall'.left
      <4>1. Steady(s, f)
        BY <1>1, <2>1, <3>2 DEF Steady
      <4>2. skillCall.found[s] # Missing
        BY <1>1, <2>5, <3>2, <4>1 DEF CatalogInv, ListInv
      <4> QED
        BY <2>1, <3>1, <4>2 DEF Found
    <3> QED
      BY <1>1, <2>1, <3>1, <3>2 DEF ListInv
  <2>6. PinsInv'
    BY <1>1, <2>1 DEF PinsInv, LoadInv, EachInv, Found, ToBuild
  <2> QED
    BY <2>1, <2>2, <2>3, <2>4, <2>5, <2>6 DEF CatalogInv, ListInv, CatalogTellsTheTruth
<1> QED
  BY <1>2, <1>3

(* A call that goes on building is about what it was about.                *)
KeepsItsSubject ==
  /\ UNCHANGED <<skillWorld, during, unpinned>> /\ DOMAIN skillCall' = DOMAIN skillCall
  /\ skillCall'.op = skillCall.op /\ skillCall'.skill = skillCall.skill /\ skillCall'.want = skillCall.want
  /\ skillCall'.scope = skillCall.scope /\ skillCall'.found = skillCall.found
  /\ skillCall.at \notin {"idle", "discover"}
  /\ skillCall'.at \in {"build", "lookup", "pin", "pinned", "load", "explain", "elsewhere", "loadEach", "answered"}

LEMMA SubjectIsKept ==
  ASSUME CatalogInv, KeepsItsSubject
  PROVE  /\ SkillShape'
         /\ skillCall.at # "answered" => FoundInv'
         /\ \A t, f : (WasThere(t, f) <=> WasThere(t, f)') /\ (Steady(t, f) <=> Steady(t, f)')
         /\ \A t : (Lacked(t) <=> Lacked(t)') /\ (Unpinned(t) <=> Unpinned(t)')
         /\ Found' = Found
<1>1. \A t : /\ (InReach(t) <=> InReach(t)') /\ (Lacked(t) <=> Lacked(t)')
            /\ \A f : (Steady(t, f) <=> Steady(t, f)') /\ (WasThere(t, f) <=> WasThere(t, f)')
  BY DEF KeepsItsSubject, InReach, Lacked, Steady, WasThere
<1>2. SkillShape'
  BY <1>1 DEF CatalogInv, SkillShape, KeepsItsSubject
<1>3. skillCall.at # "answered" => FoundInv'
  BY <1>1 DEF CatalogInv, FoundInv, KeepsItsSubject
<1> QED
  BY <1>1, <1>2, <1>3 DEF Found, KeepsItsSubject, Unpinned, Eligible

(* A skill that is left out of a list is said to be.                       *)
LEMMA SkipStep ==
  ASSUME CatalogInv, skillCall.at = "build", UNCHANGED <<skillWorld, during, unpinned>>, NEW s \in skillCall.left, Skip(s),
         ~LiveSkill(skillWorld, s, skillCall.scope)
  PROVE  CatalogInv'
<1>1. /\ KeepsItsSubject /\ skillCall'.at = (IF skillCall.left = {s} THEN "pinned" ELSE "build")
      /\ skillCall'.left = skillCall.left \ {s} /\ skillCall'.now = {} /\ skillCall'.unavailable
      /\ skillCall'.doc = Missing /\ skillCall'.entries = skillCall.entries
  BY DEF Skip, Recorded, SaysSo, CatalogInv, SkillShape, NoSkillCall, KeepsItsSubject
<1>2. /\ SkillShape' /\ FoundInv' /\ \A t, f : WasThere(t, f) <=> WasThere(t, f)'
      /\ \A t : Lacked(t) <=> Lacked(t)'
  BY <1>1, SubjectIsKept
<1>3. BuildInv'
  BY <1>1 DEF CatalogInv, BuildInv, KeepsItsSubject
<1>4. ListInv'
  BY <1>1, <1>2 DEF CatalogInv, ListInv, KeepsItsSubject
<1>5. PinsInv'
  <2>1. Lacked(s)
    BY DEF Lacked, CatalogInv, SkillShape
  <2> QED
    BY <1>1, <1>2, <2>1 DEF CatalogInv, BuildInv, PinsInv, LoadInv, EachInv, KeepsItsSubject
<1> QED
  BY <1>1, <1>2, <1>3, <1>4, <1>5 DEF CatalogInv, CatalogTellsTheTruth

LEMMA BuildUnreachableStep ==
  ASSUME CatalogInv, skillCall.at = "build", UNCHANGED <<skillWorld, during, unpinned>>, NEW s \in skillCall.left,
         BuildUnreachable(s), ~Reached(s) \/ skillWorld.disk[s].doc = Missing
  PROVE  CatalogInv'
<1>1. CASE Refusal(s) = "UNAVAILABLE" /\ Tolerates
  <2>1. ~LiveSkill(skillWorld, s, skillCall.scope)
    BY <1>1 DEF LiveSkill, Named, Reached, Refusal, CatalogInv, BuildInv, Sources
  <2> QED
    BY <1>1, <2>1, SkipStep DEF BuildUnreachable
<1>2. CASE ~(Refusal(s) = "UNAVAILABLE" /\ Tolerates)
  BY <1>2, RefusalStep, RefusalsPromiseNothing DEF BuildUnreachable
<1> QED
  BY <1>1, <1>2

LEMMA BuildTreeStep == ASSUME CatalogInv, NEW s \in Sources, BuildTree(s) PROVE CatalogInv'
<1>1. skillCall.at = "build" /\ s \in skillCall.left /\ UNCHANGED <<skillWorld, during, unpinned>> /\ skillCall.now = {}
  BY DEF BuildTree
<1>2. CASE skillCall' = [skillCall EXCEPT !.now = {s}, !.looked = {}]
  <2>1. /\ KeepsItsSubject /\ skillCall'.at = "build" /\ skillCall'.left = skillCall.left /\ skillCall'.now = {s}
        /\ skillCall'.unavailable = skillCall.unavailable /\ skillCall'.entries = skillCall.entries
        /\ skillCall'.doc = skillCall.doc
    BY <1>1, <1>2 DEF CatalogInv, SkillShape, NoSkillCall, KeepsItsSubject
  <2>2. /\ SkillShape' /\ FoundInv'
        /\ \A t, f : (WasThere(t, f) <=> WasThere(t, f)') /\ (Steady(t, f) <=> Steady(t, f)')
    BY <1>1, <2>1, SubjectIsKept
  <2>3. BuildInv'
    BY <1>1, <2>1 DEF CatalogInv, BuildInv, KeepsItsSubject
  <2>4. ListInv'
    BY <1>1, <2>1, <2>2 DEF CatalogInv, ListInv, KeepsItsSubject
  <2> QED
    BY <2>1, <2>2, <2>3, <2>4 DEF CatalogInv, PinsInv, LoadInv, EachInv, CatalogTellsTheTruth
<1>3. (BuildUnreachable(s) /\ ~Reached(s)) \/ AnswerSkill("RESOURCE_UNSUPPORTED") \/ AnswerSkill("BUNDLE_INVALID")
      \/ skillCall' = [skillCall EXCEPT !.now = {s}, !.looked = {}]
  BY DEF BuildTree
<1> QED
  BY <1>1, <1>2, <1>3, BuildUnreachableStep, RefusalStep DEF Promised

LEMMA BuildDocumentStep == ASSUME CatalogInv, NEW s \in Sources, BuildDocument(s) PROVE CatalogInv'
<1>1. /\ skillCall.at = "build" /\ s \in skillCall.left /\ UNCHANGED <<skillWorld, during, unpinned>>
      /\ skillCall.now = {s} /\ skillWorld \in during
  BY DEF BuildDocument, CatalogInv, BuildInv, SkillShape
<1>2. CASE Reached(s) /\ skillCall' = [skillCall EXCEPT !.doc = skillWorld.disk[s].doc, !.looked = {}]
  <2>1. /\ KeepsItsSubject /\ skillCall'.at = "build" /\ skillCall'.left = skillCall.left /\ skillCall'.now = {s}
        /\ skillCall'.unavailable = skillCall.unavailable /\ skillCall'.entries = skillCall.entries
        /\ skillCall'.doc = skillWorld.disk[s].doc
    BY <1>1, <1>2 DEF CatalogInv, SkillShape, NoSkillCall, KeepsItsSubject
  <2>2. /\ SkillShape' /\ FoundInv'
        /\ \A t, f : (WasThere(t, f) <=> WasThere(t, f)') /\ (Steady(t, f) <=> Steady(t, f)')
    BY <1>1, <2>1, SubjectIsKept
  <2>3. Readable(skillWorld, s)
    BY <1>2 DEF Reached, Readable
  <2>4. BuildInv'
    BY <1>1, <2>1, <2>3 DEF CatalogInv, BuildInv, KeepsItsSubject
  <2>5. ListInv'
    BY <1>1, <2>1, <2>2 DEF CatalogInv, ListInv, KeepsItsSubject
  <2> QED
    BY <2>1, <2>2, <2>4, <2>5 DEF CatalogInv, PinsInv, LoadInv, EachInv, CatalogTellsTheTruth
<1>3. \/ BuildUnreachable(s) /\ (~Reached(s) \/ skillWorld.disk[s].doc = Missing)
      \/ AnswerSkill("BUNDLE_INVALID")
      \/ Reached(s) /\ skillCall' = [skillCall EXCEPT !.doc = skillWorld.disk[s].doc, !.looked = {}]
  BY DEF BuildDocument
<1> QED
  BY <1>1, <1>2, <1>3, BuildUnreachableStep, RefusalStep DEF Promised

(* A bundle that is built was there, each of its files at some time.       *)
LEMMA BuiltStep ==
  ASSUME CatalogInv, NEW s \in Sources, BuildResource(s), Reached(s), skillCall.doc = skillCall.found[s],
         Built(s, <<skillCall.doc, skillWorld.disk[s].res>>)
  PROVE  CatalogInv'
<1> DEFINE fp == <<skillCall.doc, skillWorld.disk[s].res>>
<1>1. /\ skillCall.at = "build" /\ s \in skillCall.left /\ UNCHANGED <<skillWorld, during, unpinned>> /\ s \in skillCall.now
      /\ skillCall.now = {s} /\ skillWorld \in during /\ skillCall.found[s] # Missing /\ InReach(s)
      /\ skillCall.op # "list" => s = skillCall.skill
      /\ \E w \in during : Readable(w, s) /\ w.disk[s].doc = skillCall.doc
      /\ fp[1] = skillCall.doc /\ fp[2] = skillWorld.disk[s].res
  BY DEF BuildResource, CatalogInv, BuildInv, FoundInv, SkillShape
<1>2. WasThere(s, fp)
  <2>1. Readable(skillWorld, s)
    BY DEF Reached, Readable
  <2> QED
    BY <1>1, <2>1 DEF WasThere, InReach
<1>3. \A f \in BundleFingerprints : Steady(s, f) => fp = f
  <2> SUFFICES ASSUME NEW f \in BundleFingerprints, Steady(s, f) PROVE fp = f
    OBVIOUS
  <2>1. PICK w \in during : w.disk[s].doc = skillCall.doc
    BY <1>1
  <2>2. f = <<w.disk[s].doc, w.disk[s].res>> /\ f = <<skillWorld.disk[s].doc, skillWorld.disk[s].res>>
    BY <1>1 DEF Steady, Bundle
  <2> QED
    BY <2>1, <2>2
<1> HIDE DEF fp
<1>4. CASE skillCall.op = "list"
  <2>1. /\ KeepsItsSubject /\ skillCall'.at = (IF skillCall.left = {s} THEN "pinned" ELSE "build")
        /\ skillCall'.left = skillCall.left \ {s} /\ skillCall'.now = {} /\ skillCall'.doc = Missing
        /\ skillCall'.unavailable = skillCall.unavailable
        /\ skillCall'.entries = skillCall.entries \union {<<s, fp>>}
    BY ZenonT(60), <1>1, <1>4 DEF Built, CatalogInv, SkillShape, NoSkillCall, KeepsItsSubject, fp
  <2>2. /\ SkillShape' /\ FoundInv'
        /\ \A t, f : (WasThere(t, f) <=> WasThere(t, f)') /\ (Steady(t, f) <=> Steady(t, f)')
    BY <1>1, <2>1, SubjectIsKept
  <2>3. BuildInv'
    BY <1>1, <1>4, <2>1 DEF CatalogInv, BuildInv, KeepsItsSubject
  <2>4. \A e \in skillCall'.entries : WasThere(e[1], e[2])'
    BY <1>1, <1>2, <1>4, <2>1, <2>2 DEF CatalogInv, ListInv
  <2>5. ASSUME ~skillCall.unavailable, NEW t \in Sources, NEW f \in BundleFingerprints, Steady(t, f)'
        PROVE  t \in skillCall'.left \/ <<t, f>> \in skillCall'.entries
    BY <1>1, <1>3, <1>4, <2>1, <2>2, <2>5 DEF CatalogInv, ListInv
  <2>6. ListInv'
    BY <2>1, <2>4, <2>5 DEF ListInv
  <2> QED
    BY <1>4, <2>1, <2>2, <2>3, <2>6 DEF CatalogInv, PinsInv, LoadInv, EachInv, CatalogTellsTheTruth, KeepsItsSubject
<1>5. CASE skillCall.op # "list" /\ skillCall.want \subseteq {fp}
  <2>1. /\ skillCall'.at = (IF skillCall.op = "pin" THEN "pin" ELSE "lookup") /\ skillCall'.fp = {fp} /\ KeepsItsSubject
    BY <1>1, <1>5 DEF Built, CatalogInv, SkillShape, NoSkillCall, KeepsItsSubject, fp
  <2>2. /\ SkillShape' /\ FoundInv' /\ \A t, f : WasThere(t, f) <=> WasThere(t, f)'
    BY <1>1, <2>1, SubjectIsKept
  <2>3. skillCall.op \in {"load", "pin"}
    BY <1>1, <1>5 DEF CatalogInv, SkillShape
  <2>4. BuildInv'
    BY <1>1, <1>2, <1>5, <2>1, <2>2, <2>3 DEF BuildInv, KeepsItsSubject
  <2> QED
    BY <1>5, <2>1, <2>2, <2>4 DEF CatalogInv, PinsInv, LoadInv, EachInv, CatalogTellsTheTruth, ListInv, KeepsItsSubject
<1>6. CASE skillCall.op = "load" /\ ~(skillCall.want \subseteq {fp})
  <2>1. /\ KeepsItsSubject /\ skillCall'.at = "pinned" /\ skillCall'.left = {}
    BY <1>1, <1>6 DEF Built, CatalogInv, SkillShape, NoSkillCall, KeepsItsSubject, fp
  <2>2. /\ SkillShape' /\ FoundInv' /\ skillCall'.want # {}
    BY <1>1, <1>6, <2>1, SubjectIsKept DEF KeepsItsSubject
  <2> QED
    BY <1>6, <2>1, <2>2 DEF CatalogInv, PinsInv, LoadInv, EachInv, CatalogTellsTheTruth, BuildInv, ListInv, KeepsItsSubject
<1>7. CASE skillCall.op # "list" /\ ~(skillCall.want \subseteq {fp}) /\ skillCall.op # "load"
  <2>1. AnswerSkill("FINGERPRINT_MISMATCH")
    BY <1>7 DEF Built, fp
  <2> QED
    BY <1>1, <2>1, RefusalStep DEF Promised
<1> QED
  BY <1>4, <1>5, <1>6, <1>7

LEMMA BuildResourceStep == ASSUME CatalogInv, NEW s \in Sources, BuildResource(s) PROVE CatalogInv'
<1>1. /\ skillCall.at = "build" /\ s \in skillCall.left /\ UNCHANGED <<skillWorld, during, unpinned>>
  BY DEF BuildResource, CatalogInv, BuildInv
<1>2. \/ BuildUnreachable(s) /\ ~Reached(s)
      \/ AnswerSkill("FINGERPRINT_MISMATCH") \/ AnswerSkill("BUNDLE_INVALID")
      \/ /\ Built(s, <<skillCall.doc, skillWorld.disk[s].res>>) /\ Reached(s)
         /\ skillCall.doc = skillCall.found[s]
  BY DEF BuildResource, StillDescribed, SameDocument
<1> QED
  BY <1>1, <1>2, BuildUnreachableStep, RefusalStep, BuiltStep DEF Promised

(* An answer that is not about the list has nothing to show for the rest.  *)
LEMMA TellStep ==
  ASSUME CatalogInv, KeepsItsSubject, skillCall'.at = "answered", skillCall.at # "answered", skillCall.op = "load",
         BundleWasThere', NotFoundWasMissing', skillCall'.answer # "listed"
  PROVE  CatalogInv'
<1>1. SkillShape' /\ FoundInv'
  BY SubjectIsKept
<1> QED
  BY <1>1 DEF CatalogInv, BuildInv, ListInv, PinsInv, LoadInv, EachInv, CatalogTellsTheTruth, ListIsComplete, KeepsItsSubject

LEMMA AnswerLiveStep == CatalogInv /\ AnswerLive => CatalogInv'
<1> SUFFICES ASSUME CatalogInv, AnswerLive PROVE CatalogInv'
  OBVIOUS
<1>1. skillCall.at = "lookup" /\ UNCHANGED <<skillWorld, during, unpinned>>
  BY DEF AnswerLive
<1>2. CASE AnswerSkill("live")
  <2>1. /\ KeepsItsSubject /\ skillCall'.at = "answered" /\ skillCall'.answer = "live" /\ skillCall'.fp = skillCall.fp
    BY <1>1, <1>2 DEF AnswerSkill, CatalogInv, SkillShape, NoSkillCall, KeepsItsSubject
  <2>2. \A t, f : WasThere(t, f) <=> WasThere(t, f)'
    BY <2>1, SubjectIsKept
  <2>3. skillCall.op = "load"
    BY <1>1 DEF CatalogInv, BuildInv
  <2>4. BundleWasThere'
    BY <1>1, <2>1, <2>2, <2>3 DEF CatalogInv, BuildInv, BundleWasThere, KeepsItsSubject
  <2> QED
    BY <1>1, <2>1, <2>3, <2>4, TellStep DEF NotFoundWasMissing
<1>3. CASE TornList
  BY <1>1, <1>3, RefusalStep DEF TornList, Promised
<1> QED
  BY <1>2, <1>3 DEF AnswerLive

LEMMA PinItStep == CatalogInv /\ PinIt => CatalogInv'
<1> SUFFICES ASSUME CatalogInv, PinIt PROVE CatalogInv'
  OBVIOUS
<1>1. /\ skillCall'.at = "answered" /\ skillCall'.answer = "pinned" /\ skillCall'.fp = skillCall.fp
      /\ skillCall'.op = skillCall.op /\ skillCall'.want = skillCall.want /\ skillCall'.scope = skillCall.scope
      /\ skillCall'.skill = skillCall.skill /\ skillCall'.found = skillCall.found
      /\ DOMAIN skillCall' = DOMAIN skillCall /\ skillCall.at = "pin"
      /\ during \subseteq during' /\ skillWorld' \in during'
  BY DEF PinIt, AnswerSkill, CatalogInv, SkillShape, NoSkillCall
<1>2. \A t, f : WasThere(t, f) => WasThere(t, f)'
  BY <1>1 DEF WasThere
<1>3. SkillShape'
  BY <1>1, <1>2 DEF CatalogInv, SkillShape
<1>4. skillCall.op = "pin"
  BY <1>1 DEF CatalogInv, BuildInv
<1>5. BundleWasThere'
  BY <1>1, <1>2, <1>4 DEF CatalogInv, BuildInv, BundleWasThere
<1> QED
  BY <1>1, <1>3, <1>4, <1>5 DEF CatalogInv, FoundInv, BuildInv, ListInv, PinsInv, LoadInv, EachInv, CatalogTellsTheTruth,
     NotFoundWasMissing, ListIsComplete

(* The version that is selected is there, or has been unpinned since.      *)
LEMMA SelectPinnedStep == CatalogInv /\ SelectPinned => CatalogInv'
<1> SUFFICES ASSUME CatalogInv, SelectPinned PROVE CatalogInv'
  OBVIOUS
<1>1. /\ skillCall.at = "pinned" /\ skillCall.op = "load" /\ skillCall.want = {}
      /\ UNCHANGED <<skillWorld, during, unpinned>> /\ skillWorld \in during
  BY DEF SelectPinned, CatalogInv, SkillShape
<1>2. ASSUME NEW f \in PinsOf(skillCall.skill), skillCall' = [skillCall EXCEPT !.at = "load", !.fp = {f}]
      PROVE  CatalogInv'
  <2>1. KeepsItsSubject /\ skillCall'.at = "load" /\ skillCall'.fp = {f}
    BY <1>1, <1>2 DEF CatalogInv, SkillShape, NoSkillCall, KeepsItsSubject
  <2>2. SkillShape' /\ FoundInv' /\ Found' = Found /\ \A t : Lacked(t) <=> Lacked(t)'
    BY <1>1, <2>1, SubjectIsKept
  <2>3. <<skillCall.skill, f>> \in skillWorld.pins
    BY DEF PinsOf
  <2>4. PinsInv'
    BY <1>1, <2>1, <2>2, <2>3 DEF CatalogInv, PinsInv, LoadInv, EachInv, KeepsItsSubject, Lacked
  <2> QED
    BY <1>1, <2>1, <2>2, <2>4 DEF CatalogInv, BuildInv, ListInv, CatalogTellsTheTruth, KeepsItsSubject
<1>3. CASE PinsOf(skillCall.skill) = {} /\ skillCall' = [skillCall EXCEPT !.at = "explain"]
  <2>1. KeepsItsSubject /\ skillCall'.at = "explain"
    BY <1>1, <1>3 DEF CatalogInv, SkillShape, NoSkillCall, KeepsItsSubject
  <2>2. SkillShape' /\ FoundInv' /\ Found' = Found
        /\ \A t : (Lacked(t) <=> Lacked(t)') /\ (Unpinned(t) <=> Unpinned(t)')
    BY <1>1, <2>1, SubjectIsKept
  <2>3. Unpinned(skillCall.skill)
    BY <1>1, <1>3 DEF PinsOf, Unpinned
  <2>4. PinsInv'
    BY <1>1, <2>1, <2>2, <2>3 DEF CatalogInv, PinsInv, LoadInv, EachInv, KeepsItsSubject, Lacked, Unpinned, Eligible
  <2> QED
    BY <1>1, <2>1, <2>2, <2>4 DEF CatalogInv, BuildInv, ListInv, CatalogTellsTheTruth, KeepsItsSubject
<1>4. CASE TornList
  BY <1>1, <1>4, RefusalStep DEF TornList, Promised
<1> QED
  BY <1>2, <1>3, <1>4 DEF SelectPinned

(* A pin that is loaded is there; one that was selected and is gone has    *)
(* been unpinned meanwhile.                                                *)
LEMMA LoadPinnedStep == ASSUME CatalogInv, NEW f \in BundleFingerprints, LoadPinned(f) PROVE CatalogInv'
<1> DEFINE pin == <<skillCall.skill, f>>
<1>1. /\ skillCall.at \in {"pinned", "load"} /\ UNCHANGED <<skillWorld, during, unpinned>> /\ skillWorld \in during
      /\ skillCall.op = "load" /\ skillCall.want \subseteq {f}
      /\ skillCall.at = "pinned" => skillCall.want = {f}
      /\ skillCall.at = "load" => skillCall.want = {} /\ pin \in skillWorld.pins \union unpinned
  BY DEF LoadPinned, CatalogInv, SkillShape, PinsInv, LoadInv
<1>2. CASE pin \in skillWorld.pins /\ skillCall' = [skillCall EXCEPT !.at = "answered", !.answer = "pinned", !.fp = {f}]
  <2>1. KeepsItsSubject /\ skillCall'.at = "answered" /\ skillCall'.answer = "pinned" /\ skillCall'.fp = {f}
    BY <1>1, <1>2 DEF CatalogInv, SkillShape, NoSkillCall, KeepsItsSubject
  <2>2. BundleWasThere'
    BY <1>1, <1>2, <2>1 DEF BundleWasThere, KeepsItsSubject
  <2> QED
    BY <1>1, <2>1, <2>2, TellStep DEF NotFoundWasMissing
<1>3. CASE pin \notin skillWorld.pins /\ skillCall.at = "pinned" /\ skillCall' = [skillCall EXCEPT !.at = "explain"]
  <2>1. KeepsItsSubject /\ skillCall'.at = "explain"
    BY <1>1, <1>3 DEF CatalogInv, SkillShape, NoSkillCall, KeepsItsSubject
  <2>2. SkillShape' /\ FoundInv' /\ Found' = Found
        /\ \A t : (Lacked(t) <=> Lacked(t)') /\ (Unpinned(t) <=> Unpinned(t)')
    BY <1>1, <2>1, SubjectIsKept
  <2>3. Unpinned(skillCall.skill)
    BY <1>1, <1>3 DEF Unpinned, Eligible
  <2>4. PinsInv'
    BY <1>1, <1>3, <2>1, <2>2, <2>3 DEF CatalogInv, PinsInv, LoadInv, EachInv, KeepsItsSubject, Lacked, Unpinned, Eligible
  <2> QED
    BY <1>1, <2>1, <2>2, <2>4 DEF CatalogInv, BuildInv, ListInv, CatalogTellsTheTruth, KeepsItsSubject
<1>4. CASE pin \notin skillWorld.pins /\ skillCall.at = "load" /\ AnswerSkill("NOT_FOUND")
  <2>1. KeepsItsSubject /\ skillCall'.at = "answered" /\ skillCall'.answer = "NOT_FOUND"
    BY <1>1, <1>4 DEF AnswerSkill, CatalogInv, SkillShape, NoSkillCall, KeepsItsSubject
  <2>2. Lacked(skillCall.skill) /\ pin \in unpinned
    BY <1>1, <1>4 DEF CatalogInv, SkillShape, FoundInv, PinsInv, LoadInv, Found
  <2>3. NotFoundWasMissing'
    BY <1>1, <1>4, <2>1, <2>2 DEF NotFoundWasMissing, Lacked, KeepsItsSubject
  <2> QED
    BY <1>1, <2>1, <2>3, TellStep DEF BundleWasThere
<1>5. CASE TornLoad(pin)
  BY <1>1, <1>5, RefusalStep DEF TornLoad, Promised
<1> QED
  BY <1>2, <1>3, <1>4, <1>5 DEF LoadPinned

(* Not found is what was neither live nor pinned at some time of the call. *)
LEMMA WhyNotStep ==
  ASSUME CatalogInv, skillCall.at \in {"explain", "elsewhere"}, UNCHANGED <<skillWorld, during, unpinned>>,
         skillCall.skill \notin Found \/ skillCall.want = {}, AnswerSkill(WhyNot)
  PROVE  CatalogInv'
<1>1. CASE WhyNot # "NOT_FOUND"
  <2>1. WhyNot \notin Promised
    BY <1>1 DEF WhyNot, Promised
  <2> QED
    BY <2>1, RefusalStep
<1>2. CASE WhyNot = "NOT_FOUND"
  <2>1. KeepsItsSubject /\ skillCall'.at = "answered" /\ skillCall'.answer = "NOT_FOUND" /\ skillCall.op = "load"
    BY <1>2 DEF AnswerSkill, CatalogInv, SkillShape, NoSkillCall, KeepsItsSubject, PinsInv, LoadInv
  <2>2. Lacked(skillCall.skill) /\ Unpinned(skillCall.skill)
    BY <2>1 DEF CatalogInv, SkillShape, FoundInv, PinsInv, LoadInv, Found
  <2>3. NotFoundWasMissing'
    BY <2>1, <2>2 DEF NotFoundWasMissing, Lacked, Unpinned, Eligible, KeepsItsSubject
  <2> QED
    BY <2>1, <2>3, TellStep DEF BundleWasThere
<1> QED
  BY <1>1, <1>2

LEMMA ExplainStep == CatalogInv /\ Explain => CatalogInv'
<1> SUFFICES ASSUME CatalogInv, Explain PROVE CatalogInv'
  OBVIOUS
<1>1. /\ skillCall.at = "explain" /\ UNCHANGED <<skillWorld, during, unpinned>>
      /\ \/ AnswerSkill("FINGERPRINT_MISMATCH")
         \/ /\ skillCall.skill \notin Found \/ skillCall.want = {}
            /\ AnswerSkill(WhyNot) \/ skillCall' = [skillCall EXCEPT !.at = "elsewhere"]
  BY DEF Explain
<1>2. CASE /\ skillCall.skill \notin Found \/ skillCall.want = {}
           /\ skillCall' = [skillCall EXCEPT !.at = "elsewhere"]
  <2>1. KeepsItsSubject /\ skillCall'.at = "elsewhere"
    BY <1>1, <1>2 DEF CatalogInv, SkillShape, NoSkillCall, KeepsItsSubject
  <2>2. SkillShape' /\ FoundInv' /\ Found' = Found
        /\ \A t : (Lacked(t) <=> Lacked(t)') /\ (Unpinned(t) <=> Unpinned(t)')
    BY <1>1, <2>1, SubjectIsKept
  <2>3. PinsInv'
    BY <1>1, <1>2, <2>1, <2>2 DEF CatalogInv, PinsInv, LoadInv, EachInv, KeepsItsSubject, Lacked, Unpinned, Eligible
  <2> QED
    BY <1>1, <2>1, <2>2, <2>3 DEF CatalogInv, BuildInv, ListInv, CatalogTellsTheTruth, KeepsItsSubject
<1> QED
  BY <1>1, <1>2, WhyNotStep, RefusalStep DEF Promised

LEMMA ScopeErrorStep == CatalogInv /\ ScopeError => CatalogInv'
<1> SUFFICES ASSUME CatalogInv, ScopeError PROVE CatalogInv'
  OBVIOUS
<1>1. /\ skillCall.at = "elsewhere" /\ UNCHANGED <<skillWorld, during, unpinned>>
      /\ AnswerSkill("MISMATCH") \/ AnswerSkill("WORKSPACE_REQUIRED") \/ AnswerSkill(WhyNot)
  BY DEF ScopeError
<1>2. skillCall.skill \notin Found \/ skillCall.want = {}
  BY <1>1 DEF CatalogInv, PinsInv, LoadInv
<1> QED
  BY <1>1, <1>2, WhyNotStep, RefusalStep DEF Promised

(* The pins there are when a list has what is live: it loads the others.   *)
LEMMA ListPinsStep == CatalogInv /\ ListPins => CatalogInv'
<1> SUFFICES ASSUME CatalogInv, ListPins PROVE CatalogInv'
  OBVIOUS
<1>1. /\ skillCall.at = "pinned" /\ skillCall.op = "list" /\ UNCHANGED <<skillWorld, during, unpinned>>
      /\ skillWorld \in during
  BY DEF ListPins, CatalogInv, SkillShape
<1>2. CASE skillCall' = [skillCall EXCEPT !.at = "loadEach", !.toLoad = skillWorld.pins \ skillCall.entries]
  <2>1. /\ KeepsItsSubject /\ skillCall'.at = "loadEach" /\ skillCall'.entries = skillCall.entries
        /\ skillCall'.toLoad = skillWorld.pins \ skillCall.entries /\ skillCall'.unavailable = skillCall.unavailable
    BY <1>1, <1>2 DEF CatalogInv, SkillShape, NoSkillCall, KeepsItsSubject
  <2>2. /\ SkillShape' /\ FoundInv'
        /\ \A t, f : (WasThere(t, f) <=> WasThere(t, f)') /\ (Steady(t, f) <=> Steady(t, f)')
    BY <1>1, <2>1, SubjectIsKept
  <2>3. EachInv'
    BY <1>1, <2>1, <2>2 DEF CatalogInv, ListInv, EachInv, KeepsItsSubject
  <2> QED
    BY <1>1, <2>1, <2>2, <2>3 DEF CatalogInv, BuildInv, ListInv, PinsInv, LoadInv, CatalogTellsTheTruth, KeepsItsSubject
<1>3. CASE TornList
  BY <1>1, <1>3, RefusalStep DEF TornList, Promised
<1> QED
  BY <1>2, <1>3 DEF ListPins

(* A list that fails for a pin has seen it before it was removed.          *)
LEMMA LoadListedStep == ASSUME CatalogInv, NEW pin \in skillCall.toLoad, LoadListed(pin) PROVE CatalogInv'
<1>1. /\ skillCall.at = "loadEach" /\ skillCall.op = "list" /\ UNCHANGED <<skillWorld, during, unpinned>>
      /\ skillWorld \in during /\ EachInv
  BY DEF LoadListed, CatalogInv, SkillShape, PinsInv, EachInv
<1>2. CASE /\ pin \in skillWorld.pins
           /\ skillCall' = [skillCall EXCEPT !.toLoad = @ \ {pin}, !.entries = @ \union {pin}]
  <2>1. /\ KeepsItsSubject /\ skillCall'.at = "loadEach" /\ skillCall'.entries = skillCall.entries \union {pin}
        /\ skillCall'.toLoad = skillCall.toLoad \ {pin} /\ skillCall'.unavailable = skillCall.unavailable
    BY <1>1, <1>2 DEF CatalogInv, SkillShape, NoSkillCall, KeepsItsSubject
  <2>2. /\ SkillShape' /\ FoundInv'
        /\ \A t, f : (WasThere(t, f) <=> WasThere(t, f)') /\ (Steady(t, f) <=> Steady(t, f)')
    BY <1>1, <2>1, SubjectIsKept
  <2>3. EachInv'
    BY <1>1, <1>2, <2>1, <2>2 DEF EachInv, KeepsItsSubject
  <2> QED
    BY <1>1, <2>1, <2>2, <2>3 DEF CatalogInv, BuildInv, ListInv, PinsInv, LoadInv, CatalogTellsTheTruth, KeepsItsSubject
<1>3. CASE pin \notin skillWorld.pins /\ AnswerSkill("NOT_FOUND")
  <2>1. KeepsItsSubject /\ skillCall'.at = "answered" /\ skillCall'.answer = "NOT_FOUND"
    BY <1>1, <1>3 DEF AnswerSkill, CatalogInv, SkillShape, NoSkillCall, KeepsItsSubject
  <2>2. SkillShape' /\ FoundInv'
    BY <1>1, <2>1, SubjectIsKept
  <2>3. pin \in unpinned
    BY <1>1, <1>3 DEF EachInv
  <2>4. NotFoundWasMissing'
    BY <1>1, <2>1, <2>3 DEF NotFoundWasMissing, KeepsItsSubject
  <2> QED
    BY <1>1, <2>1, <2>2, <2>4 DEF CatalogInv, BuildInv, ListInv, PinsInv, LoadInv, EachInv, CatalogTellsTheTruth,
       BundleWasThere, ListIsComplete, KeepsItsSubject
<1>4. CASE TornLoad(pin)
  BY <1>1, <1>4, RefusalStep DEF TornLoad, Promised
<1> QED
  BY <1>2, <1>3, <1>4 DEF LoadListed

LEMMA AnswerListStep == CatalogInv /\ AnswerList => CatalogInv'
<1> SUFFICES ASSUME CatalogInv, AnswerList PROVE CatalogInv'
  OBVIOUS
<1>1. /\ KeepsItsSubject /\ skillCall'.at = "answered" /\ skillCall'.answer = "listed"
      /\ skillCall'.entries = skillCall.entries /\ skillCall.toLoad = {}
      /\ skillCall'.unavailable = skillCall.unavailable
      /\ skillCall.at = "loadEach" /\ skillCall.op = "list" /\ EachInv
  BY DEF AnswerList, AnswerSkill, CatalogInv, SkillShape, NoSkillCall, KeepsItsSubject, PinsInv, EachInv
<1>2. /\ SkillShape' /\ FoundInv'
      /\ \A t, f : (WasThere(t, f) <=> WasThere(t, f)') /\ (Steady(t, f) <=> Steady(t, f)')
  BY <1>1, SubjectIsKept
<1>3. \A e \in skillCall'.entries : WasThere(e[1], e[2])' \/ \E w \in during' : e \in w.pins
  BY <1>1, <1>2 DEF EachInv, KeepsItsSubject
<1>4. ASSUME ~skillCall.unavailable, NEW s \in Sources, NEW f \in BundleFingerprints, Steady(s, f)'
      PROVE  <<s, f>> \in skillCall'.entries
  BY <1>1, <1>2, <1>4 DEF EachInv
<1>5. \A e : (\A w \in during' : e \in w.pins) => e \in skillCall'.entries
  BY <1>1 DEF EachInv, KeepsItsSubject
<1>6. ListIsComplete'
  BY <1>1, <1>3, <1>4, <1>5 DEF ListIsComplete, Steady
<1> QED
  BY <1>1, <1>2, <1>6 DEF CatalogInv, BuildInv, ListInv, PinsInv, LoadInv, EachInv, CatalogTellsTheTruth, BundleWasThere,
     NotFoundWasMissing, KeepsItsSubject

(* Whatever authors, the operator and the workspace do while it runs, a    *)
(* call of the catalog loads, pins, lists and misses what its sources and  *)
(* its pins justify, for any number of sources; a load that asks for no    *)
(* version may miss a pin only when one of its skill was removed meanwhile *)
(* (catalog.ts list, loadRaw, pin).                                        *)
THEOREM CatalogIsTrue == CatalogSpec => []CatalogTellsTheTruth
<1>1. CatalogInv /\ [CatalogNext]_catalogVars => CatalogInv'
  <2> SUFFICES ASSUME CatalogInv, [CatalogNext]_catalogVars PROVE CatalogInv'
    OBVIOUS
  <2>1. CASE UNCHANGED catalogVars
    BY <2>1
    DEF catalogVars, CatalogInv, SkillShape, FoundInv, BuildInv, ListInv, PinsInv, LoadInv, EachInv, CatalogTellsTheTruth,
        BundleWasThere, NotFoundWasMissing, ListIsComplete, InReach, Lacked, Steady, WasThere, Found, Unpinned, Eligible
  <2>2. CASE CatalogStep
    BY <2>2, LookStep, DiscoverStep, BuildTreeStep, BuildDocumentStep, BuildResourceStep, DiscoveredStep, AnswerLiveStep,
       PinItStep, SelectPinnedStep, LoadPinnedStep, ExplainStep, ScopeErrorStep, ListPinsStep, LoadListedStep, AnswerListStep
    DEF CatalogStep
  <2> QED
    BY <2>1, <2>2, BeginStep, OthersStep DEF CatalogNext
<1>2. CatalogInv => CatalogTellsTheTruth
  BY DEF CatalogInv
<1> QED
  BY <1>1, <1>2, CatalogStarts, PTL DEF CatalogSpec
=============================================================================
