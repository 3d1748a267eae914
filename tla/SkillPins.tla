------------------------------ MODULE SkillPins ------------------------------
(***************************************************************************)
(* SkillPinStore: one skill's directory under <stateRoot>/skills/pinned,   *)
(* and the processes that work on it with no lock between them: kodegpt    *)
(* skill pin and unpin, and the server that lists and loads.  A process    *)
(* may die between any two steps.                                          *)
(*                                                                         *)
(* A snapshot is the set of its files that are there; what a file holds is *)
(* settled by the fingerprint that names its directory.                    *)
(***************************************************************************)
EXTENDS Naturals, FiniteSets

CONSTANTS
  Procs,         \* processes
  Fingerprints,  \* versions of the skill
  MaxCalls       \* bound: calls of pin, unpin, list and load

VARIABLES
  skillRoot,  \* <pinned>/<skillId> exists
  snapshots,  \* the snapshots whose directory exists
  skillFiles, \* the files of each
  litter,     \* a .pin-*.tmp directory whose process died
  run,        \* what each process is doing
  calls,      \* calls begun
  kept,       \* history: pinned, and not asked to be unpinned since
  disturbed   \* history: an unpin of it was begun, and none has removed it since

pinVars == <<skillRoot, snapshots, skillFiles, litter, run, calls, kept, disturbed>>
disk == <<skillRoot, snapshots, skillFiles, litter>>

Files == {"SKILL.md", "resources", "manifest.json"}
AnyVersion == CHOOSE f \in Fingerprints : TRUE
Idle == [op |-> "none", fp |-> AnyVersion, at |-> "idle", temp |-> {}, made |-> FALSE,
         left |-> {}, alone |-> TRUE, answer |-> "none"]

PinInit ==
  /\ skillRoot = FALSE /\ snapshots = {} /\ skillFiles = [f \in Fingerprints |-> {}] /\ litter = FALSE
  /\ run = [p \in Procs |-> Idle]
  /\ calls = 0 /\ kept = {} /\ disturbed = {}

Goto(p, at) == run' = [run EXCEPT ![p].at = at]

(* A snapshot is pinned for good when its pin is answered, unless somebody *)
(* was removing it meanwhile.                                              *)
Unpinning(f, others) == \E q \in others : run[q].at \in {"lstat", "rm"} /\ run[q].fp = f
Settled(f, others) == IF Unpinning(f, others) THEN disturbed ELSE disturbed \ {f}
Answer(p, answer) ==
  LET f == run[p].fp IN
  /\ run' = [run EXCEPT ![p] = [Idle EXCEPT !.answer = answer]]
  /\ kept' = IF run[p].op = "pin" /\ answer = "ok" /\ run[p].alone THEN kept \union {f} ELSE kept
  /\ disturbed' = IF run[p].at = "lstat" THEN Settled(f, Procs \ {p}) ELSE disturbed

FirstStep == [pin |-> "existing", unpin |-> "lstat", list |-> "list", load |-> "load"]
Begin(p) ==
  /\ run[p].at = "idle" /\ calls < MaxCalls /\ calls' = calls + 1
  /\ \E op \in {"pin", "unpin", "list", "load"}, f \in Fingerprints :
       /\ run' = [q \in Procs |->
                    IF q = p THEN [Idle EXCEPT !.op = op, !.fp = f, !.at = FirstStep[op], !.alone = ~Unpinning(f, Procs)]
                    ELSE [run[q] EXCEPT !.alone = @ /\ ~(op = "unpin" /\ run[q].op = "pin" /\ run[q].fp = f)]]
       /\ kept' = IF op = "unpin" THEN kept \ {f} ELSE kept
       /\ disturbed' = IF op = "unpin" THEN disturbed \union {f} ELSE disturbed
  /\ UNCHANGED disk

(* #existingManifest, before anything is written and again before the      *)
(* rename: a directory that is there must have a readable manifest, and is *)
(* loaded before the pin is answered.                                      *)
LoadItFirst == "load"
TakeItAsIs  == "settle"    \* mutant: a manifest is proof enough
Reuse == LoadItFirst
Existing(p) ==
  LET f == run[p].fp IN
  /\ run[p].at \in {"existing", "raced"}
  /\ CASE f \notin snapshots ->
            Goto(p, IF run[p].at = "existing" THEN "directories" ELSE "rename") /\ UNCHANGED <<kept, disturbed, litter>>
       [] f \in snapshots /\ "manifest.json" \in skillFiles[f] ->
            run' = [run EXCEPT ![p].at = Reuse, ![p].temp = {}, ![p].made = FALSE] /\ UNCHANGED <<kept, disturbed, litter>>
       [] OTHER -> Answer(p, "invalid") /\ UNCHANGED litter
  /\ UNCHANGED <<skillRoot, snapshots, skillFiles, calls>>

(* load: the directories, the manifest, the topology, then each file.      *)
LoadDirectory(p) ==
  /\ run[p].at = "load"
  /\ IF run[p].fp \in snapshots THEN Goto(p, "topology") /\ UNCHANGED <<kept, disturbed>> ELSE Answer(p, "not found")
  /\ UNCHANGED <<disk, calls>>

(* readManifest and assertSnapshotTopology: all the files and no other.    *)
LoadTopology(p) ==
  /\ run[p].at = "topology"
  /\ IF skillFiles[run[p].fp] = Files
       THEN run' = [run EXCEPT ![p].at = "read", ![p].left = Files] /\ UNCHANGED <<kept, disturbed>>
       ELSE Answer(p, "invalid")
  /\ UNCHANGED <<disk, calls>>

(* readAndVerifyFile, one after the other; requireSamePin holds of a       *)
(* snapshot that carries this fingerprint.                                 *)
LoadFile(p) ==
  /\ run[p].at = "read"
  /\ \E file \in run[p].left :
       IF file \in skillFiles[run[p].fp]
         THEN IF run[p].left = {file} THEN Answer(p, "ok")
                ELSE run' = [run EXCEPT ![p].left = @ \ {file}] /\ UNCHANGED <<kept, disturbed>>
         ELSE Answer(p, "invalid")
  /\ UNCHANGED <<disk, calls>>

(* ensurePrivateDirectory, then the temporary directory in it.             *)
Directories(p) ==
  /\ run[p].at = "directories" /\ skillRoot' = TRUE /\ Goto(p, "mkdir")
  /\ UNCHANGED <<snapshots, skillFiles, litter, calls, kept, disturbed>>
MakeTemporary(p) ==
  /\ run[p].at = "mkdir"
  /\ IF skillRoot THEN run' = [run EXCEPT ![p].at = "write", ![p].made = TRUE] /\ UNCHANGED <<kept, disturbed>>
                  ELSE Answer(p, "invalid")
  /\ UNCHANGED <<disk, calls>>

(* writePrivateFile: SKILL.md, the resources, the manifest, in that order. *)
NextFile(written) == CASE "SKILL.md" \notin written -> "SKILL.md" [] "resources" \notin written -> "resources" [] OTHER -> "manifest.json"
AllWritten(written)  == written = Files
DocumentWritten(written) == "SKILL.md" \in written    \* mutant: published before the rest is written
Complete(written) == AllWritten(written)
WriteFile(p) ==
  /\ run[p].at = "write" /\ run[p].temp # Files
  /\ run' = [run EXCEPT ![p].temp = @ \union {NextFile(@)}]
  /\ UNCHANGED <<disk, calls, kept, disturbed>>
Written(p) ==
  /\ run[p].at = "write" /\ Complete(run[p].temp) /\ Goto(p, "raced")
  /\ UNCHANGED <<disk, calls, kept, disturbed>>

(* The rename takes an empty directory's place; a full one makes it fail,  *)
(* and the pin loads what is there instead.                                *)
Publish(p) ==
  LET f == run[p].fp IN
  /\ run[p].at = "rename"
  /\ IF f \in snapshots /\ skillFiles[f] # {}
       THEN run' = [run EXCEPT ![p].at = "load", ![p].temp = {}, ![p].made = FALSE] /\ UNCHANGED <<snapshots, skillFiles>>
       ELSE /\ snapshots' = snapshots \union {f} /\ skillFiles' = [skillFiles EXCEPT ![f] = run[p].temp]
            /\ run' = [run EXCEPT ![p].at = "settle", ![p].temp = {}, ![p].made = FALSE]
  /\ UNCHANGED <<skillRoot, litter, calls, kept, disturbed>>

(* chmod and the sync of the skill's directory.                            *)
SettlePin(p) ==
  /\ run[p].at = "settle" /\ Answer(p, IF run[p].fp \in snapshots THEN "ok" ELSE "invalid")
  /\ UNCHANGED <<disk, calls>>

(* list: the directories, then the manifest of each snapshot among them;   *)
(* temporary ones are passed over, one unreadable manifest ends it.        *)
ListEntries(p) ==
  /\ run[p].at = "list"
  /\ IF snapshots = {} THEN Answer(p, "ok")
       ELSE run' = [run EXCEPT ![p].at = "manifests", ![p].left = snapshots] /\ UNCHANGED <<kept, disturbed>>
  /\ UNCHANGED <<disk, calls>>
ListManifest(p) ==
  /\ run[p].at = "manifests"
  /\ \E f \in run[p].left :
       IF f \in snapshots /\ "manifest.json" \in skillFiles[f]
         THEN IF run[p].left = {f} THEN Answer(p, "ok")
                ELSE run' = [run EXCEPT ![p].left = @ \ {f}] /\ UNCHANGED <<kept, disturbed>>
         ELSE Answer(p, "invalid")
  /\ UNCHANGED <<disk, calls>>

(* unpin: rm -r looks at the directory, then removes what it found there.  *)
UnpinLstat(p) ==
  /\ run[p].at = "lstat"
  /\ IF run[p].fp \in snapshots
       THEN run' = [run EXCEPT ![p].at = "rm", ![p].left = skillFiles[run[p].fp]] /\ UNCHANGED <<kept, disturbed>>
       ELSE Answer(p, "not found")
  /\ UNCHANGED <<disk, calls>>
RemoveFile(p) ==
  /\ run[p].at = "rm"
  /\ \E file \in run[p].left :
       /\ skillFiles' = [skillFiles EXCEPT ![run[p].fp] = @ \ {file}]
       /\ run' = [run EXCEPT ![p].left = @ \ {file}]
  /\ UNCHANGED <<skillRoot, snapshots, litter, calls, kept, disturbed>>
RemoveDirectory(p) ==
  LET f == run[p].fp IN
  /\ run[p].at = "rm" /\ run[p].left = {}
  /\ IF skillFiles[f] = {}
       THEN /\ snapshots' = snapshots \ {f} /\ Goto(p, "prune")
            /\ disturbed' = Settled(f, Procs \ {p}) /\ UNCHANGED kept
       ELSE Answer(p, "invalid") /\ UNCHANGED snapshots
  /\ UNCHANGED <<skillRoot, skillFiles, litter, calls>>

(* An empty skill directory goes too: it is read, and then removed.        *)
SkillRootIsEmpty == snapshots = {} /\ ~litter /\ \A p \in Procs : ~run[p].made
Prune(p) ==
  /\ run[p].at = "prune"
  /\ IF skillRoot /\ SkillRootIsEmpty THEN Goto(p, "rmdir") /\ UNCHANGED <<kept, disturbed>> ELSE Answer(p, "ok")
  /\ UNCHANGED <<disk, calls>>
RemoveSkillRoot(p) ==
  /\ run[p].at = "rmdir"
  /\ IF SkillRootIsEmpty THEN skillRoot' = FALSE /\ Answer(p, "ok") ELSE Answer(p, "invalid") /\ UNCHANGED skillRoot
  /\ UNCHANGED <<snapshots, skillFiles, litter, calls>>

(* The process dies: what it had made stays.                               *)
Crash(p) ==
  /\ run[p].at # "idle"
  /\ run' = [run EXCEPT ![p] = Idle]
  /\ litter' = (litter \/ run[p].made)
  /\ UNCHANGED <<skillRoot, snapshots, skillFiles, calls, kept, disturbed>>

PinStep(p) ==
  \/ Existing(p) \/ Directories(p) \/ MakeTemporary(p) \/ WriteFile(p) \/ Written(p) \/ Publish(p) \/ SettlePin(p)
LoadStep(p) == LoadDirectory(p) \/ LoadTopology(p) \/ LoadFile(p) \/ ListEntries(p) \/ ListManifest(p)
UnpinStep(p) == UnpinLstat(p) \/ RemoveFile(p) \/ RemoveDirectory(p) \/ Prune(p) \/ RemoveSkillRoot(p)

PinNext == \E p \in Procs : Begin(p) \/ PinStep(p) \/ LoadStep(p) \/ UnpinStep(p) \/ Crash(p)
PinSpec == PinInit /\ [][PinNext]_pinVars

(* What pin answered for is there in full until somebody asks to unpin it; *)
(* and whoever dies, at whatever step, a snapshot under its final name is  *)
(* whole unless an unpin of it is under way or was cut short: list, and    *)
(* with it every skill call, fails on one snapshot without a manifest      *)
(* (pin-store.ts pin, rename last; load's topology check; unpin).          *)
PinsSurvive ==
  /\ \A f \in kept : f \in snapshots /\ skillFiles[f] = Files
  /\ \A f \in snapshots \ disturbed : skillFiles[f] = Files
=============================================================================
