-------------------------- MODULE MCWorkspaceFiles --------------------------
(***************************************************************************)
(* Work on the files of a workspace: the runtime's file and Git requests,  *)
(* file.patch over them, and the source state that evidence is bound to.   *)
(* A behaviour is about one of the three, its `part`.                      *)
(***************************************************************************)
EXTENDS Dispatcher, SourceState, FilePatch, TLC

CONSTANTS r1, r2

VARIABLE part

-----------------------------------------------------------------------------
(* Two requests in one workspace: every family beside a file.write, and    *)
(* Git families beside each other.                                         *)
Pairs == ({"write"} \X Kinds) \union
         {<<"mutate", "remote">>, <<"worktree", "checkpointPatch">>, <<"history", "inspect">>}

(* Patches of two files out of order, with overlapping, misplaced and      *)
(* empty hunks, with a file named twice, and with counts that are wrong.   *)
Line(kind_, text) == [kind |-> kind_, text |-> text]
Keep(text) == Line("context", text)
Add(text)  == Line("add", text)
Drop(text) == Line("remove", text)
Hunk(old, new, lines) ==
  [oldStart |-> old[1], oldCount |-> old[2], newStart |-> new[1], newCount |-> new[2], lines |-> lines]
File(path, action, hunks) == [path |-> path, action |-> action, hunks |-> hunks]

ParsedPatches == {
  <<File(2, "update", <<Hunk(<<1, 1>>, <<1, 2>>, <<Keep("a"), Add("b")>>)>>),
    File(1, "create", <<Hunk(<<0, 0>>, <<1, 1>>, <<Add("a")>>)>>)>>,
  <<File(1, "update", <<Hunk(<<1, 1>>, <<1, 1>>, <<Drop("a"), Add("b")>>), Hunk(<<2, 1>>, <<2, 0>>, <<Drop("b")>>)>>)>>,
  <<File(1, "update", <<Hunk(<<1, 1>>, <<1, 0>>, <<Drop("a")>>), Hunk(<<2, 1>>, <<1, 1>>, <<Keep("b")>>)>>),
    File(2, "delete", <<Hunk(<<1, 2>>, <<0, 0>>, <<Drop("a"), Drop("b")>>)>>)>>,
  <<File(1, "update", <<Hunk(<<1, 0>>, <<2, 1>>, <<Add("b")>>)>>)>>,
  <<File(1, "update", <<Hunk(<<1, 1>>, <<2, 1>>, <<Keep("a")>>)>>)>>,
  <<File(1, "create", <<Hunk(<<0, 0>>, <<1, 2>>, <<Add("a")>>)>>)>>,
  <<File(1, "create", <<Hunk(<<0, 0>>, <<1, 1>>, <<Add("a")>>)>>), File(1, "create", <<Hunk(<<0, 0>>, <<1, 1>>, <<Add("b")>>)>>)>>}

MCInit ==
  /\ part \in {"requests", "patches", "sources"}
  /\ Init /\ <<kind[r1], kind[r2]>> \in Pairs
  /\ part # "requests" => kind = (r1 :> "write" @@ r2 :> "write")
  /\ PatchInit
  /\ part # "patches" => files = [p \in PatchPaths |-> Absent]
  /\ SourceInit
  /\ part # "sources" => head = [p \in Paths |-> NoFile]

MCNext ==
  /\ UNCHANGED part
  /\ \/ part = "requests" /\ Next /\ UNCHANGED <<patchVars, sourceVars>>
     \/ part = "patches" /\ PatchNext /\ UNCHANGED <<vars, sourceVars>>
     \/ part = "sources" /\ SourceNext /\ UNCHANGED <<vars, patchVars>>

MCVars == <<part, vars, patchVars, sourceVars>>

MCSpec == MCInit /\ [][MCNext]_MCVars /\ Fairness

=============================================================================
