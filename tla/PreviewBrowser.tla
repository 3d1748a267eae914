--------------------------- MODULE PreviewBrowser ---------------------------
(***************************************************************************)
(* PreviewManager keeps the preview servers that run as background         *)
(* processes of a workspace, BrowserManager one headless browser for each  *)
(* preview that is looked at, VisualVerificationManager resizes that       *)
(* browser and compares what it shows.  All three are maps in the MCP      *)
(* server; every call awaits the runtime, the port or the browser, and     *)
(* calls run side by side.  One workspace; a preview and the process that  *)
(* serves it share a number.                                               *)
(***************************************************************************)
EXTENDS Naturals, Sequences, FiniteSets

CONSTANTS
  PreviewCalls, \* tool calls that may be in flight together
  MaxPreviews,  \* MAX_PREVIEW_SESSIONS
  MaxSessions,  \* MAX_BROWSER_SESSIONS
  Matrix,       \* the names of VISUAL_VIEWPORT_MATRIX, in its order
  MaxStarts,    \* bound: processes ever run
  MaxBrowsers   \* bound: browsers ever launched

ASSUME PreviewAssumption ==
  /\ IsFiniteSet(PreviewCalls) /\ Matrix \in Seq(STRING)
  /\ MaxPreviews \in Nat /\ MaxSessions \in Nat /\ MaxStarts \in Nat /\ MaxBrowsers \in Nat

VARIABLES
  ready,        \* the workspace is READY
  process,      \* the background processes, as the runtime reports them
  previews,     \* PreviewManager.#previews
  sessions,     \* BrowserManager.#sessions: the browser of each preview, 0 when none
  browsers,     \* the browsers: whose page they show, and its viewport
  previewCalls  \* what each call has seen so far

previewVars == <<ready, process, previews, sessions, browsers, previewCalls>>

PreviewIds == 1..MaxStarts
Browsers   == 1..MaxBrowsers

NoBrowser == [state |-> "unused", preview |-> 0, viewport |-> "own"]
NoPreviewCall == [op |-> "none", at |-> "idle", id |-> 0, browser |-> 0, visited |-> {},
           step |-> 0, shots |-> <<>>, failed |-> FALSE, alone |-> TRUE]

PreviewInit ==
  /\ ready = TRUE
  /\ process = [i \in PreviewIds |-> "none"]
  /\ previews = {}
  /\ sessions = [i \in PreviewIds |-> 0]
  /\ browsers = [b \in Browsers |-> NoBrowser]
  /\ previewCalls = [c \in PreviewCalls |-> NoPreviewCall]

At(c, op, at) == previewCalls[c].op = op /\ previewCalls[c].at = at
CallBecomes(c, seen) == previewCalls' = [previewCalls EXCEPT ![c] = seen]
CallGoes(c, at)      == CallBecomes(c, [previewCalls[c] EXCEPT !.at = at])
CallReturns(c)       == CallBecomes(c, NoPreviewCall)

PreviewOps == {"start", "stop", "open", "use", "matrix", "close"}

(* A call on a closed workspace is refused at once, and is left out.        *)
BeginCall(c) ==
  /\ previewCalls[c].at = "idle" /\ ready
  /\ \E op \in PreviewOps, i \in PreviewIds :
       /\ IF op \in {"start", "close"} THEN i = 1 ELSE process[i] # "none"
       /\ op = "matrix" => sessions[i] # 0
       /\ LET others == {d \in PreviewCalls : previewCalls[d].at # "idle"}
          IN previewCalls' = [d \in PreviewCalls |->
               IF d = c THEN [NoPreviewCall EXCEPT !.op = op, !.at = "begun", !.id = i, !.alone = others = {}]
                        ELSE [previewCalls[d] EXCEPT !.alone = FALSE]]
  /\ UNCHANGED <<ready, process, previews, sessions, browsers>>

-----------------------------------------------------------------------------
(* PreviewManager                                                          *)

HoldingASlot == {c \in PreviewCalls : previewCalls[c].op = "start" /\ previewCalls[c].at \in {"reserved", "ran"}}
RecordsOnly(c) == Cardinality(previews) >= MaxPreviews    \* mutant: starts under way do not count
Full(c) == Cardinality(previews) + Cardinality(HoldingASlot) >= MaxPreviews

(* #reserveStartSlot, one round of its loop: a preview whose process is    *)
(* seen to have ended gives up its place; a status that cannot be had      *)
(* (the workspace is closed) leaves it.                                    *)
Prune(c) ==
  /\ At(c, "start", "begun") /\ Full(c)
  /\ \E i \in previews \ previewCalls[c].visited :
       /\ previews' = IF ready /\ process[i] # "running" THEN previews \ {i} ELSE previews
       /\ CallBecomes(c, [previewCalls[c] EXCEPT !.visited = @ \union {i}])
  /\ UNCHANGED <<ready, process, sessions, browsers>>

Reserve(c) ==
  /\ At(c, "start", "begun")
  /\ Full(c) => previews \subseteq previewCalls[c].visited
  /\ IF Full(c) THEN CallReturns(c) ELSE CallGoes(c, "reserved")
  /\ UNCHANGED <<ready, process, previews, sessions, browsers>>

(* The port is free and the source state resolved; process.run answers.    *)
RunProcess(c) ==
  /\ At(c, "start", "reserved") /\ ready
  /\ \E i \in PreviewIds :
       /\ process[i] = "none" /\ \A j \in 1..i - 1 : process[j] # "none"
       /\ process' = [process EXCEPT ![i] = "running"]
       /\ CallBecomes(c, [previewCalls[c] EXCEPT !.at = "ran", !.id = i])
  /\ UNCHANGED <<ready, previews, sessions, browsers>>

(* The port is in use, or one of the awaited calls rejects: the finally    *)
(* gives the slot back.                                                    *)
StartFails(c) ==
  /\ At(c, "start", "reserved")
  /\ CallReturns(c)
  /\ UNCHANGED <<ready, process, previews, sessions, browsers>>

(* The record takes the slot over; #waitForReadiness only reports.         *)
Record(c) ==
  /\ At(c, "start", "ran")
  /\ previews' = previews \union {previewCalls[c].id}
  /\ CallReturns(c)
  /\ UNCHANGED <<ready, process, sessions, browsers>>

(* preview.stop: the browser goes first, then the process, then the record.*)
ReleasedSessions(ids) == [i \in PreviewIds |-> IF i \in ids THEN 0 ELSE sessions[i]]
ReleasedBrowsers(ids) ==
  [b \in Browsers |-> IF \E i \in ids : sessions[i] = b THEN [browsers[b] EXCEPT !.state = "closing"]
                                                        ELSE browsers[b]]
Release(ids) == sessions' = ReleasedSessions(ids) /\ browsers' = ReleasedBrowsers(ids)

StopBrowser(c) ==
  /\ At(c, "stop", "begun")
  /\ Release({previewCalls[c].id})
  /\ CallGoes(c, "released")
  /\ UNCHANGED <<ready, process, previews>>

StopStatus(c) ==
  /\ At(c, "stop", "released")
  /\ LET i == previewCalls[c].id
         known == i \in previews /\ ready
     IN /\ IF known /\ process[i] = "running" THEN CallGoes(c, "cancelling") ELSE CallReturns(c)
        /\ previews' = IF known /\ process[i] # "running" THEN previews \ {i} ELSE previews
  /\ UNCHANGED <<ready, process, sessions, browsers>>

(* The cancellation may give up with the process still running; it is      *)
(* forgotten all the same.                                                 *)
StopCancel(c) ==
  /\ At(c, "stop", "cancelling")
  /\ IF ready
       THEN /\ process' \in {process, [process EXCEPT ![previewCalls[c].id] = "ended"]}
            /\ previews' = previews \ {previewCalls[c].id}
       ELSE UNCHANGED <<process, previews>>
  /\ CallReturns(c)
  /\ UNCHANGED <<ready, sessions, browsers>>

(* workspace.close: the processes end with the workspace; only when it is  *)
(* CLOSED are the browsers released, and after them the previews.          *)
CloseWorkspace(c) ==
  /\ At(c, "close", "begun")
  /\ ready' = FALSE
  /\ process' = [i \in PreviewIds |-> IF process[i] = "running" THEN "ended" ELSE process[i]]
  /\ CallGoes(c, "closed")
  /\ UNCHANGED <<previews, sessions, browsers>>

ReleaseBrowsers(c) ==
  /\ At(c, "close", "closed")
  /\ Release(PreviewIds)
  /\ CallGoes(c, "released")
  /\ UNCHANGED <<ready, process, previews>>

ReleasePreviews(c) ==
  /\ At(c, "close", "released")
  /\ previews' = {}
  /\ CallReturns(c)
  /\ UNCHANGED <<ready, process, sessions, browsers>>

-----------------------------------------------------------------------------
(* BrowserManager                                                          *)

(* #inspectLivePreview can answer: the preview is known and running.  That *)
(* its port does not answer yet is one more way to refuse.                 *)
Live(i) == i \in previews /\ ready /\ process[i] = "running"

(* Anything a call awaits may reject it, before it changes anything.       *)
BrowserRefuses(c) ==
  /\ previewCalls[c].op \in {"open", "use"} /\ previewCalls[c].at \in {"begun", "inspected", "launching"}
  /\ CallReturns(c)
  /\ UNCHANGED <<ready, process, previews, sessions, browsers>>

InspectLive(c) ==
  /\ At(c, "open", "begun") /\ Live(previewCalls[c].id)
  /\ CallGoes(c, "inspected")
  /\ UNCHANGED <<ready, process, previews, sessions, browsers>>

DecideOpen(c) ==
  /\ At(c, "open", "inspected")
  /\ IF sessions[previewCalls[c].id] # 0 \/ Cardinality({i \in PreviewIds : sessions[i] # 0}) >= MaxSessions
       THEN CallReturns(c) ELSE CallGoes(c, "launching")
  /\ UNCHANGED <<ready, process, previews, sessions, browsers>>

(* driver.open: a browser runs and its page has the preview's origin.      *)
Launch(c) ==
  /\ At(c, "open", "launching")
  /\ \E b \in Browsers :
       /\ browsers[b] = NoBrowser /\ \A a \in 1..b - 1 : browsers[a] # NoBrowser
       /\ browsers' = [browsers EXCEPT ![b] = [state |-> "live", preview |-> previewCalls[c].id, viewport |-> "own"]]
       /\ CallBecomes(c, [previewCalls[c] EXCEPT !.at = "launched", !.browser = b])
  /\ UNCHANGED <<ready, process, previews, sessions>>

(* A browser that has disconnected meanwhile is not registered.            *)
StillThere(b) == browsers[b].state = "live"
Unasked(b)    == TRUE    \* mutant: the disconnected flag is not looked at
Registrable(b) == StillThere(b)

RegisterSession(c) ==
  /\ At(c, "open", "launched")
  /\ sessions' = IF Registrable(previewCalls[c].browser)
                   THEN [sessions EXCEPT ![previewCalls[c].id] = previewCalls[c].browser] ELSE sessions
  /\ CallReturns(c)
  /\ UNCHANGED <<ready, process, previews, browsers>>

(* A browser that dies, or was told to close, disconnects: onDisconnect     *)
(* evicts the session of that key, whichever browser it is by now.         *)
Disconnect(b) ==
  /\ browsers[b].state \in {"live", "closing"}
  /\ browsers' = [browsers EXCEPT ![b].state = "closed"]
  /\ sessions' = [sessions EXCEPT ![browsers[b].preview] = 0]
  /\ UNCHANGED <<ready, process, previews, previewCalls>>

(* #requireLiveSession                                                     *)
RequireLiveSession(c) ==
  /\ previewCalls[c].op \in {"use", "matrix"} /\ previewCalls[c].at = "begun"
  /\ Live(previewCalls[c].id) /\ sessions[previewCalls[c].id] # 0
  /\ CallBecomes(c, [previewCalls[c] EXCEPT !.at = "acting", !.browser = sessions[previewCalls[c].id]])
  /\ UNCHANGED <<ready, process, previews, sessions, browsers>>

(* inspect, click, type, screenshot, console, networkFailures; inspect may *)
(* find that the page has left the preview's origin.                       *)
Act(c) ==
  /\ At(c, "use", "acting")
  /\ Release({}) \/ Release({previewCalls[c].id})
  /\ CallReturns(c)
  /\ UNCHANGED <<ready, process, previews>>

-----------------------------------------------------------------------------
(* VisualVerificationManager.captureMatrix: inspect, then resize and shoot *)
(* for every viewport, then (finally) back to the first viewport.          *)

Restoring == 2 * Len(Matrix) + 1
ViewportOf(step) == IF step = Restoring THEN "own" ELSE Matrix[(step + 1) \div 2]
Resizes(step) == step % 2 = 1

(* A step done: the page resized, or a picture of what the page shows.     *)
MatrixStep(c) ==
  /\ At(c, "matrix", "acting") /\ browsers[previewCalls[c].browser].state = "live"
  /\ LET b == previewCalls[c].browser
         s == previewCalls[c].step
     IN /\ browsers' = IF Resizes(s) THEN [browsers EXCEPT ![b].viewport = ViewportOf(s)] ELSE browsers
        /\ CallBecomes(c, [previewCalls[c] EXCEPT !.at = IF s = Restoring THEN "captured" ELSE "begun",
                                                  !.step = s + 1,
                                                  !.shots = IF s > 0 /\ ~Resizes(s)
                                                              THEN Append(@, browsers[b].viewport) ELSE @])
  /\ UNCHANGED <<ready, process, previews, sessions>>

(* A step failed: the rest is skipped, the viewport restored if it can be. *)
MatrixFails(c) ==
  /\ previewCalls[c].op = "matrix" /\ previewCalls[c].at \in {"begun", "acting"}
  /\ IF previewCalls[c].step \in {0, Restoring} THEN CallReturns(c)
     ELSE CallBecomes(c, [previewCalls[c] EXCEPT !.at = "begun", !.step = Restoring, !.failed = TRUE])
  /\ UNCHANGED <<ready, process, previews, sessions, browsers>>

MatrixAnswered(c) ==
  /\ At(c, "matrix", "captured")
  /\ CallReturns(c)
  /\ UNCHANGED <<ready, process, previews, sessions, browsers>>

PreviewNext ==
  \/ \E c \in PreviewCalls :
       \/ BeginCall(c) \/ Prune(c) \/ Reserve(c) \/ RunProcess(c) \/ StartFails(c) \/ Record(c)
       \/ StopBrowser(c) \/ StopStatus(c) \/ StopCancel(c)
       \/ CloseWorkspace(c) \/ ReleaseBrowsers(c) \/ ReleasePreviews(c)
       \/ BrowserRefuses(c) \/ InspectLive(c) \/ DecideOpen(c) \/ Launch(c) \/ RegisterSession(c) \/ RequireLiveSession(c) \/ Act(c)
       \/ MatrixStep(c) \/ MatrixFails(c) \/ MatrixAnswered(c)
  \/ \E b \in Browsers : Disconnect(b)

PreviewSpec == PreviewInit /\ [][PreviewNext]_previewVars

-----------------------------------------------------------------------------
(* Starts that wait side by side, pruning as they go, never admit more     *)
(* previews than MAX_PREVIEW_SESSIONS.                                     *)
PreviewsAreBounded == Cardinality(previews) + Cardinality(HoldingASlot) <= MaxPreviews

(* A session that browser.* offers has a browser behind it, one that shows *)
(* this preview; and a matrix that nothing disturbed has pictures of the   *)
(* viewports it names and leaves the page as it found it.                  *)
SessionsAreLive ==
  /\ \A i \in PreviewIds : sessions[i] # 0 =>
       browsers[sessions[i]].state = "live" /\ browsers[sessions[i]].preview = i
  /\ \A c \in PreviewCalls :
       (At(c, "matrix", "captured") /\ ~previewCalls[c].failed /\ previewCalls[c].alone) =>
         previewCalls[c].shots = Matrix /\ browsers[previewCalls[c].browser].viewport = "own"

(* What preview.*, browser.* and visual.* promise of their maps, together. *)
PreviewsAreSound == PreviewsAreBounded /\ SessionsAreLive

(* The design's words: openPreview is idempotent for the same live         *)
(* preview, so a preview has at most one browser.                          *)
OneBrowserPerPreview ==
  \A a, b \in Browsers :
    (browsers[a].state = "live" /\ browsers[b].state = "live" /\ browsers[a].preview = browsers[b].preview)
      => a = b
=============================================================================
