---------------------------- MODULE TrustStore -----------------------------
(***************************************************************************)
(* The durable trust store (WorkspaceTrustStore): one JSON document that   *)
(* every call reads, changes in memory and replaces by renaming a          *)
(* temporary file over it.  The server runs calls concurrently, the CLI    *)
(* commands `workspace trust` and `workspace untrust` are further          *)
(* processes on the same file, no lock is taken anywhere, and a process    *)
(* may end between any two steps.                                          *)
(*                                                                         *)
(* An entry is the trust id of its root; identities and ceilings are left  *)
(* to WorkspacePolicy.                                                     *)
(***************************************************************************)
CONSTANTS
  Roots,     \* canonical roots
  TrustIds,  \* trust ids (trust_...), random and so never issued twice
  Calls,     \* calls of trust, untrust and requireTrusted
  NoTrust

ASSUME NoTrustAssumption == NoTrust \notin TrustIds

VARIABLES
  entries,   \* the document under workspaces.json
  whole,     \* whether that file parses
  issued,    \* trust ids ever generated
  asked,     \* what each call asks for
  at,        \* the await at which it stands
  document,  \* what it read, changed
  temporary, \* its temporary file
  answer     \* what it resolves to

trustVars == <<entries, whole, issued, asked, at, document, temporary, answer>>

MaybeTrust == TrustIds \union {NoTrust}
Documents == [Roots -> MaybeTrust]
TrustRequests == [op : {"trust", "requireTrusted"}, root : Roots]
                 \union [op : {"untrust"}, id : TrustIds]
NoRequest  == [op |-> "none"]

InFlight == {"reading", "opening", "writing", "renaming", "syncing", "cleaning"}

TrustTypeOK ==
  /\ entries \in Documents
  /\ whole \in BOOLEAN
  /\ issued \subseteq TrustIds
  /\ asked \in [Calls -> TrustRequests \union {NoRequest}]
  /\ at \in [Calls -> InFlight \union {"idle", "resolved", "rejected", "dead"}]
  /\ document \in [Calls -> Documents]
  /\ temporary \in [Calls -> {"none", "torn", "whole"}]
  /\ answer \in [Calls -> MaybeTrust]

Empty == [r \in Roots |-> NoTrust]

TrustInit ==
  /\ entries = Empty
  /\ whole = TRUE
  /\ issued = {}
  /\ asked = [c \in Calls |-> NoRequest]
  /\ at = [c \in Calls |-> "idle"]
  /\ document = [c \in Calls |-> Empty]
  /\ temporary = [c \in Calls |-> "none"]
  /\ answer = [c \in Calls |-> NoTrust]

-----------------------------------------------------------------------------
Await(c, from, to) == at[c] = from /\ at' = [at EXCEPT ![c] = to]

Ask(c, request) ==
  /\ Await(c, "idle", "reading")
  /\ asked' = [asked EXCEPT ![c] = request]
  /\ UNCHANGED <<entries, whole, issued, document, temporary, answer>>

FailureReadsEmpty(c) ==    \* mutant: a read that fails counts as an absent file
  /\ asked[c].op = "trust"
  /\ Await(c, "reading", "opening")
  /\ \E id \in TrustIds \ issued :
       /\ document' = [document EXCEPT ![c] = [Empty EXCEPT ![asked[c].root] = id]]
       /\ answer' = [answer EXCEPT ![c] = id]
       /\ issued' = issued \union {id}
  /\ UNCHANGED <<entries, whole, asked, temporary>>

(* #read rejects with TRUST_STORE_INVALID, or readFile fails (an absent    *)
(* file is the empty document, not a failure).                             *)
ReadFails(c) ==
  /\ Await(c, "reading", "rejected")
  /\ UNCHANGED <<entries, whole, issued, asked, document, temporary, answer>>

IdsFor(r) == IF entries[r] # NoTrust THEN {entries[r]} ELSE TrustIds \ issued

ReadToTrust(c) ==
  /\ whole /\ asked[c].op = "trust"
  /\ Await(c, "reading", "opening")
  /\ \E id \in IdsFor(asked[c].root) :
       /\ document' = [document EXCEPT ![c] = [entries EXCEPT ![asked[c].root] = id]]
       /\ answer' = [answer EXCEPT ![c] = id]
       /\ issued' = issued \union {id}
  /\ UNCHANGED <<entries, whole, asked, temporary>>

Partial(id) == [r \in {x \in Roots : entries[x] # id} |-> entries[r]]    \* mutant: no value for the root
KeepAll(id) == entries    \* mutant: the filter keeps the entry
Without(id) == [r \in Roots |-> IF entries[r] = id THEN NoTrust ELSE entries[r]]

(* untrust resolves to false without a write when the id is not there.     *)
ReadToUntrust(c) ==
  /\ whole /\ asked[c].op = "untrust"
  /\ IF \E r \in Roots : entries[r] = asked[c].id
       THEN /\ Await(c, "reading", "opening")
            /\ document' = [document EXCEPT ![c] = Without(asked[c].id)]
            /\ answer' = [answer EXCEPT ![c] = asked[c].id]
       ELSE Await(c, "reading", "resolved") /\ UNCHANGED <<document, answer>>
  /\ UNCHANGED <<entries, whole, issued, asked, temporary>>

(* WORKSPACE_NOT_TRUSTED, or the entry (unless its identity has changed).  *)
ReadToRequire(c) ==
  /\ whole /\ asked[c].op = "requireTrusted"
  /\ \/ /\ entries[asked[c].root] # NoTrust
        /\ Await(c, "reading", "resolved")
        /\ answer' = [answer EXCEPT ![c] = entries[asked[c].root]]
     \/ Await(c, "reading", "rejected") /\ UNCHANGED answer
  /\ UNCHANGED <<entries, whole, issued, asked, document, temporary>>

-----------------------------------------------------------------------------
(* #write                                                                  *)

WriteInPlace(c) ==    \* mutant: the document itself is opened and rewritten
  /\ whole' = FALSE
  /\ UNCHANGED temporary
OpenAside(c) ==
  /\ temporary' = [temporary EXCEPT ![c] = "torn"]
  /\ UNCHANGED whole

OpenTemporary(c) ==
  /\ Await(c, "opening", "writing")
  /\ OpenAside(c)
  /\ UNCHANGED <<entries, issued, asked, document, answer>>

WriteTemporary(c) ==
  /\ Await(c, "writing", "renaming")
  /\ temporary' = [temporary EXCEPT ![c] = "whole"]
  /\ UNCHANGED <<entries, whole, issued, asked, document, answer>>

Rename(c) ==
  /\ Await(c, "renaming", "syncing")
  /\ entries' = document[c]
  /\ whole' = (temporary[c] = "whole")
  /\ temporary' = [temporary EXCEPT ![c] = "none"]
  /\ UNCHANGED <<issued, asked, document, answer>>

Sync(c) ==
  /\ Await(c, "syncing", "resolved")
  /\ UNCHANGED <<entries, whole, issued, asked, document, temporary, answer>>

(* mkdir, open, writeFile, rename, chmod or the directory's sync fails.    *)
ReplaceFails(c) ==
  /\ \E place \in {"opening", "writing", "renaming", "syncing"} : Await(c, place, "cleaning")
  /\ UNCHANGED <<entries, whole, issued, asked, document, temporary, answer>>

(* rm's own failure is ignored and leaves the temporary file.              *)
CleanUp(c) ==
  /\ Await(c, "cleaning", "rejected")
  /\ temporary' \in {temporary, [temporary EXCEPT ![c] = "none"]}
  /\ UNCHANGED <<entries, whole, issued, asked, document, answer>>

(* The process of the call ends.                                           *)
Die(c) ==
  /\ at[c] \in InFlight
  /\ at' = [at EXCEPT ![c] = "dead"]
  /\ UNCHANGED <<entries, whole, issued, asked, document, temporary, answer>>

-----------------------------------------------------------------------------
TrustStep(c) ==
  \/ ReadFails(c) \/ ReadToTrust(c) \/ ReadToUntrust(c) \/ ReadToRequire(c)
  \/ OpenTemporary(c) \/ WriteTemporary(c) \/ Rename(c) \/ Sync(c)
  \/ ReplaceFails(c) \/ CleanUp(c)

TrustNext ==
  \E c \in Calls : TrustStep(c) \/ Die(c) \/ \E request \in TrustRequests : Ask(c, request)

TrustSafety == TrustInit /\ [][TrustNext]_trustVars

(* A single user: no call starts while another one is in flight.           *)
OneAtATime == \A c, d \in Calls : {at[c], at[d]} \subseteq InFlight => c = d
Sequential == TrustInit /\ [][TrustNext /\ OneAtATime']_trustVars

-----------------------------------------------------------------------------
(* Properties                                                              *)

(* A reader never meets half a document, whatever writers do and wherever  *)
(* they end: the store stays usable after every crash.                     *)
DocumentIsWhole == whole

(* One user's commands, with their failures and deaths, change the entry   *)
(* of the root they name and no other one: replacing the whole document    *)
(* never loses a neighbour.                                                *)
IsNamed(c, r) ==
  \/ asked[c].op = "trust" /\ asked[c].root = r
  \/ asked[c].op = "untrust" /\ asked[c].id = entries[r]

OnlyTheNamedChanges ==
  [][\A r \in Roots : entries'[r] # entries[r] =>
       \E c \in Calls : at[c] = "renaming" /\ IsNamed(c, r)]_trustVars

(* "durably removes trust": an id whose removal was acknowledged never     *)
(* comes back.                                                             *)
Untrusted(id) ==
  \E c \in Calls : asked[c] = [op |-> "untrust", id |-> id] /\ at[c] = "resolved" /\ answer[c] = id

UntrustIsDurable ==
  \A id \in TrustIds : Untrusted(id) => \A r \in Roots : entries[r] # id

(* The three together, which hold for one user.                            *)
DocumentIsKept == [](DocumentIsWhole /\ UntrustIsDurable) /\ OnlyTheNamedChanges
=============================================================================
