-------------------------- MODULE ConnectorAccess --------------------------
(***************************************************************************)
(* How an HTTP request reaches the MCP server: createKodegptHttpHandler    *)
(* bounds the body, enforceHttpRequestTrust checks the headers,            *)
(* resolveHttpCredential finds the one credential of the request, and      *)
(* ConnectorBearerAuthenticator compares it with the verifier in           *)
(* connector.json, which `auth rotate` (another process) replaces at any   *)
(* moment.                                                                 *)
(***************************************************************************)
EXTENDS Naturals, Sequences

CONSTANTS
  HttpRequests, \* HTTP requests in flight
  MaxTokens     \* bound: tokens ever issued

VARIABLES
  compatible, \* queryCredentialCompatibility
  stored,     \* the token whose verifier is in connector.json; 0 when there is none
  issued,     \* how many tokens rotate has made
  writing,    \* tokens whose rotate has yet to rename its document
  request,    \* what each request is and where it stands
  since       \* history: every value of stored since the request arrived

connectorVars == <<compatible, stored, issued, writing, request, since>>

Tokens == 1..MaxTokens

(* What may be wrong with a request, and its credentials: the header       *)
(* ("none", or a token, 0 when it is not a bearer token) and the values of *)
(* kodegpt_token in the query.                                             *)
Faults == {"method", "tooLarge", "host", "origin", "contentType", "length"}
Incoming ==
  [faults : SUBSET Faults, mcp : BOOLEAN,
   header : {<<"none", 0>>} \union {"present"} \X (0..MaxTokens),
   query  : {<<>>, <<1, 1>>} \union {<<t>> : t \in Tokens}]

(* enforceHttpRequestTrust: the host is one of ours; an Origin, if there   *)
(* is one, too (and the public one over HTTPS); the type is JSON; the      *)
(* declared length is the length of what came.                             *)
TrustStatus(q) ==
  CASE "host" \in q.faults        -> 421
    [] "origin" \in q.faults      -> 403
    [] "contentType" \in q.faults -> 415
    [] "length" \in q.faults      -> 400
    [] OTHER                      -> 200

HeaderOrQuery(q) ==    \* mutant: the query counts although compatibility is off
  (IF q.header[1] = "none" THEN {} ELSE {q.header[2]}) \union {q.query[i] : i \in DOMAIN q.query}

(* resolveHttpCredential: the credentials that go to the authenticator     *)
(* (none at all when the request is ambiguous).                            *)
Credentials(q) ==
  LET headers == IF q.header[1] = "none" THEN {} ELSE {q.header[2]}
  IN IF ~compatible \/ q.query = <<>> THEN headers
     ELSE IF ~q.mcp \/ Len(q.query) > 1 \/ headers # {} THEN {}
     ELSE {q.query[1]}

(* createKodegptHttpHandler, up to the credential.                         *)
Status(q) ==
  CASE "method" \in q.faults   -> 405
    [] "tooLarge" \in q.faults -> 413
    [] OTHER                   -> TrustStatus(q)

NoRequest == [at |-> "none", status |-> 0]

ConnectorInit ==
  /\ compatible \in BOOLEAN
  /\ stored = 0
  /\ issued = 0
  /\ writing = {}
  /\ request = [r \in HttpRequests |-> NoRequest]
  /\ since = [r \in HttpRequests |-> {}]

(* rotate has read the document (for createdAt) and made a token.          *)
StartRotate ==
  /\ issued < MaxTokens
  /\ issued' = issued + 1
  /\ writing' = writing \union {issued + 1}
  /\ UNCHANGED <<compatible, stored, request, since>>

FinishRotate(t) ==
  /\ t \in writing
  /\ writing' = writing \ {t}
  /\ stored' = t
  /\ since' = [r \in HttpRequests |-> IF request[r].at = "checking" THEN since[r] \union {t} ELSE since[r]]
  /\ UNCHANGED <<compatible, issued, request>>

(* The process of a rotate ends, or its write fails.                       *)
AbandonRotate(t) ==
  /\ t \in writing
  /\ writing' = writing \ {t}
  /\ UNCHANGED <<compatible, stored, issued, request, since>>

(* The body has been read and everything up to the authenticator decided.  *)
Arrive(r) ==
  /\ request[r].at = "none"
  /\ \E q \in Incoming :
       LET refused == Status(q) # 200
           unknown == Credentials(q) \ {0} = {}
       IN request' = [request EXCEPT ![r] =
            [at     |-> IF refused \/ unknown THEN "answered" ELSE "checking",
             status |-> IF refused THEN Status(q) ELSE IF unknown THEN 401 ELSE 0,
             token  |-> IF unknown THEN 0 ELSE CHOOSE t \in Credentials(q) : t # 0,
             asked  |-> [header |-> q.header, query |-> q.query]]]
  /\ since' = [since EXCEPT ![r] = {stored}]
  /\ UNCHANGED <<compatible, stored, issued, writing>>

MatchesAnyIssued(token) == token <= issued    \* mutant: an older verifier is still good

(* loadVerifier has read the document: the comparison follows at once.     *)
Matches(token) == stored # 0 /\ token = stored

Authenticate(r) ==
  /\ request[r].at = "checking"
  /\ request' = [request EXCEPT ![r].at = "answered",
                                ![r].status = IF Matches(request[r].token) THEN 200 ELSE 401]
  /\ UNCHANGED <<compatible, stored, issued, writing, since>>

(* The answer is sent and the connection may serve another request.        *)
HttpAnswered(r) ==
  /\ request[r].at = "answered"
  /\ request' = [request EXCEPT ![r] = NoRequest]
  /\ since' = [since EXCEPT ![r] = {}]
  /\ UNCHANGED <<compatible, stored, issued, writing>>

ConnectorNext ==
  \/ StartRotate
  \/ \E t \in Tokens : FinishRotate(t) \/ AbandonRotate(t)
  \/ \E r \in HttpRequests : Arrive(r) \/ Authenticate(r) \/ HttpAnswered(r)

ConnectorSpec == ConnectorInit /\ [][ConnectorNext]_connectorVars

-----------------------------------------------------------------------------
(* A request is forwarded only on a token that was current at some moment  *)
(* since it arrived, which it presented in exactly one place, the header   *)
(* unless the query is allowed to carry it: a token rotated away before    *)
(* the request came is refused, however rotations and requests interleave. *)
OnlyACurrentTokenEnters ==
  \A r \in HttpRequests :
    (request[r].at = "answered" /\ request[r].status = 200) =>
      /\ request[r].token \in since[r] \ {0}
      /\ LET q == request[r].asked IN
           \/ q.header = <<"present", request[r].token>> /\ (compatible => q.query = <<>>)
           \/ compatible /\ q.header[1] = "none" /\ q.query = <<request[r].token>>
=============================================================================
