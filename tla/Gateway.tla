------------------------------ MODULE Gateway ------------------------------
(***************************************************************************)
(* The gateway's handler: CORS preflight, rate limit by address, whitelist,*)
(* token, rate limit by user, identity header, forward to the upstream.    *)
(* Requests are served concurrently; a request is two steps, with the      *)
(* limiter's table as the state they share.  A path, a token and a header  *)
(* are reduced to what the handler tells apart.                            *)
(***************************************************************************)
EXTENDS Integers, FiniteSets

CONSTANTS Ips, Uuids,
          Burst,         \* RateLimit.Burst
          Spent,         \* requests of each key let through so far
          Slots,         \* requests the gateway serves at a time
          MaxRequests,   \* bound on requests
          MaxRefills     \* bound on tokens that time adds to a limiter

VARIABLES
  corsEnabled, limitEnabled, keyIsUuid,   \* configuration
  clients,     \* ClientLimiter.clients: key -> tokens left
  slot,        \* per slot: the request being served, or Idle
  answers,     \* history: what each request asked for and got
  admitted,    \* history: key -> requests Allow let through
  refills,     \* history: key -> tokens time has added
  requests

gatewayVars == <<corsEnabled, limitEnabled, keyIsUuid, clients, slot, answers,
                 admitted, refills, requests>>

Idle == [at |-> "idle"]

\* "short" stands for a token of less than 20 bytes, the empty one included;
\* "bad" for one ParseToken refuses; a uuid for a valid token of that user.
Requests == [ip : Ips, method : {"OPTIONS", "GET"},
             path : {"open", "api"},
             token : {"short", "bad"} \cup Uuids, uuid : Uuids]

WhiteList == {"open"}   \* /api/auth/, /swagger/ and /api/version

-----------------------------------------------------------------------------
LimiterKeys == ({"ip"} \X Ips) \cup ({"uuid"} \X Uuids)

ASSUME LimiterAssumption == Burst \in Nat /\ Spent \in [LimiterKeys -> 0..Burst]

\* get makes a full limiter for a new key; the table never loses one.
Tokens(key) == IF key \in DOMAIN clients THEN clients[key] ELSE Burst

Put(f, key, v) == [k \in DOMAIN f \cup {key} |-> IF k = key THEN v ELSE f[k]]

Take(key) ==
  /\ Tokens(key) > 0
  /\ clients' = Put(clients, key, Tokens(key) - 1)
  /\ admitted' = [admitted EXCEPT ![key] = @ + 1]

Refused(key) == Tokens(key) = 0 /\ UNCHANGED <<clients, admitted>>

Refill(key) ==
  /\ refills[key] < MaxRefills
  /\ key \in DOMAIN clients /\ clients[key] < Burst
  /\ clients' = [clients EXCEPT ![key] = @ + 1]
  /\ refills' = [refills EXCEPT ![key] = @ + 1]
  /\ UNCHANGED <<corsEnabled, limitEnabled, keyIsUuid, slot, answers, admitted,
                 requests>>

-----------------------------------------------------------------------------
\* The answer is a status, or "forwarded" with the uuid header the upstream
\* sees.
Answer(req, result, uuid) ==
  answers' = answers \cup {[path |-> req.path, token |-> req.token,
                             result |-> result, uuid |-> uuid]}

Ends(q, req, result) == Answer(req, result, req.uuid) /\ slot' = [slot EXCEPT ![q] = Idle]

\* Whitelisted paths go on as they are.  The log line that slices the token
\* panics on a short one, before the check for an empty token.
AfterLimit(q, req) ==
  \/ req.path \in WhiteList /\ Ends(q, req, "forwarded")
  \/ req.path \notin WhiteList /\ req.token = "short" /\ Ends(q, req, "panic")
  \/ req.path \notin WhiteList /\ req.token = "bad" /\ Ends(q, req, "401")
  \/ /\ req.path \notin WhiteList /\ req.token \in Uuids
     /\ slot' = [slot EXCEPT ![q] = [at |-> "parsed", req |-> req]]
     /\ UNCHANGED answers

Arrive(q, req) ==
  /\ slot[q] = Idle
  /\ \/ /\ corsEnabled /\ req.method = "OPTIONS"
        /\ Ends(q, req, "204") /\ UNCHANGED <<clients, admitted>>
     \/ /\ ~(corsEnabled /\ req.method = "OPTIONS")
        /\ \/ limitEnabled /\ Refused(<<"ip", req.ip>>) /\ Ends(q, req, "429")
           \/ limitEnabled /\ Take(<<"ip", req.ip>>) /\ AfterLimit(q, req)
           \/ ~limitEnabled /\ UNCHANGED <<clients, admitted>> /\ AfterLimit(q, req)
  /\ UNCHANGED <<corsEnabled, limitEnabled, keyIsUuid, refills>>

Request(q, req) ==
  requests < MaxRequests /\ requests' = requests + 1 /\ Arrive(q, req)

Forward(q, uuid) ==
  LET req == slot[q].req
      key == <<"uuid", req.token>>
      limited == limitEnabled /\ keyIsUuid
  IN /\ slot[q].at = "parsed"
     /\ \/ limited /\ Refused(key) /\ Answer(req, "429", req.uuid)
        \/ limited /\ Take(key) /\ Answer(req, "forwarded", uuid)
        \/ ~limited /\ UNCHANGED <<clients, admitted>> /\ Answer(req, "forwarded", uuid)
     /\ slot' = [slot EXCEPT ![q] = Idle]
     /\ UNCHANGED <<corsEnabled, limitEnabled, keyIsUuid, refills, requests>>

\* Mutant: the header the client sent is left.
InjectAndForwardAsSent(q) == Forward(q, slot[q].req.uuid)

\* The uuid header the client sent is replaced by the token's.
InjectAndForward(q) == Forward(q, slot[q].req.token)

GatewayInit ==
  /\ corsEnabled \in BOOLEAN /\ limitEnabled \in BOOLEAN /\ keyIsUuid \in BOOLEAN
  /\ clients = [key \in {k \in LimiterKeys : Spent[k] > 0} |-> Burst - Spent[key]]
  /\ slot = [q \in Slots |-> Idle] /\ answers = {}
  /\ admitted = Spent /\ refills = [key \in LimiterKeys |-> 0]
  /\ requests = 0

GatewayNext ==
  \/ \E q \in Slots, req \in Requests : Request(q, req)
  \/ \E q \in Slots : slot[q].at = "parsed" /\ InjectAndForward(q)
  \/ \E key \in LimiterKeys : Refill(key)

-----------------------------------------------------------------------------
\* What a request gets, however requests interleave.  The upstream sees the
\* uuid of the token on every path that needs one, whatever header the client
\* sent.  Every request is answered, unless its path needs a token and the token
\* is shorter than 20 bytes: then the handler panics.  And no more requests of
\* an address, or of a user, pass than a burst and what time has added.
RequestsServedRight ==
  /\ \A a \in answers : a.path \notin WhiteList /\ a.result = "forwarded"
                           => a.uuid = a.token
  /\ \A a \in answers : a.result = "panic"
                           => a.token = "short" /\ a.path \notin WhiteList
  /\ \A key \in LimiterKeys : admitted[key] <= Burst + refills[key]
=============================================================================
