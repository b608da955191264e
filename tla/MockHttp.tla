------------------------------- MODULE MockHttp -------------------------------
(***************************************************************************)
(* `vpd mock-http-server`: the configured routes, the authentication and   *)
(* metrics middlewares, and the handlers with their scripts                *)
(* (cmd/mock_http_server/mock_http_server.go).                             *)
(*                                                                         *)
(* gorilla/mux gives a request to the first route whose path and method    *)
(* match it, wrapped in the middlewares: authentication outside, metrics   *)
(* inside.  The authentication middleware does not know which route that   *)
(* is: it goes through all of them.  Each request is a goroutine.          *)
(***************************************************************************)
EXTENDS Integers, Sequences, FiniteSets, FiniteSetsExt, Bags

CONSTANTS Client,  \* each sends one request
          Request, \* [path, method, cred]
          Configs, \* the route lists a server may be started with
          MaxTime, \* bound of the model: seconds that pass
          None

(* A route: [name, paths, method, code, script, auth].  name is its path   *)
(* template and paths what that matches; a script has the statuses it sets *)
(* and whether it throws.                                                  *)
AuthTypes == {"", "oauth2", "basic"}
Name == (UNION {{c[i].name : i \in DOMAIN c} : c \in Configs}) \union {"/"}
Code == Int   \* what a responseCode or a script may hold

ASSUME ClockAssumption == MaxTime \in Nat
ASSUME RequestAssumption ==
  \A q \in Request : q.cred.kind = "token" => q.cred.exp \in Int \union {None}
ASSUME ConfigAssumption ==
  \A c \in Configs :
    /\ Len(c) \in Nat /\ DOMAIN c = 1..Len(c)
    /\ \A i \in DOMAIN c : /\ c[i].code \in Code
                           /\ c[i].script # None => c[i].script.calls \in Seq(Code)
ASSUME NoneAssumption == None \notin Code /\ None \notin Request

VARIABLES
  routes,   \* the configuration
  up,       \* "setup", "serving" or "dead"
  now,      \* the clock
  pc,       \* where each request is
  req,      \* the request
  since,    \* when it arrived (history)
  route,    \* the index of the route that serves it, 0 for "/"
  left,     \* the statuses its handler has still to write
  sent,     \* the status the client gets: the first one written
  status,   \* the one the metrics' responseWriter holds: the last one
  counters  \* http_requests_total, a bag of route and status

vars == <<routes, up, now, pc, req, since, route, left, sent, status, counters>>

-----------------------------------------------------------------------------
(* Matching *)

Upper(method) == IF method = "get" THEN "GET" ELSE method   \* Methods() does so
MatchesPath(r, q) == q.path \in r.paths
Matches(r, q) == MatchesPath(r, q) /\ Upper(r.method) = q.method

Matching(q) == {i \in DOMAIN routes : Matches(routes[i], q)}
Served(q) == Matching(q) # {} \/ q.path = "/"
RouteOf(q) == IF Matching(q) = {} THEN 0 ELSE Min(Matching(q))

(* Not found, or a path without this method *)
Unrouted(q) == IF \E i \in DOMAIN routes : MatchesPath(routes[i], q) THEN 405 ELSE 404

-----------------------------------------------------------------------------
(* Authentication *)

ValidateBasicAuth(cred, users) == cred.kind = "basic" /\ cred.user \in users

(* A token of three parts whose claims can be decoded, with an expiry that *)
(* is not past and every required claim; its signature is not looked at.   *)
ValidateJwtToken(cred, claims, time) ==
  /\ cred.kind = "token"
  /\ cred.exp # None /\ cred.exp >= time
  /\ claims \subseteq cred.claims

Permits(auth, cred, time) ==
  CASE auth.type = "oauth2" -> ValidateJwtToken(cred, auth.claims, time)
    [] auth.type = "basic" -> ValidateBasicAuth(cred, auth.users)
    [] OTHER -> TRUE

(* Fault: only the first route of the path is looked at, whatever its method. *)
AuthorizedByPath(q) ==
  LET same == {i \in DOMAIN routes : MatchesPath(routes[i], q)}
  IN  same = {} \/ Permits(routes[Min(same)].auth, q.cred, now)

(* The loop of AuthMiddleware: every matching route has to be satisfied.   *)
Authorized(q) == \A i \in Matching(q) : Permits(routes[i].auth, q.cred, now)

-----------------------------------------------------------------------------
(* Handlers *)

(* The statuses the handler writes, in order. *)
Statuses(i, q) ==
  IF i = 0 THEN <<200>>
  ELSE IF q.method # routes[i].method THEN <<405>>
  ELSE IF routes[i].script = None THEN <<routes[i].code>>
  ELSE routes[i].script.calls \o (IF routes[i].script.throws THEN <<500>> ELSE <<>>)

(* Fault: the responseWriter starts without a status. *)
NoDefaultStatus == None

DefaultStatus == 200

Template(i) == IF i = 0 THEN "/" ELSE routes[i].name

(* WriteHeader sends these at once, ahead of the response; the body that   *)
(* every handler writes next then makes it a 200.                          *)
Informational == (100..199) \ {101}

Init ==
  /\ routes \in Configs
  /\ up = "setup"
  /\ now = 0
  /\ pc = [c \in Client |-> "idle"]
  /\ req = [c \in Client |-> None]
  /\ since = [c \in Client |-> 0]
  /\ route = [c \in Client |-> 0]
  /\ left = [c \in Client |-> <<>>]
  /\ sent = [c \in Client |-> None]
  /\ status = [c \in Client |-> None]
  /\ counters = EmptyBag

server == <<routes, up, now>>
request == <<pc, req, since, route, left, sent, status>>
Goto(c, s) == pc' = [pc EXCEPT ![c] = s]

(* runMockHTTPServer: the file cannot be read or parsed, or a route has an *)
(* unknown authentication type.                                            *)
SetUp ==
  /\ up = "setup"
  /\ \/ up' = "dead"
     \/ /\ \A i \in DOMAIN routes : routes[i].auth.type \in AuthTypes
        /\ up' = "serving"
  /\ UNCHANGED <<routes, now, request, counters>>

(* Either port cannot be listened on: logger.Fatalf ends both servers and  *)
(* every request.                                                          *)
ListenFails ==
  /\ up = "serving"
  /\ up' = "dead"
  /\ UNCHANGED <<routes, now, request, counters>>

Tick ==
  /\ up = "serving" /\ now < MaxTime
  /\ now' = now + 1
  /\ UNCHANGED <<routes, up, request, counters>>

(* mux: without a route the request does not reach the middlewares. *)
Arrive(c, q) ==
  /\ up = "serving" /\ pc[c] = "idle"
  /\ req' = [req EXCEPT ![c] = q]
  /\ since' = [since EXCEPT ![c] = now]
  /\ IF Served(q)
     THEN /\ route' = [route EXCEPT ![c] = RouteOf(q)]
          /\ Goto(c, "auth")
          /\ UNCHANGED sent
     ELSE /\ sent' = [sent EXCEPT ![c] = Unrouted(q)]
          /\ Goto(c, "refused")
          /\ UNCHANGED route
  /\ UNCHANGED <<server, left, status, counters>>

AuthMiddleware(c) ==
  /\ up = "serving" /\ pc[c] = "auth"
  /\ IF Authorized(req[c])
     THEN /\ Goto(c, "handler")
          /\ left' = [left EXCEPT ![c] = Statuses(route[c], req[c])]
          /\ status' = [status EXCEPT ![c] = DefaultStatus]
          /\ UNCHANGED sent
     ELSE /\ Goto(c, "refused")
          /\ sent' = [sent EXCEPT ![c] = 401]
          /\ UNCHANGED <<left, status>>
  /\ UNCHANGED <<server, req, since, route, counters>>

(* net/http sends the first status, ignores the others, and panics for a   *)
(* first one that is not a status (a route without a responseCode): the    *)
(* connection is closed and nothing is counted.                            *)
Respond(c, code) ==
  IF sent[c] = None /\ code \notin 100..999
  THEN Goto(c, "aborted") /\ UNCHANGED sent
  ELSE /\ sent' = [sent EXCEPT ![c] = IF @ # None THEN @
                                     ELSE IF code \in Informational THEN 200 ELSE code]
       /\ UNCHANGED pc

(* Fault: the status is not remembered for the metrics. *)
WriteHeaderLate(c) ==
  /\ up = "serving" /\ pc[c] = "handler" /\ left[c] # <<>>
  /\ left' = [left EXCEPT ![c] = Tail(@)]
  /\ Respond(c, Head(left[c]))
  /\ UNCHANGED <<server, req, since, route, status, counters>>

(* responseWriter.WriteHeader remembers the last status. *)
WriteHeader(c) ==
  /\ up = "serving" /\ pc[c] = "handler" /\ left[c] # <<>>
  /\ left' = [left EXCEPT ![c] = Tail(@)]
  /\ status' = [status EXCEPT ![c] = Head(left[c])]
  /\ Respond(c, Head(left[c]))
  /\ UNCHANGED <<server, req, since, route, counters>>

(* The handler returns; without a status the client gets 200.  Then        *)
(* MetricsMiddleware counts.                                               *)
MetricsMiddleware(c) ==
  /\ up = "serving" /\ pc[c] = "handler" /\ left[c] = <<>>
  /\ sent' = [sent EXCEPT ![c] = IF @ = None THEN 200 ELSE @]
  /\ counters' = counters (+) SetToBag({<<Template(route[c]), status[c]>>})
  /\ Goto(c, "done")
  /\ UNCHANGED <<server, req, since, route, left, status>>

Next ==
  \/ SetUp \/ ListenFails \/ Tick
  \/ \E c \in Client :
       \/ \E q \in Request : Arrive(c, q)
       \/ AuthMiddleware(c) \/ WriteHeader(c) \/ MetricsMiddleware(c)

Spec == Init /\ [][Next]_vars

-----------------------------------------------------------------------------
(* Every variable has its type. *)
TypeOK ==
  /\ routes \in Configs
  /\ up \in {"setup", "serving", "dead"}
  /\ now \in 0..MaxTime
  /\ pc \in [Client -> {"idle", "auth", "handler", "refused", "aborted", "done"}]
  /\ req \in [Client -> Request \union {None}]
  /\ since \in [Client -> 0..MaxTime]
  /\ route \in [Client -> DOMAIN routes \union {0}]
  /\ left \in [Client -> Seq(Code)]
  /\ sent \in [Client -> Code \union {None}]
  /\ status \in [Client -> Code \union {None}]
  /\ BagToSet(counters) \subseteq Name \X Code

(* A route answers only requests that satisfy its own authentication at    *)
(* the time they arrive, although the middleware has no notion of the      *)
(* route that serves the request and matches them all anew.                *)
ServedToAuthorized ==
  \A c \in Client :
    pc[c] \in {"handler", "aborted", "done"} /\ route[c] # 0 =>
      Permits(routes[route[c]].auth, req[c].cred, since[c])

Handled == {c \in Client : pc[c] = "done"}

(* What the counters should say of a request: the status its client got,   *)
(* or, of a script that answers more than once and of an informational     *)
(* status, which the client does not get, the status written last.         *)
Answer(c) ==
  LET written == Statuses(route[c], req[c])
  IN  <<Template(route[c]),
        IF Len(written) > 1 \/ (written # <<>> /\ written[1] \in Informational)
        THEN written[Len(written)] ELSE sent[c]>>

(* The counters are the bag of the answers, whatever order the handlers    *)
(* finish in.                                                              *)
CountersTellAnswers ==
  /\ BagToSet(counters) = {Answer(c) : c \in Handled}
  /\ \A e \in BagToSet(counters) : counters[e] = Cardinality({c \in Handled : Answer(c) = e})
=============================================================================
