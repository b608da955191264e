---------------------------- MODULE MockHttpProofs ----------------------------
(***************************************************************************)
(* Proofs about MockHttp for any configurations, requests and clients, of  *)
(* which there may be infinitely many.                                     *)
(***************************************************************************)
EXTENDS MockHttp, TLAPS, FiniteSetTheorems, SequenceTheorems, WellFoundedInduction

-----------------------------------------------------------------------------
(* Lemmas about the operators *)

(* A set of positions has a least one. *)
LEMMA LeastIsMember ==
  ASSUME NEW n \in Nat, NEW S, S \subseteq 1..n, S # {}
  PROVE  Min(S) \in S
<1> DEFINE Below(m) == {k \in S : k <= m}
           Sets == {Below(m) : m \in S}
           R == StrictSubsetOrdering(Nat)
<1>0. S \subseteq Nat
  OBVIOUS
<1>1. ASSUME NEW m \in S
      PROVE  Below(m) \in FiniteSubsetsOf(Nat)
  <2>1. IsFiniteSet(1..n)
    BY FS_Interval
  <2>2. Below(m) \subseteq 1..n /\ Below(m) \subseteq Nat
    BY <1>0
  <2>3. IsFiniteSet(Below(m))
    BY <2>1, <2>2, FS_Subset
  <2> QED
    BY <2>2, <2>3 DEF FiniteSubsetsOf
<1>2. PICK least \in Sets : \A other \in Sets : <<other, least>> \notin R
  <2>1. IsWellFoundedOn(R, FiniteSubsetsOf(Nat))
    BY FS_StrictSubsetOrderingWellFounded
  <2>2. Sets \subseteq FiniteSubsetsOf(Nat) /\ Sets # {}
    BY <1>1
  <2> HIDE DEF Sets, R
  <2> QED
    BY <2>1, <2>2, WFMin
<1>3. PICK m \in S : least = Below(m)
  BY <1>2
<1>4. \A k \in S : m <= k
  <2> SUFFICES ASSUME NEW k \in S, k < m
               PROVE  FALSE
    OBVIOUS
  <2>0. k \in Nat /\ m \in Nat
    BY <1>0
  <2>1. m \in Below(m) /\ m \notin Below(k)
    BY <2>0
  <2>4. Below(k) \subseteq Below(m)
    <3> SUFFICES ASSUME NEW i \in Below(k)
                 PROVE  i \in Below(m)
      OBVIOUS
    <3>1. i \in S /\ i \in Nat /\ i <= k
      BY <1>0
    <3>2. i <= m
      BY <2>0, <3>1
    <3> QED
      BY <3>1, <3>2
  <2>2. Below(k) \in SUBSET Nat /\ Below(m) \in SUBSET Nat
    BY <1>1 DEF FiniteSubsetsOf
  <2>3. <<Below(k), Below(m)>> \notin R
    BY <1>2, <1>3
  <2> HIDE DEF Below
  <2> QED
    BY <2>1, <2>2, <2>3, <2>4 DEF StrictSubsetOrdering
<1> QED
  BY <1>4 DEF Min

(* The router chooses one of the routes that match. *)
LEMMA RouteIsMatching ==
  ASSUME routes \in Configs, NEW q, Matching(q) # {}
  PROVE  RouteOf(q) \in Matching(q)
<1>1. Len(routes) \in Nat /\ Matching(q) \subseteq 1..Len(routes)
  BY ConfigAssumption DEF Matching
<1> QED
  BY <1>1, LeastIsMember DEF RouteOf

LEMMA StatusesAreCodes ==
  ASSUME routes \in Configs, NEW i \in DOMAIN routes \union {0}, NEW q
  PROVE  Statuses(i, q) \in Seq(Code)
<1>1. i # 0 => /\ routes[i].code \in Code
               /\ routes[i].script # None => routes[i].script.calls \in Seq(Code)
  BY ConfigAssumption
<1>2. <<200>> \in Seq(Code) /\ <<405>> \in Seq(Code) /\ <<500>> \in Seq(Code) /\ <<>> \in Seq(Code)
  BY DEF Code
<1>3. i # 0 => <<routes[i].code>> \in Seq(Code)
  BY <1>1
<1>4. ASSUME NEW s \in Seq(Code), NEW t \in Seq(Code)
      PROVE  s \o t \in Seq(Code)
  OBVIOUS
<1>5. i # 0 /\ routes[i].script # None =>
        routes[i].script.calls \o (IF routes[i].script.throws THEN <<500>> ELSE <<>>) \in Seq(Code)
  BY <1>1, <1>2, <1>4
<1> QED
  BY <1>2, <1>3, <1>5 DEF Statuses

LEMMA TemplateIsName ==
  ASSUME routes \in Configs, NEW i \in DOMAIN routes \union {0}
  PROVE  Template(i) \in Name
  BY DEF Template, Name

(* A token that has not expired now had not expired before. *)
LEMMA PermittedBefore ==
  ASSUME NEW q \in Request, NEW auth, NEW time \in Int, NEW before \in Int, before <= time,
         Permits(auth, q.cred, time)
  PROVE  Permits(auth, q.cred, before)
<1>1. ASSUME NEW claims, ValidateJwtToken(q.cred, claims, time)
      PROVE  ValidateJwtToken(q.cred, claims, before)
  <2>1. q.cred.exp \in Int
    BY <1>1, RequestAssumption DEF ValidateJwtToken
  <2> QED
    BY <1>1, <2>1 DEF ValidateJwtToken
<1> QED
  BY <1>1 DEF Permits

-----------------------------------------------------------------------------
(* The inductive invariant *)

Written(c) == Statuses(route[c], req[c])

(* Where a request is says what is known of it. *)
Routed(c) ==
  /\ pc[c] # "idle" => req[c] \in Request /\ since[c] <= now
  /\ route[c] # 0 => route[c] \in Matching(req[c])
  /\ pc[c] = "idle" => route[c] = 0
  /\ pc[c] \in {"idle", "auth"} => sent[c] = None

Permitted(c) ==
  pc[c] \in {"handler", "aborted", "done"} /\ route[c] # 0 =>
    Permits(routes[route[c]].auth, req[c].cred, since[c])

(* A handler has written the statuses that are not left: the client gets   *)
(* the first, the metrics remember the last.                               *)
Progress(c) ==
  LET n == Len(Written(c)) - Len(left[c])
  IN  /\ n \in Nat
      /\ \A i \in 1..Len(left[c]) : left[c][i] = Written(c)[i + n]
      /\ n = 0 => sent[c] = None /\ status[c] = 200
      /\ n # 0 => /\ sent[c] = IF Written(c)[1] \in Informational THEN 200 ELSE Written(c)[1]
                  /\ status[c] = Written(c)[n]

Counted(c) == Answer(c) = <<Template(route[c]), status[c]>>

Known(c) == /\ Routed(c) /\ Permitted(c)
            /\ pc[c] = "handler" => Progress(c)
            /\ pc[c] = "done" => Counted(c)

Tally == IsFiniteSet(Handled) /\ CountersTellAnswers

Inv == TypeOK /\ (\A c \in Client : Known(c)) /\ Tally

-----------------------------------------------------------------------------
LEMMA InitInv == Init => Inv
<1> SUFFICES ASSUME Init
             PROVE  Inv
  OBVIOUS
<1>1. Handled = {}
  BY DEF Init, Handled
<1>2. BagToSet(counters) = {}
  BY DEF Init, BagToSet, EmptyBag, SetToBag
<1>3. TypeOK
  <2>1. 0 \in 0..MaxTime
    BY ClockAssumption
  <2>2. \A c \in Client : <<>> \in Seq(Code)
    OBVIOUS
  <2> QED
    BY <1>2, <2>1 DEF Init, TypeOK
<1>4. ASSUME NEW c \in Client
      PROVE  Known(c)
  BY DEF Init, Known, Routed, Permitted
<1>5. Tally
  BY <1>1, <1>2, FS_EmptySet DEF Tally, CountersTellAnswers
<1> QED
  BY <1>3, <1>4, <1>5 DEF Inv

(* A step of one request, by what it leaves alone. *)
Only(c) ==
  /\ \A d \in Client \ {c} : /\ pc'[d] = pc[d] /\ req'[d] = req[d] /\ since'[d] = since[d]
                             /\ route'[d] = route[d] /\ left'[d] = left[d]
                             /\ sent'[d] = sent[d] /\ status'[d] = status[d]
  /\ routes' = routes /\ up' = up /\ now' = now

Step(c) == (\E q \in Request : Arrive(c, q)) \/ AuthMiddleware(c) \/ WriteHeader(c) \/ MetricsMiddleware(c)

LEMMA StepIsLocal ==
  ASSUME TypeOK, NEW c \in Client, Step(c)
  PROVE  /\ Only(c)
         /\ up = "serving"
         /\ pc[c] # "done"
<1>1. ASSUME NEW q \in Request, Arrive(c, q)
      PROVE  Only(c) /\ up = "serving" /\ pc[c] # "done"
  BY <1>1 DEF TypeOK, Arrive, Only, server, Goto
<1>2. ASSUME AuthMiddleware(c)
      PROVE  Only(c) /\ up = "serving" /\ pc[c] # "done"
  BY <1>2 DEF TypeOK, AuthMiddleware, Only, server, Goto
<1>3. ASSUME WriteHeader(c)
      PROVE  Only(c) /\ up = "serving" /\ pc[c] # "done"
  <2>1. \A d \in Client \ {c} : sent'[d] = sent[d] /\ pc'[d] = pc[d]
    <3>1. sent' = sent \/ \E code : sent' = [sent EXCEPT ![c] = code]
      BY <1>3 DEF WriteHeader, Respond
    <3>2. pc' = pc \/ pc' = [pc EXCEPT ![c] = "aborted"]
      BY <1>3 DEF WriteHeader, Respond, Goto
    <3> QED
      BY <3>1, <3>2 DEF TypeOK
  <2>2. \A d \in Client \ {c} : left'[d] = left[d] /\ status'[d] = status[d]
    BY <1>3 DEF TypeOK, WriteHeader
  <2> QED
    BY <1>3, <2>1, <2>2 DEF WriteHeader, Only, server
<1>4. ASSUME MetricsMiddleware(c)
      PROVE  Only(c) /\ up = "serving" /\ pc[c] # "done"
  BY <1>4 DEF TypeOK, MetricsMiddleware, Only, server, Goto
<1> QED
  BY <1>1, <1>2, <1>3, <1>4 DEF Step

(* The steps of the server leave requests alone, and time goes on. *)
Serving == SetUp \/ ListenFails \/ Tick

LEMMA ServingLeaves ==
  ASSUME TypeOK, Serving
  PROVE  /\ UNCHANGED <<routes, request, counters>>
         /\ now \in Int /\ now' \in 0..MaxTime /\ now <= now'
         /\ up' \in {"setup", "serving", "dead"}
<1>1. now \in 0..MaxTime /\ MaxTime \in Nat /\ up \in {"setup", "serving", "dead"}
  BY ClockAssumption DEF TypeOK
<1>2. CASE SetUp
  BY <1>1, <1>2 DEF SetUp
<1>3. CASE ListenFails
  BY <1>1, <1>3 DEF ListenFails
<1>4. CASE Tick
  BY <1>1, <1>4 DEF Tick
<1> QED
  BY <1>2, <1>3, <1>4 DEF Serving

-----------------------------------------------------------------------------
(* Types *)

Place == {"idle", "auth", "handler", "refused", "aborted", "done"}

(* The status that is counted is always one. *)
LEMMA StatusIsCode ==
  ASSUME TypeOK, NEW c \in Client, Progress(c)
  PROVE  /\ status[c] \in Code
         /\ Written(c) \in Seq(Code)
<1>1. Written(c) \in Seq(Code)
  BY StatusesAreCodes DEF TypeOK, Written
<1>2. left[c] \in Seq(Code) /\ Len(left[c]) \in Nat /\ Len(Written(c)) \in Nat
  BY <1>1 DEF TypeOK
<1> DEFINE n == Len(Written(c)) - Len(left[c])
<1>3. n \in Nat /\ n <= Len(Written(c))
  BY <1>2 DEF Progress
<1>4. n # 0 => Written(c)[n] \in Code
  BY <1>1, <1>3
<1>5. n = 0 => status[c] \in Code
  BY DEF Progress, Code
<1>6. n # 0 => status[c] = Written(c)[n]
  BY DEF Progress
<1> QED
  BY <1>1, <1>4, <1>5, <1>6

LEMMA ArriveTypes ==
  ASSUME TypeOK, NEW c \in Client, NEW q \in Request, Arrive(c, q)
  PROVE  TypeOK'
<1>1. RouteOf(q) \in DOMAIN routes \union {0}
  BY RouteIsMatching DEF TypeOK, RouteOf, Matching
<1>2. Unrouted(q) \in Code
  BY DEF Unrouted, Code
<1>3. route' \in [Client -> DOMAIN routes \union {0}] /\ sent' \in [Client -> Code \union {None}]
  <2>1. route' = route \/ route' = [route EXCEPT ![c] = RouteOf(q)]
    BY DEF Arrive
  <2>2. sent' = sent \/ sent' = [sent EXCEPT ![c] = Unrouted(q)]
    BY DEF Arrive
  <2> QED
    BY <1>1, <1>2, <2>1, <2>2 DEF TypeOK
<1>4. pc' \in [Client -> Place]
  <2>1. pc' = [pc EXCEPT ![c] = "auth"] \/ pc' = [pc EXCEPT ![c] = "refused"]
    BY DEF Arrive, Goto
  <2> QED
    BY <2>1 DEF TypeOK, Place
<1>5. req' \in [Client -> Request \union {None}] /\ since' \in [Client -> 0..MaxTime]
  BY DEF Arrive, TypeOK
<1>6. UNCHANGED <<routes, up, now, left, status, counters>>
  BY DEF Arrive, server
<1> QED
  BY <1>3, <1>4, <1>5, <1>6 DEF TypeOK, Place

LEMMA AuthTypesOK ==
  ASSUME TypeOK, NEW c \in Client, AuthMiddleware(c)
  PROVE  TypeOK'
<1>1. Statuses(route[c], req[c]) \in Seq(Code)
  BY StatusesAreCodes DEF TypeOK
<1>2. DefaultStatus \in Code /\ 401 \in Code
  BY DEF DefaultStatus, Code
<1>3. left' = left \/ left' = [left EXCEPT ![c] = Statuses(route[c], req[c])]
  BY DEF AuthMiddleware
<1>4. status' = status \/ status' = [status EXCEPT ![c] = DefaultStatus]
  BY DEF AuthMiddleware
<1>5. sent' = sent \/ sent' = [sent EXCEPT ![c] = 401]
  BY DEF AuthMiddleware
<1>6. pc' = [pc EXCEPT ![c] = "handler"] \/ pc' = [pc EXCEPT ![c] = "refused"]
  BY DEF AuthMiddleware, Goto
<1>7. left' \in [Client -> Seq(Code)]
  BY <1>1, <1>3 DEF TypeOK
<1>8. sent' \in [Client -> Code \union {None}] /\ status' \in [Client -> Code \union {None}]
  <2>1. sent \in [Client -> Code \union {None}] /\ status \in [Client -> Code \union {None}]
    BY DEF TypeOK
  <2>2. sent' \in [Client -> Code \union {None}]
    BY <2>1, <1>2, <1>5
  <2>3. status' \in [Client -> Code \union {None}]
    BY <2>1, <1>2, <1>4
  <2> QED
    BY <2>2, <2>3
<1>9. pc' \in [Client -> Place]
  BY <1>6 DEF TypeOK, Place
<1>10. UNCHANGED <<routes, up, now, req, since, route, counters>>
  BY DEF AuthMiddleware, server
<1> QED
  BY <1>7, <1>8, <1>9, <1>10 DEF TypeOK, Place

LEMMA WriteTypes ==
  ASSUME TypeOK, NEW c \in Client, WriteHeader(c)
  PROVE  TypeOK'
<1>1. left[c] \in Seq(Code) /\ left[c] # <<>>
  BY DEF TypeOK, WriteHeader
<1>2. Head(left[c]) \in Code /\ Tail(left[c]) \in Seq(Code) /\ 200 \in Code
  BY <1>1 DEF Code
<1>3. left' \in [Client -> Seq(Code)] /\ status' \in [Client -> Code \union {None}]
  BY <1>2 DEF TypeOK, WriteHeader
<1>4. \/ sent' = sent /\ pc' = [pc EXCEPT ![c] = "aborted"]
      \/ pc' = pc /\ \E code \in Code \union {None} : sent' = [sent EXCEPT ![c] = code]
  <2>1. sent[c] \in Code \union {None}
    BY DEF TypeOK
  <2> QED
    BY <1>2, <2>1 DEF WriteHeader, Respond, Goto
<1>5. sent' \in [Client -> Code \union {None}] /\ pc' \in [Client -> Place]
  BY <1>4 DEF TypeOK, Place
<1>6. UNCHANGED <<routes, up, now, req, since, route, counters>>
  BY DEF WriteHeader, server
<1> QED
  BY <1>3, <1>5, <1>6 DEF TypeOK, Place

LEMMA MetricsTypes ==
  ASSUME TypeOK, NEW c \in Client, MetricsMiddleware(c), Progress(c)
  PROVE  TypeOK'
<1> DEFINE e == <<Template(route[c]), status[c]>>
<1>1. e \in Name \X Code
  BY StatusIsCode, TemplateIsName DEF TypeOK
<1>2. DOMAIN counters' = DOMAIN counters \union {e}
  BY DEF MetricsMiddleware, (+), SetToBag
<1>3. BagToSet(counters') \subseteq Name \X Code
  BY <1>1, <1>2 DEF TypeOK, BagToSet
<1>4. sent' = sent \/ sent' = [sent EXCEPT ![c] = 200]
  BY DEF MetricsMiddleware, TypeOK
<1>5. pc' = [pc EXCEPT ![c] = "done"]
  BY DEF MetricsMiddleware, Goto
<1>6. pc' \in [Client -> Place] /\ sent' \in [Client -> Code \union {None}]
  <2>1. sent \in [Client -> Code \union {None}] /\ 200 \in Code
    BY DEF TypeOK, Code
  <2>2. sent' \in [Client -> Code \union {None}]
    BY <2>1, <1>4
  <2> QED
    BY <2>2, <1>5 DEF TypeOK, Place
<1>7. UNCHANGED <<routes, up, now, req, since, route, left, status>>
  BY DEF MetricsMiddleware, server
<1> QED
  BY <1>3, <1>6, <1>7 DEF TypeOK, Place

LEMMA NextTypes == Inv /\ [Next]_vars => TypeOK'
<1> SUFFICES ASSUME Inv, [Next]_vars
             PROVE  TypeOK'
  OBVIOUS
<1> USE DEF Inv
<1>1. CASE Serving
  BY <1>1, ServingLeaves DEF TypeOK, request
<1>2. ASSUME NEW c \in Client, Step(c)
      PROVE  TypeOK'
  <2>1. MetricsMiddleware(c) => Progress(c)
    BY DEF Known, MetricsMiddleware
  <2> QED
    BY <1>2, <2>1, ArriveTypes, AuthTypesOK, WriteTypes, MetricsTypes DEF Step
<1>3. CASE UNCHANGED vars
  BY <1>3 DEF TypeOK, vars
<1> QED
  BY <1>1, <1>2, <1>3 DEF Next, Serving, Step

-----------------------------------------------------------------------------
(* What is known of each request *)

Unmoved(d) == /\ pc'[d] = pc[d] /\ req'[d] = req[d] /\ since'[d] = since[d] /\ route'[d] = route[d]
              /\ left'[d] = left[d] /\ sent'[d] = sent[d] /\ status'[d] = status[d]

LEMMA SameWritten ==
  ASSUME routes' = routes, NEW d, route'[d] = route[d], req'[d] = req[d]
  PROVE  /\ Written(d)' = Written(d)
         /\ Matching(req[d])' = Matching(req[d])
         /\ Template(route[d])' = Template(route[d])
         /\ sent'[d] = sent[d] => Answer(d)' = Answer(d)
<1>1. Statuses(route[d], req[d])' = Statuses(route[d], req[d])
  BY DEF Statuses
<1>2. Template(route[d])' = Template(route[d])
  BY DEF Template
<1>3. Matching(req[d])' = Matching(req[d])
  BY DEF Matching, Matches, MatchesPath, Upper
<1> QED
  BY <1>1, <1>2, <1>3 DEF Written, Answer

LEMMA UnmovedKnown ==
  ASSUME routes' = routes, now \in Int, now' \in Int, now <= now',
         NEW d \in Client, since[d] \in Int, Unmoved(d), Known(d)
  PROVE  Known(d)'
<1>1. Routed(d)'
  BY SameWritten DEF Known, Routed, Unmoved
<1>2. Permitted(d)'
  BY DEF Known, Permitted, Unmoved
<1>3. (pc[d] = "handler" => Progress(d))'
  BY SameWritten DEF Known, Progress, Unmoved
<1>4. (pc[d] = "done" => Counted(d))'
  BY SameWritten DEF Known, Counted, Unmoved
<1> QED
  BY <1>1, <1>2, <1>3, <1>4 DEF Known

LEMMA ArriveKnown ==
  ASSUME TypeOK, NEW c \in Client, NEW q \in Request, Arrive(c, q), Known(c)
  PROVE  Known(c)'
<1>1. pc[c] = "idle" /\ route[c] = 0 /\ sent[c] = None
  BY DEF Arrive, Known, Routed
<1>2. req'[c] = q /\ since'[c] = now /\ now' = now /\ now \in Int /\ routes' = routes
  BY DEF Arrive, TypeOK, server
<1>3. \/ pc'[c] = "auth" /\ route'[c] = RouteOf(q) /\ sent'[c] = sent[c]
      \/ pc'[c] = "refused" /\ route'[c] = 0
  BY <1>1 DEF Arrive, Goto, TypeOK
<1>4. RouteOf(q) # 0 => RouteOf(q) \in Matching(q)
  BY RouteIsMatching DEF RouteOf, TypeOK
<1>5. Matching(req[c])' = Matching(q)
  BY <1>2 DEF Matching, Matches, MatchesPath, Upper
<1>6. Routed(c)'
  BY <1>1, <1>2, <1>3, <1>4, <1>5 DEF Routed
<1> QED
  BY <1>3, <1>6 DEF Known, Permitted

LEMMA AuthKnown ==
  ASSUME TypeOK, NEW c \in Client, AuthMiddleware(c), Known(c)
  PROVE  Known(c)'
<1>1. /\ pc[c] = "auth" /\ sent[c] = None /\ req[c] \in Request /\ since[c] <= now
      /\ route[c] # 0 => route[c] \in Matching(req[c])
  BY DEF AuthMiddleware, Known, Routed
<1>2. /\ routes' = routes /\ now' = now /\ now \in Int /\ since[c] \in Int
      /\ route' = route /\ req' = req /\ since' = since
  BY DEF AuthMiddleware, server, TypeOK
<1>3. \/ pc'[c] = "refused"
      \/ /\ pc'[c] = "handler" /\ sent'[c] = None
         /\ left'[c] = Written(c) /\ status'[c] = 200
         /\ Authorized(req[c])
  BY <1>1 DEF AuthMiddleware, Goto, TypeOK, Written, DefaultStatus
<1>4. Routed(c)'
  BY <1>1, <1>2, <1>3, SameWritten DEF Routed
<1>5. Permitted(c)'
  <2>1. Authorized(req[c]) /\ route[c] # 0 => Permits(routes[route[c]].auth, req[c].cred, now)
    BY <1>1 DEF Authorized
  <2> QED
    BY <1>1, <1>2, <1>3, <2>1, PermittedBefore DEF Permitted
<1>6. (pc[c] = "handler" => Progress(c))'
  <2>1. Written(c) \in Seq(Code)
    BY StatusesAreCodes DEF Written, TypeOK
  <2>2. Written(c)' = Written(c)
    BY <1>2, SameWritten
  <2> QED
    BY <1>3, <2>1, <2>2 DEF Progress
<1> QED
  BY <1>3, <1>4, <1>5, <1>6 DEF Known

LEMMA WriteKnown ==
  ASSUME TypeOK, NEW c \in Client, WriteHeader(c), Known(c)
  PROVE  Known(c)'
<1>1. /\ pc[c] = "handler" /\ Progress(c)
      /\ req[c] \in Request /\ since[c] <= now
      /\ route[c] # 0 => route[c] \in Matching(req[c])
  BY DEF WriteHeader, Known, Routed
<1>2. /\ routes' = routes /\ now' = now
      /\ route' = route /\ req' = req /\ since' = since
  BY DEF WriteHeader, server
<1>3. /\ left[c] \in Seq(Code) /\ left[c] # <<>> /\ left'[c] = Tail(left[c])
      /\ status'[c] = left[c][1]
  BY DEF WriteHeader, TypeOK
<1>4. \/ pc'[c] = "aborted"
      \/ /\ pc'[c] = "handler"
         /\ sent'[c] = IF sent[c] # None THEN sent[c]
                       ELSE IF left[c][1] \in Informational THEN 200 ELSE left[c][1]
  BY <1>1 DEF WriteHeader, Respond, Goto, TypeOK
<1>5. Routed(c)'
  BY <1>1, <1>2, <1>4, SameWritten DEF Routed
<1>6. Permitted(c)'
  BY <1>1, <1>2, <1>4 DEF Known, Permitted
<1>7. (pc[c] = "handler" => Progress(c))'
  <2> SUFFICES ASSUME pc'[c] = "handler"
               PROVE  Progress(c)'
    OBVIOUS
  <2> DEFINE n == Len(Written(c)) - Len(left[c])
             W == Written(c)
  <2>0. sent'[c] = IF sent[c] # None THEN sent[c]
                   ELSE IF left[c][1] \in Informational THEN 200 ELSE left[c][1]
    BY <1>4
  <2>1. W \in Seq(Code) /\ Len(W) \in Nat /\ Len(left[c]) \in Nat /\ Len(left[c]) >= 1
    <3>1. W \in Seq(Code)
      BY StatusesAreCodes DEF Written, TypeOK
    <3>2. Len(left[c]) \in Nat /\ Len(left[c]) >= 1
      BY <1>3
    <3> HIDE DEF W
    <3> QED
      BY <3>1, <3>2
  <2>2. n \in Nat /\ left[c][1] = W[1 + n] /\ (n = 0 <=> sent[c] = None)
    <3>1. n \in Nat /\ \A i \in 1..Len(left[c]) : left[c][i] = W[i + n]
      BY <1>1 DEF Progress
    <3>2. n # 0 => sent[c] # None
      <4>1. n # 0 => W[1] \in Code
        BY <2>1, <3>1
      <4>2. n # 0 => sent[c] = IF W[1] \in Informational THEN 200 ELSE W[1]
        BY <1>1 DEF Progress
      <4>3. None \notin Code /\ 200 \in Code
        BY NoneAssumption DEF Code
      <4> QED
        BY <4>1, <4>2, <4>3
    <3>3. n = 0 => sent[c] = None
      BY <1>1 DEF Progress
    <3>4. 1 \in 1..Len(left[c])
      BY <2>1
    <3>5. left[c][1] = W[1 + n]
      BY <3>1, <3>4
    <3> HIDE DEF n, W
    <3> QED
      BY <3>1, <3>2, <3>3, <3>5
  <2>3. Len(left'[c]) = Len(left[c]) - 1 /\ \A i \in 1..Len(left'[c]) : left'[c][i] = left[c][i + 1]
    BY <1>3
  <2>4. Written(c)' = W
    BY <1>2, SameWritten
  <2>5. Len(Written(c)') - Len(left'[c]) = n + 1
    BY <2>1, <2>3, <2>4
  <2>6. \A i \in 1..Len(left'[c]) : left'[c][i] = W[i + (n + 1)]
    <3> SUFFICES ASSUME NEW i \in 1..Len(left'[c])
                 PROVE  left'[c][i] = W[i + (n + 1)]
      OBVIOUS
    <3>1. i + 1 \in 1..Len(left[c])
      BY <2>1, <2>3
    <3>2. left[c][i + 1] = W[(i + 1) + n]
      BY <1>1, <3>1 DEF Progress
    <3>3. (i + 1) + n = i + (n + 1)
      BY <2>2, <3>1
    <3> QED
      BY <2>3, <3>2, <3>3
  <2>7. status'[c] = W[n + 1]
    <3>1. 1 + n = n + 1
      BY <2>2
    <3> HIDE DEF n, W
    <3> QED
      BY <1>3, <2>2, <3>1
  <2>8. sent'[c] = IF W[1] \in Informational THEN 200 ELSE W[1]
    <3>1. CASE n = 0
      <4>1. left[c][1] = W[1] /\ sent[c] = None
        <5>1. 1 + n = 1
          BY <3>1
        <5> HIDE DEF n, W
        <5> QED
          BY <2>2, <3>1, <5>1
      <4> QED
        BY <1>4, <2>0, <4>1
    <3>2. CASE n # 0
      <4>1. sent[c] = IF W[1] \in Informational THEN 200 ELSE W[1]
        BY <1>1, <3>2 DEF Progress
      <4> QED
        BY <1>4, <2>2, <3>2, <4>1
    <3> QED
      BY <3>1, <3>2
  <2>9. n + 1 \in Nat /\ n + 1 # 0
    BY <2>2
  <2> QED
    BY ONLY <2>4, <2>5, <2>6, <2>7, <2>8, <2>9 DEF Progress
<1> QED
  BY <1>4, <1>5, <1>6, <1>7 DEF Known

(* When a handler has returned, the metrics count what they remember: that *)
(* is the answer.                                                          *)
LEMMA MetricsKnown ==
  ASSUME TypeOK, NEW c \in Client, MetricsMiddleware(c), Known(c)
  PROVE  Known(c)' /\ Counted(c)'
<1>1. /\ pc[c] = "handler" /\ Progress(c) /\ left[c] = <<>>
      /\ req[c] \in Request /\ since[c] <= now
      /\ route[c] # 0 => route[c] \in Matching(req[c])
  BY DEF MetricsMiddleware, Known, Routed
<1>2. /\ routes' = routes /\ now' = now
      /\ route' = route /\ req' = req /\ since' = since /\ status' = status
  BY DEF MetricsMiddleware, server
<1>3. /\ pc'[c] = "done"
      /\ sent'[c] = IF sent[c] = None THEN 200 ELSE sent[c]
  BY DEF MetricsMiddleware, Goto, TypeOK
<1>4. Routed(c)' /\ Permitted(c)'
  BY <1>1, <1>2, <1>3, SameWritten DEF Routed, Known, Permitted
<1>5. Counted(c)'
  <2> DEFINE W == Written(c)
             first == IF W[1] \in Informational THEN 200 ELSE W[1]
  <2>1. W \in Seq(Code) /\ Len(W) \in Nat /\ Len(left[c]) = 0
    <3>1. W \in Seq(Code)
      BY StatusesAreCodes DEF Written, TypeOK
    <3> HIDE DEF W
    <3> QED
      BY <1>1, <3>1
  <2>2. /\ Len(W) = 0 => sent[c] = None /\ status[c] = 200
        /\ Len(W) # 0 => sent[c] = first /\ status[c] = W[Len(W)]
    BY <1>1, <2>1 DEF Progress
  <2>3. Len(W) # 0 => W[1] \in Code
    BY <2>1
  <2>4. None \notin Code /\ 200 \in Code
    BY NoneAssumption DEF Code
  <2>5. Len(W) # 0 => sent'[c] = first
    BY <1>3, <2>2, <2>3, <2>4
  <2>6. Len(W) = 0 => sent'[c] = 200
    BY <1>3, <2>2
  <2>7. Written(c)' = W /\ Template(route[c])' = Template(route[c])
    BY <1>2, SameWritten
  <2>8. Answer(c)' = <<Template(route[c]),
          IF Len(W) > 1 \/ (W # <<>> /\ W[1] \in Informational) THEN W[Len(W)] ELSE sent'[c]>>
    BY <2>7 DEF Answer, Written
  <2>9. W = <<>> <=> Len(W) = 0
    BY <2>1
  <2> HIDE DEF W
  <2>10. CASE Len(W) = 0
    BY <1>2, <2>2, <2>6, <2>7, <2>8, <2>9, <2>10 DEF Counted
  <2>11. CASE Len(W) = 1
    BY <1>2, <2>2, <2>5, <2>7, <2>8, <2>9, <2>11 DEF Counted
  <2>12. CASE Len(W) > 1
    BY <1>2, <2>1, <2>2, <2>7, <2>8, <2>12 DEF Counted
  <2> QED
    BY <2>1, <2>10, <2>11, <2>12
<1> QED
  BY <1>3, <1>4, <1>5 DEF Known

(* Whatever step is taken, the requests that have been answered stay       *)
(* answered with the same status.                                          *)
LEMMA NextKnown ==
  ASSUME Inv, [Next]_vars
  PROVE  /\ \A c \in Client : Known(c)'
         /\ \A c \in Handled : c \in Handled' /\ Answer(c)' = Answer(c)
<1> USE DEF Inv
<1>1. ASSUME routes' = routes, now \in Int, now' \in Int, now <= now',
             NEW d \in Client, Unmoved(d)
      PROVE  /\ Known(d)'
             /\ d \in Handled => d \in Handled' /\ Answer(d)' = Answer(d)
             /\ d \in Handled' => d \in Handled
  <2>1. since[d] \in Int
    BY DEF TypeOK
  <2>2. Known(d)'
    BY <1>1, <2>1, UnmovedKnown
  <2>3. Answer(d)' = Answer(d)
    BY <1>1, SameWritten DEF Unmoved
  <2> QED
    BY <1>1, <2>2, <2>3 DEF Handled, Unmoved
<1>2. CASE Serving
  <2>1. routes' = routes /\ now \in Int /\ now' \in Int /\ now <= now'
    BY <1>2, ServingLeaves
  <2>2. \A d \in Client : Unmoved(d)
    BY <1>2, ServingLeaves DEF Unmoved, request
  <2>3. Handled \subseteq Client
    BY DEF Handled
  <2> QED
    BY <1>1, <2>1, <2>2, <2>3
<1>3. ASSUME NEW c \in Client, Step(c)
      PROVE  /\ \A d \in Client : Known(d)'
             /\ \A d \in Handled : d \in Handled' /\ Answer(d)' = Answer(d)
  <2>1. Only(c) /\ pc[c] # "done"
    BY <1>3, StepIsLocal
  <2>2. routes' = routes /\ now \in Int /\ now' \in Int /\ now <= now'
    BY <2>1 DEF Only, TypeOK
  <2>3. \A d \in Client \ {c} : Unmoved(d)
    BY <2>1 DEF Only, Unmoved
  <2>4. Known(c)'
    BY <1>3, ArriveKnown, AuthKnown, WriteKnown, MetricsKnown DEF Step
  <2>5. Handled \subseteq Client \ {c}
    BY <2>1 DEF Handled
  <2> QED
    BY <1>1, <2>2, <2>3, <2>4, <2>5
<1>4. CASE UNCHANGED vars
  <2>1. routes' = routes /\ now \in Int /\ now' \in Int /\ now <= now'
    BY <1>4 DEF vars, TypeOK
  <2>2. \A d \in Client : Unmoved(d)
    BY <1>4 DEF Unmoved, vars
  <2>3. Handled \subseteq Client
    BY DEF Handled
  <2> QED
    BY <1>1, <2>1, <2>2, <2>3
<1> QED
  BY <1>2, <1>3, <1>4 DEF Next, Serving, Step

-----------------------------------------------------------------------------
(* The counters *)

(* Only the metrics middleware adds to the requests that are handled and   *)
(* to the counters.                                                        *)
LEMMA OnlyMetricsCount ==
  ASSUME Inv, [Next]_vars
  PROVE  \/ Handled' = Handled /\ counters' = counters
         \/ \E c \in Client : MetricsMiddleware(c)
<1> USE DEF Inv
<1>1. CASE Serving
  BY <1>1, ServingLeaves DEF Handled, request
<1>2. ASSUME NEW c \in Client, Step(c), ~MetricsMiddleware(c)
      PROVE  Handled' = Handled /\ counters' = counters
  <2>1. Only(c) /\ pc[c] # "done"
    BY <1>2, StepIsLocal
  <2>2. pc'[c] # "done" /\ counters' = counters
    <3>1. ASSUME NEW q \in Request, Arrive(c, q)
          PROVE  pc'[c] # "done" /\ counters' = counters
      BY <3>1 DEF Arrive, Goto, TypeOK
    <3>2. ASSUME AuthMiddleware(c)
          PROVE  pc'[c] # "done" /\ counters' = counters
      BY <3>2 DEF AuthMiddleware, Goto, TypeOK
    <3>3. ASSUME WriteHeader(c)
          PROVE  pc'[c] # "done" /\ counters' = counters
      <4>1. pc' = pc \/ pc' = [pc EXCEPT ![c] = "aborted"]
        BY <3>3 DEF WriteHeader, Respond, Goto
      <4>2. pc'[c] # "done"
        BY <2>1, <4>1 DEF TypeOK
      <4> QED
        BY <3>3, <4>2 DEF WriteHeader
    <3> QED
      BY <1>2, <3>1, <3>2, <3>3 DEF Step
  <2>3. \A d \in Client : pc'[d] = "done" <=> pc[d] = "done"
    BY <2>1, <2>2 DEF Only
  <2> QED
    BY <2>2, <2>3 DEF Handled
<1>3. CASE UNCHANGED vars
  BY <1>3 DEF Handled, vars
<1> QED
  BY <1>1, <1>2, <1>3 DEF Next, Serving, Step

(* One request more with answer e raises the counter of e and no other. *)
LEMMA TallyStep ==
  ASSUME Tally, NEW c \in Client, c \notin Handled, Handled' = Handled \union {c},
         \A d \in Handled : Answer(d)' = Answer(d),
         counters' = counters (+) SetToBag({Answer(c)'})
  PROVE  Tally'
<1> DEFINE e == Answer(c)'
           of(x) == {d \in Handled : Answer(d) = x}
           of2(x) == {d \in Handled' : Answer(d)' = x}
<1>1. /\ DOMAIN counters = {Answer(d) : d \in Handled}
      /\ \A x \in DOMAIN counters : counters[x] = Cardinality(of(x))
  BY DEF Tally, CountersTellAnswers, BagToSet
<1>2. /\ DOMAIN counters' = DOMAIN counters \union {e}
      /\ \A x \in DOMAIN counters' :
           counters'[x] = (IF x \in DOMAIN counters THEN counters[x] ELSE 0) + (IF x = e THEN 1 ELSE 0)
  BY DEF (+), SetToBag
<1>3. IsFiniteSet(Handled)
  BY DEF Tally
<1>4. IsFiniteSet(Handled')
  BY <1>3, FS_AddElement
<1>5. ASSUME NEW x
      PROVE  IsFiniteSet(of(x)) /\ Cardinality(of(x)) \in Nat /\ c \notin of(x)
  <2>1. of(x) \subseteq Handled
    OBVIOUS
  <2> QED
    BY <2>1, <1>3, FS_Subset, FS_CardinalityType
<1>6. of2(e) = of(e) \union {c} /\ \A x : x # e => of2(x) = of(x)
  OBVIOUS
<1>7. \A x : x \notin DOMAIN counters => of(x) = {}
  BY <1>1
<1>8. DOMAIN counters' = {Answer(d)' : d \in Handled'}
  BY <1>1, <1>2
<1> HIDE DEF of, of2, e
<1>9. Cardinality(of2(e)) = Cardinality(of(e)) + 1
  BY <1>5, <1>6, FS_AddElement
<1>10. ASSUME NEW x \in DOMAIN counters'
       PROVE  counters'[x] = Cardinality(of2(x))
  <2>1. CASE x # e
    <3>1. x \in DOMAIN counters
      BY <1>2, <2>1
    <3> QED
      <4>1. counters[x] = Cardinality(of(x)) /\ counters[x] \in Nat
        BY <1>1, <1>5, <3>1
      <4>2. counters'[x] = counters[x] + 0
        BY <1>2, <2>1, <3>1
      <4>3. of2(x) = of(x)
        BY <1>6, <2>1
      <4> QED
        BY <4>1, <4>2, <4>3
  <2>2. CASE x = e /\ x \in DOMAIN counters
    BY <1>1, <1>2, <1>5, <1>9, <2>2
  <2>3. CASE x = e /\ x \notin DOMAIN counters
    <3>1. Cardinality(of(x)) = 0
      BY <1>7, <2>3, FS_EmptySet
    <3> QED
      BY <1>2, <1>9, <2>3, <3>1
  <2> QED
    BY <2>1, <2>2, <2>3
<1> QED
  BY <1>4, <1>8, <1>10 DEF Tally, CountersTellAnswers, BagToSet, of2

LEMMA NextTally ==
  ASSUME Inv, [Next]_vars
  PROVE  Tally'
<1>1. \A c \in Handled : Answer(c)' = Answer(c)
  BY NextKnown
<1>2. CASE Handled' = Handled /\ counters' = counters
  BY <1>1, <1>2 DEF Inv, Tally, CountersTellAnswers
<1>3. ASSUME NEW c \in Client, MetricsMiddleware(c)
      PROVE  Tally'
  <2>1. Known(c) /\ TypeOK /\ Tally /\ Step(c)
    BY <1>3 DEF Inv, Step
  <2>2. Counted(c)'
    BY <1>3, <2>1, MetricsKnown
  <2>3. routes' = routes /\ route' = route /\ status' = status
    BY <1>3 DEF MetricsMiddleware, server
  <2>4. Template(route[c])' = Template(route[c])
    BY <2>3 DEF Template
  <2>5. counters' = counters (+) SetToBag({Answer(c)'})
    BY <1>3, <2>2, <2>3, <2>4 DEF MetricsMiddleware, Counted
  <2>6. Only(c) /\ pc[c] # "done"
    BY <2>1, StepIsLocal
  <2>7. pc'[c] = "done"
    BY <1>3, <2>1 DEF MetricsMiddleware, Goto, TypeOK
  <2>8. c \notin Handled /\ Handled' = Handled \union {c}
    BY <2>6, <2>7 DEF Handled, Only
  <2> QED
    BY <1>1, <2>1, <2>5, <2>8, TallyStep
<1> QED
  BY <1>2, <1>3, OnlyMetricsCount

-----------------------------------------------------------------------------
(* Theorems *)

LEMMA SpecInv == Spec => []Inv
<1>1. Inv /\ [Next]_vars => Inv'
  BY NextTypes, NextKnown, NextTally DEF Inv
<1> QED
  BY InitInv, <1>1, PTL DEF Spec

(* Every variable has its type. *)
THEOREM TypeCorrect == Spec => []TypeOK
<1>1. Inv => TypeOK
  BY DEF Inv
<1> QED
  BY SpecInv, <1>1, PTL

(* A request is answered by a route only if that route's own               *)
(* authentication permits it, however the paths of the routes overlap.     *)
THEOREM OnlyAuthorizedServed == Spec => []ServedToAuthorized
<1>1. Inv => ServedToAuthorized
  BY DEF Inv, Known, Permitted, ServedToAuthorized
<1> QED
  BY SpecInv, <1>1, PTL

(* The metrics are the bag of the answers. *)
THEOREM MetricsTell == Spec => []CountersTellAnswers
<1>1. Inv => CountersTellAnswers
  BY DEF Inv, Tally
<1> QED
  BY SpecInv, <1>1, PTL
=============================================================================
