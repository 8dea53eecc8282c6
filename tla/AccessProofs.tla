---------------------------- MODULE AccessProofs ----------------------------
(***************************************************************************)
(* Proofs about the routes: for any usernames, custom roles, grants,       *)
(* threads and browsers, a request does and is told only what its caller   *)
(* had the rights to, and sessions end.  And about the limiter of login    *)
(* attempts: for any policy, keys and handlers, failures that count are    *)
(* forgotten only for room, of the key least recently used.                *)
(***************************************************************************)
EXTENDS Access, SequenceTheorems, WellFoundedInduction, TLAPS

Serving(t) == request[t].at # "idle"
User(t) == request[t].cookie.user

Places == {"idle", "arrived", "decided", "naming", "handling", "answered"}
RequestFields == {"at", "route", "client", "cookie", "decision"}

\* A session in the old format is as old as its password; another was issued
\* when that was given, or anew by the end of the old one's lifetime.
SessionOK(cookie) ==
    /\ cookie.user \in Names \cup {Gate!Anonymous}
    /\ cookie.user # Gate!Anonymous =>
          /\ DOMAIN cookie = {"user", "role", "legacy", "issued", "opened"}
          /\ cookie.opened \in Nat /\ cookie.issued \in Nat /\ cookie.issued <= day
          /\ cookie.issued - cookie.opened <= Lifetime
          /\ cookie.legacy => cookie.issued = cookie.opened

\* The routes are those of the router, sessions are in time.
RequestOK(t) ==
    /\ request[t].at \in Places /\ "at" \in DOMAIN request[t]
    /\ Serving(t) =>
          /\ DOMAIN request[t] = RequestFields
          /\ request[t].client \in Clients
          /\ request[t].route.does = "me" => request[t].route.needs = Gate!Nothing
          /\ SessionOK(request[t].cookie)
          /\ User(t) # Gate!Anonymous => day - request[t].cookie.issued <= Lifetime

\* What the caller may do now has been seen, and what was decided of it has not
\* changed unless its account has.
CallerIsKnown(t) ==
    Serving(t) =>
        /\ Gate!Rights[User(t)] \subseteq held[t]
        /\ request[t].decision.reason = "authenticated" =>
              /\ User(t) # Gate!Anonymous
              /\ Gate!Public \cup {"session"} \subseteq held[t]
              /\ \/ touched[t]
                 \/ /\ account[User(t)].enabled
                    /\ account[User(t)].role = request[t].decision.role

\* What a request has passed.
GatePassed(t) ==
    request[t].route.gate \in {"catalog", "session"} /\ profile = "disabled"
        => "session" \in held[t]

MayHandle(t) ==
    \/ touched[t]
    \/ request[t].route.needs = Gate!Nothing
    \/ request[t].route.needs \in held[t]

Passed(t) ==
    /\ request[t].at \in {"decided", "naming", "handling"} => GatePassed(t)
    /\ request[t].at = "naming" => request[t].route.does = "me"
    /\ request[t].at = "handling" => MayHandle(t)
    /\ request[t].at = "answered" /\ answer[t] # Gate!Refused =>
          /\ GatePassed(t) /\ MayHandle(t)
          /\ answer[t].what = "internal" /\ profile # "internal" => "session" \in held[t]
          /\ touched[t] \/ answer[t].codes \subseteq held[t]

InPlace(t) == RequestOK(t) /\ CallerIsKnown(t) /\ Passed(t)

RoutesOpen ==
    /\ DOMAIN request = Threads /\ DOMAIN answer = Threads
    /\ DOMAIN held = Threads /\ touched \in [Threads -> BOOLEAN]
    /\ DOMAIN jar = Clients /\ day \in Nat
    /\ router \in DOMAIN Gate!RoutesOf
    /\ \A c \in Clients : SessionOK(jar[c])
    /\ \A t \in Threads : InPlace(t)

\* In the limiter's behaviours nothing is requested.
IInv == \/ area = "routes" /\ RoutesOpen
        \/ area = "limiter" /\ request = [t \in Threads |-> [at |-> "idle"]]

-----------------------------------------------------------------------------
(* Routes *)

LEMMA OnlyMe ==
    ASSUME NEW r \in DOMAIN Gate!RoutesOf, NEW route \in Gate!RoutesOf[r], route.does = "me"
    PROVE  route.needs = Gate!Nothing
<1>1. \A g \in Gate!Guards(Gate!AuthRoutes) : g.needs = Gate!Nothing
    BY DEF Gate!Guards, Gate!AuthRoutes, Gate!Guard
<1>2. \A g \in Gate!Guards(Gate!InfrastructureRoutes) : g.does # "me"
    BY DEF Gate!Guards, Gate!InfrastructureRoutes, Gate!Guard, Gate!Catalog, Gate!Opened
<1>3. \A g \in Gate!Guards(Gate!AskRoutes) : g.does # "me"
    BY DEF Gate!Guards, Gate!AskRoutes, Gate!Guard, Gate!Catalog, Gate!Plain
<1>4. \A g \in Gate!Guards(Gate!LineageRoutes) : g.does # "me"
    BY DEF Gate!Guards, Gate!LineageRoutes, Gate!Guard, Gate!Catalog
<1>5. \A g \in Gate!Guards(Gate!AssetReads) : g.does # "me"
    BY DEF Gate!Guards, Gate!AssetReads, Gate!Guard, Gate!Catalog
<1>6. \A g \in Gate!Guards(Gate!AssetWrites) : g.does # "me"
    BY DEF Gate!Guards, Gate!AssetWrites, Gate!Guard, Gate!Writes
<1>7. \A g \in Gate!Guards(Gate!AssetRoutesById) : g.does # "me"
    BY DEF Gate!Guards, Gate!AssetRoutesById, Gate!Guard, Gate!Catalog, Gate!Writes
<1>8. \A g \in Gate!Guards(Gate!ApiReads) : g.does # "me"
    BY DEF Gate!Guards, Gate!ApiReads, Gate!Guard, Gate!Catalog
<1>9. \A g \in Gate!Guards(Gate!ApiWrites) : g.does # "me"
    BY DEF Gate!Guards, Gate!ApiWrites, Gate!Guard, Gate!Writes
<1>10. \A g \in Gate!Guards(Gate!MappingRoutes) : g.does # "me"
    BY DEF Gate!Guards, Gate!MappingRoutes, Gate!Guard, Gate!Catalog, Gate!Writes
<1>11. \A g \in Gate!Guards(Gate!MappingExport) : g.does # "me"
    BY DEF Gate!Guards, Gate!MappingExport, Gate!Guard, Gate!Export
<1>12. \A g \in Gate!Guards(Gate!IndicatorReads) : g.does # "me"
    BY DEF Gate!Guards, Gate!IndicatorReads, Gate!Guard, Gate!Catalog, Gate!Plain
<1>13. \A g \in Gate!Guards(Gate!IndicatorPathRoutes) : g.does # "me"
    BY DEF Gate!Guards, Gate!IndicatorPathRoutes, Gate!Guard, Gate!Catalog
<1>14. \A g \in Gate!Guards(Gate!IndicatorWrites) : g.does # "me"
    BY DEF Gate!Guards, Gate!IndicatorWrites, Gate!Guard, Gate!Writes
<1>15. \A g \in Gate!Guards(Gate!CodeTableReads) : g.does # "me"
    BY DEF Gate!Guards, Gate!CodeTableReads, Gate!Guard, Gate!Catalog, Gate!Export
<1>16. \A g \in Gate!Guards(Gate!CodeTableWrites) : g.does # "me"
    BY DEF Gate!Guards, Gate!CodeTableWrites, Gate!Guard, Gate!Writes
<1>17. \A g \in Gate!Guards(Gate!PushReads) : g.does # "me"
    BY DEF Gate!Guards, Gate!PushReads, Gate!Guard, Gate!Catalog, Gate!Detail
<1>18. \A g \in Gate!Guards(Gate!PushWrites) : g.does # "me"
    BY DEF Gate!Guards, Gate!PushWrites, Gate!Guard, Gate!Writes
<1>19. \A g \in Gate!Guards(Gate!UpstreamReads) : g.does # "me"
    BY DEF Gate!Guards, Gate!UpstreamReads, Gate!Guard, Gate!Catalog, Gate!Detail
<1>20. \A g \in Gate!Guards(Gate!UpstreamWrites) : g.does # "me"
    BY DEF Gate!Guards, Gate!UpstreamWrites, Gate!Guard, Gate!Writes
<1>21. \A g \in Gate!Guards(Gate!ReportReads) : g.does # "me"
    BY DEF Gate!Guards, Gate!ReportReads, Gate!Guard, Gate!Catalog, Gate!Detail
<1>22. \A g \in Gate!Guards(Gate!ReportWrites) : g.does # "me"
    BY DEF Gate!Guards, Gate!ReportWrites, Gate!Guard, Gate!Writes
<1>23. \A g \in Gate!Guards(Gate!RootReads) : g.does # "me"
    BY DEF Gate!Guards, Gate!RootReads, Gate!Guard, Gate!Catalog
<1>24. \A g \in Gate!Guards(Gate!RootWrites) : g.does # "me"
    BY DEF Gate!Guards, Gate!RootWrites, Gate!Guard, Gate!Writes
<1>25. \A g \in Gate!Guards(Gate!MetadataRoutes) : g.does # "me"
    BY DEF Gate!Guards, Gate!MetadataRoutes, Gate!Guard, Gate!Behind
<1>26. \A g \in Gate!Guards(Gate!OperationLogRoutes) : g.does # "me"
    BY DEF Gate!Guards, Gate!OperationLogRoutes, Gate!Guard, Gate!Behind
<1>27. \A g \in Gate!Guards(Gate!UserRoutes) : g.does # "me"
    BY DEF Gate!Guards, Gate!UserRoutes, Gate!Guard, Gate!System
<1>28. \A g \in Gate!Guards(Gate!RoleRoutes) : g.does # "me"
    BY DEF Gate!Guards, Gate!RoleRoutes, Gate!Guard, Gate!System
<1>29. \A g \in Gate!Guards(Gate!MenuRoutes) : g.does # "me"
    BY DEF Gate!Guards, Gate!MenuRoutes, Gate!Guard, Gate!Opened, Gate!System
<1>30. \A g \in Gate!Guards(Gate!RagConfigRoutes) : g.does # "me"
    BY DEF Gate!Guards, Gate!RagConfigRoutes, Gate!Guard, Gate!System
<1>31. \A g \in Gate!Guards(Gate!DictionaryRoutes) : g.does # "me"
    BY DEF Gate!Guards, Gate!DictionaryRoutes, Gate!Guard, Gate!System
<1> HIDE DEF Gate!Guards
<1> QED BY <1>1, <1>2, <1>3, <1>4, <1>5, <1>6, <1>7, <1>8, <1>9, <1>10, <1>11, <1>12, <1>13, <1>14, <1>15, <1>16, <1>17, <1>18, <1>19, <1>20, <1>21, <1>22, <1>23, <1>24, <1>25, <1>26, <1>27, <1>28, <1>29, <1>30, <1>31 DEF Gate!RoutesOf

-----------------------------------------------------------------------------
(* The beginning *)

LEMMA InitInPlace == AccessInit => IInv
<1> SUFFICES ASSUME AccessInit PROVE IInv
    OBVIOUS
<1>1. CASE area = "limiter" /\ Init /\ Gate!Closed
    BY <1>1 DEF IInv, Gate!Closed
<1>2. CASE area = "routes" /\ Gate!Init
    <2>1. /\ router \in DOMAIN Gate!RoutesOf
          /\ DOMAIN request = Threads /\ DOMAIN answer = Threads
          /\ DOMAIN held = Threads /\ touched \in [Threads -> BOOLEAN]
          /\ DOMAIN jar = Clients /\ day = 0
        BY <1>2 DEF Gate!Init
    <2>2. ASSUME NEW c \in Clients PROVE SessionOK(jar[c])
        BY <1>2, LifetimeAssumption DEF Gate!Init, SessionOK, Gate!NoCookie
    <2>3. ASSUME NEW t \in Threads PROVE InPlace(t)
        <3>1. request[t] = [at |-> "idle"]
            BY <1>2 DEF Gate!Init
        <3> QED BY <3>1 DEF InPlace, RequestOK, CallerIsKnown, Passed, Serving, Places
    <2> QED BY <1>2, <2>1, <2>2, <2>3 DEF IInv, RoutesOpen
<1> QED BY <1>1, <1>2 DEF AccessInit

-----------------------------------------------------------------------------
(* A step of one thread leaves the others where they are *)

LEMMA OthersStay ==
    ASSUME NEW t \in Threads, InPlace(t),
           request'[t] = request[t], answer'[t] = answer[t],
           held'[t] = held[t], touched'[t] = touched[t],
           UNCHANGED <<profile, account, roles, day>>
    PROVE  InPlace(t)'
<1>1. Gate!Rights' = Gate!Rights
    BY DEF Gate!Rights
<1>2. SessionOK(request[t].cookie)' <=> SessionOK(request[t].cookie)
    BY DEF SessionOK
<1>3. RequestOK(t)'
    BY DEF InPlace, RequestOK, Serving, User, SessionOK
<1>4. CallerIsKnown(t)'
    BY <1>1 DEF InPlace, CallerIsKnown, Serving, User
<1>5. Passed(t)'
    BY DEF InPlace, Passed, GatePassed, MayHandle
<1> QED BY <1>3, <1>4, <1>5 DEF InPlace

\* What one thread does by itself.
Alone(t) ==
    /\ UNCHANGED <<profile, account, roles, router, day>>
    /\ DOMAIN request' = Threads /\ DOMAIN answer' = Threads
    /\ DOMAIN held' = Threads /\ touched' \in [Threads -> BOOLEAN]
    /\ DOMAIN jar' = Clients /\ (\A c \in Clients : SessionOK(jar[c])')
    /\ \A u \in Threads \ {t} :
          /\ request'[u] = request[u] /\ answer'[u] = answer[u]
          /\ held'[u] = held[u] /\ touched'[u] = touched[u]

LEMMA OneThread ==
    ASSUME RoutesOpen, NEW t \in Threads, Alone(t), InPlace(t)'
    PROVE  RoutesOpen'
<1>1. ASSUME NEW u \in Threads PROVE InPlace(u)'
    <2>1. CASE u # t
        BY <2>1, OthersStay DEF Alone, RoutesOpen
    <2> QED BY <2>1
<1> QED BY <1>1 DEF Alone, RoutesOpen

\* Most steps move a request on, with or without an answer.
Moves(t, where) ==
    /\ request' = [request EXCEPT ![t].at = where]
    /\ DOMAIN answer' = Threads /\ \A u \in Threads \ {t} : answer'[u] = answer[u]
    /\ UNCHANGED <<router, profile, export, account, roles, changes, day, jar, held, touched>>

LEMMA MovesOn ==
    ASSUME RoutesOpen, NEW t \in Threads, Serving(t),
           NEW where \in Places \ {"idle"}, Moves(t, where)
    PROVE  /\ request'[t].at = where
           /\ request'[t].route = request[t].route /\ held'[t] = held[t]
           /\ touched'[t] = touched[t] /\ profile' = profile
           /\ Passed(t)' => RoutesOpen'
<1>1. request'[t] = [request[t] EXCEPT !.at = where]
    BY DEF Moves, RoutesOpen
<1>2. /\ request'[t].at = where /\ DOMAIN request'[t] = RequestFields
      /\ request'[t].route = request[t].route /\ request'[t].client = request[t].client
      /\ request'[t].cookie = request[t].cookie /\ request'[t].decision = request[t].decision
    BY <1>1 DEF RoutesOpen, InPlace, RequestOK, RequestFields
<1>3. DOMAIN request' = Threads /\ \A u \in Threads \ {t} : request'[u] = request[u]
    BY DEF Moves, RoutesOpen
<1>4. \A c \in Clients : SessionOK(jar[c])'
    BY DEF Moves, RoutesOpen, SessionOK
<1>5. Alone(t)
    BY <1>3, <1>4 DEF Moves, Alone, RoutesOpen
<1>6. RequestOK(t)'
    BY <1>2 DEF Moves, RoutesOpen, InPlace, RequestOK, Serving, User, SessionOK, RequestFields
<1>7. Gate!Rights' = Gate!Rights
    BY DEF Gate!Rights, Moves
<1>8. CallerIsKnown(t)'
    BY <1>2, <1>7 DEF Moves, RoutesOpen, InPlace, CallerIsKnown, Serving, User
<1>9. Passed(t)' => RoutesOpen'
    BY <1>5, <1>6, <1>8, OneThread DEF InPlace
<1> QED BY <1>2, <1>9 DEF Moves

\* A request that has been answered by a refusal has been told nothing.
LEMMA RefusedInPlace ==
    ASSUME RoutesOpen, NEW t \in Threads, Serving(t), Gate!Only(t, "refused")
    PROVE  RoutesOpen'
<1>1. Moves(t, "answered") /\ answer'[t] = Gate!Refused
    BY DEF Gate!Only, Gate!Give, Moves, RoutesOpen, Gate!deployment, Gate!tables, Gate!Refused
<1>2. Passed(t)'
    BY <1>1, MovesOn DEF Passed, Places
<1> QED BY <1>1, <1>2, MovesOn DEF Places

\* One that may be handled may be answered, with what needs no session.
LEMMA AnsweredInPlace ==
    ASSUME RoutesOpen, NEW t \in Threads, request[t].at = "handling",
           NEW what, Gate!Only(t, what),
           what = "internal" /\ profile # "internal" => "session" \in held[t]
    PROVE  RoutesOpen'
<1>1. Moves(t, "answered") /\ answer'[t] = Gate!Saying(what, {})
    BY DEF Gate!Only, Gate!Give, Moves, RoutesOpen, Gate!deployment, Gate!tables
<1>2. answer'[t].what = what /\ answer'[t].codes = {}
    BY <1>1 DEF Gate!Saying
<1>3. Serving(t) /\ Passed(t)
    BY DEF Serving, RoutesOpen, InPlace
<1>4. /\ request'[t].at = "answered" /\ request'[t].route = request[t].route
      /\ held'[t] = held[t] /\ touched'[t] = touched[t] /\ profile' = profile
      /\ Passed(t)' => RoutesOpen'
    BY <1>1, <1>3, MovesOn DEF Places
<1>5. GatePassed(t)' /\ MayHandle(t)'
    BY <1>3, <1>4 DEF Passed, GatePassed, MayHandle
<1>6. Passed(t)'
    BY <1>2, <1>4, <1>5 DEF Passed
<1> QED BY <1>4, <1>6

-----------------------------------------------------------------------------
(* The request *)

LEMMA EnterOpenInPlace ==
    ASSUME RoutesOpen, NEW t \in Threads, Gate!EnterOpen(t) PROVE RoutesOpen'
<1>1. Moves(t, "handling") /\ Serving(t)
    BY DEF Gate!EnterOpen, Gate!Step, Gate!At, Moves, RoutesOpen, Serving, Gate!deployment,
           Gate!tables
<1>2. GatePassed(t) /\ MayHandle(t)
    BY DEF Gate!EnterOpen, Gate!AsksForDecision, GatePassed, MayHandle
<1>3. Passed(t)'
    BY <1>1, <1>2, MovesOn DEF Passed, GatePassed, MayHandle, Places
<1> QED BY <1>1, <1>3, MovesOn DEF Places

\* What is authorized has been the caller's right since it was asked for.
LEMMA AuthorizedHeld ==
    ASSUME RoutesOpen, NEW t \in Threads, Serving(t), NEW code,
           code \in Gate!Effective(request[t].cookie, request[t].decision)
    PROVE  code \in held[t] \/ touched[t]
<1> DEFINE u == User(t)
           d == request[t].decision
<1>1. CallerIsKnown(t) /\ RequestOK(t)
    BY DEF RoutesOpen, InPlace
<1>2. u \in Names \cup {Gate!Anonymous} /\ Gate!Rights[u] \subseteq held[t]
    BY <1>1 DEF CallerIsKnown, RequestOK, SessionOK, User
<1>3. CASE u = Gate!Anonymous
    <2>1. Gate!Rights[u] = IF profile = "disabled" THEN {} ELSE Gate!Public
        BY <1>2, <1>3 DEF Gate!Rights
    <2> QED BY <1>2, <1>3, <2>1 DEF Gate!Effective, User
<1>4. CASE u # Gate!Anonymous
    <2>1. d.reason = "authenticated" /\ (code \in Gate!Public \/ code \in Gate!Permissions(d.role))
        BY <1>4 DEF Gate!Effective, User
    <2>2. CASE code \in Gate!Public \/ touched[t]
        BY <1>1, <2>1, <2>2 DEF CallerIsKnown
    <2>3. CASE code \notin Gate!Public /\ ~touched[t]
        <3>1. account[u].enabled /\ account[u].role = d.role
            BY <1>1, <2>1, <2>3 DEF CallerIsKnown
        <3>2. roles[d.role].enabled /\ code \in roles[d.role].grants
            BY <2>1, <2>3 DEF Gate!Permissions
        <3>3. Gate!Rights[u] = Gate!Public \cup roles[account[u].role].grants \cup {"session"}
            BY <1>2, <1>4, <3>1, <3>2 DEF Gate!Rights
        <3> QED BY <1>2, <3>1, <3>2, <3>3
    <2> QED BY <2>2, <2>3
<1> QED BY <1>3, <1>4

LEMMA PermitInPlace ==
    ASSUME RoutesOpen, NEW t \in Threads, Gate!Permit(t) PROVE RoutesOpen'
<1> DEFINE r == request[t]
           may == r.route.needs = Gate!Nothing
                  \/ Gate!Authorized(r.cookie, r.decision, r.route.needs)
<1>1. r.at = "decided" /\ Serving(t) /\ RequestOK(t) /\ Passed(t) /\ CallerIsKnown(t)
    BY DEF Gate!Permit, Gate!At, Serving, RoutesOpen, InPlace
<1>2. CASE ~may
    BY <1>1, <1>2, RefusedInPlace DEF Gate!Permit
<1>3. CASE may
    <2>1. Moves(t, "handling")
        BY <1>3 DEF Gate!Permit, Gate!Step, Moves, RoutesOpen, Gate!deployment, Gate!tables
    <2>2. MayHandle(t)
        <3>1. CASE r.route.needs = Gate!Nothing
            BY <3>1 DEF MayHandle
        <3>2. CASE Gate!Authorized(r.cookie, r.decision, r.route.needs)
            <4>1. CASE r.route.needs \in Gate!Effective(r.cookie, r.decision)
                BY <1>1, <4>1, AuthorizedHeld DEF MayHandle
            <4>2. CASE /\ r.cookie.user = Gate!Anonymous /\ profile # "disabled"
                       /\ r.route.needs \in Gate!Public
                BY <1>1, <4>2, AuthorizedHeld DEF Gate!Effective, MayHandle
            <4> QED BY <3>2, <4>1, <4>2 DEF Gate!Authorized
        <3> QED BY <1>3, <3>1, <3>2
    <2>3. Passed(t)'
        BY <1>1, <2>1, <2>2, MovesOn DEF Passed, GatePassed, MayHandle, Places
    <2> QED BY <1>1, <2>1, <2>3, MovesOn DEF Places
<1> QED BY <1>2, <1>3

LEMMA TellMeInPlace ==
    ASSUME RoutesOpen, NEW t \in Threads, Gate!TellMe(t) PROVE RoutesOpen'
<1> DEFINE codes == Gate!Effective(request[t].cookie, request[t].decision)
<1>1. Moves(t, "answered") /\ answer'[t] = Gate!Saying("rights", codes)
    BY DEF Gate!TellMe, Gate!Give, Moves, RoutesOpen, Gate!deployment, Gate!tables
<1>2. answer'[t].what = "rights" /\ answer'[t].codes = codes
    BY <1>1 DEF Gate!Saying
<1>3. request[t].at = "naming" /\ Serving(t) /\ Passed(t) /\ RequestOK(t)
    BY DEF Gate!TellMe, Gate!At, Serving, RoutesOpen, InPlace
<1>4. touched[t] \/ codes \subseteq held[t]
    BY <1>3, AuthorizedHeld
<1>5. GatePassed(t) /\ MayHandle(t)
    BY <1>3 DEF Passed, RequestOK, MayHandle
<1>6. /\ request'[t].at = "answered" /\ request'[t].route = request[t].route
      /\ held'[t] = held[t] /\ touched'[t] = touched[t] /\ profile' = profile
      /\ Passed(t)' => RoutesOpen'
    BY <1>1, <1>3, MovesOn DEF Places
<1>7. touched[t]' \/ answer'[t].codes \subseteq held'[t]
    BY <1>2, <1>4, <1>6
<1>8. Passed(t)'
    BY <1>2, <1>5, <1>6, <1>7 DEF Passed, GatePassed, MayHandle
<1> QED BY <1>6, <1>8

LEMMA FailsInPlace ==
    ASSUME RoutesOpen, NEW t \in Threads, Gate!Fails(t) PROVE RoutesOpen'
BY RefusedInPlace DEF Gate!Fails, Gate!At, Serving

\* Who is authenticated has a session, and its account is as it was read.
LEMMA AuthenticatedHeld ==
    ASSUME NEW t \in Threads, Serving(t), RequestOK(t), CallerIsKnown(t),
           Gate!Subject(request[t].cookie).reason = "authenticated"
    PROVE  /\ User(t) # Gate!Anonymous
           /\ Gate!Public \cup {"session"} \subseteq held[t]
           /\ account[User(t)].enabled
           /\ account[User(t)].role = Gate!Subject(request[t].cookie).role
<1>1. /\ User(t) # Gate!Anonymous
      /\ account[User(t)].enabled /\ roles[account[User(t)].role].enabled
      /\ account[User(t)].role = Gate!Subject(request[t].cookie).role
    BY DEF Gate!Subject, User
<1>2. User(t) \in Names
    BY <1>1 DEF RequestOK, SessionOK, User
<1>3. Gate!Rights[User(t)] = Gate!Public \cup roles[account[User(t)].role].grants \cup {"session"}
    BY <1>1, <1>2 DEF Gate!Rights
<1> QED BY <1>1, <1>3 DEF CallerIsKnown

LEMMA ProjectInPlace ==
    ASSUME RoutesOpen, NEW t \in Threads, Gate!Project(t) PROVE RoutesOpen'
<1>1. request[t].at = "handling" /\ Serving(t) /\ RequestOK(t) /\ CallerIsKnown(t)
    BY DEF Gate!Project, Gate!At, Serving, RoutesOpen, InPlace
<1>2. PICK shown \in {Gate!ProfileFor(request[t].cookie), profile} : Gate!Only(t, shown)
    BY DEF Gate!Project
<1>3. shown = "internal" /\ profile # "internal" => "session" \in held[t]
    BY <1>1, <1>2, AuthenticatedHeld DEF Gate!ProfileFor
<1> QED BY <1>1, <1>2, <1>3, AnsweredInPlace

LEMMA NextBatchInPlace ==
    ASSUME RoutesOpen, NEW t \in Threads, Gate!NextBatch(t) PROVE RoutesOpen'
<1>1. Moves(t, "handling") /\ Serving(t) /\ Passed(t)
    BY DEF Gate!NextBatch, Gate!Step, Gate!At, Moves, RoutesOpen, InPlace, Serving,
           Gate!deployment, Gate!tables
<1>2. GatePassed(t) /\ MayHandle(t)
    BY <1>1 DEF Gate!NextBatch, Gate!At, Passed
<1>3. Passed(t)'
    BY <1>1, <1>2, MovesOn DEF Passed, GatePassed, MayHandle, Places
<1> QED BY <1>1, <1>3, MovesOn DEF Places

LEMMA ReadWriteInPlace ==
    ASSUME RoutesOpen, NEW t \in Threads, Gate!Read(t) \/ Gate!Write(t) PROVE RoutesOpen'
BY AnsweredInPlace DEF Gate!Read, Gate!Write, Gate!At

\* The caller is looked up, now or again.
LEMMA AskedInPlace ==
    ASSUME RoutesOpen, NEW t \in Threads, Serving(t),
           NEW where \in {"decided", "naming", "answered"},
           request' = [request EXCEPT ![t].decision = Gate!Subject(request[t].cookie),
                                      ![t].at = where],
           DOMAIN answer' = Threads, \A u \in Threads \ {t} : answer'[u] = answer[u],
           UNCHANGED <<router, profile, export, account, roles, changes, day, jar, held, touched>>
    PROVE  /\ request'[t].at = where /\ request'[t].route = request[t].route
           /\ Passed(t)' => RoutesOpen'
<1> DEFINE d == Gate!Subject(request[t].cookie)
<1>1. request'[t] = [request[t] EXCEPT !.decision = d, !.at = where]
    BY DEF RoutesOpen
<1>2. /\ request'[t].at = where /\ DOMAIN request'[t] = RequestFields
      /\ request'[t].route = request[t].route /\ request'[t].client = request[t].client
      /\ request'[t].cookie = request[t].cookie /\ request'[t].decision = d
    BY <1>1 DEF RoutesOpen, InPlace, RequestOK, RequestFields
<1>3. DOMAIN request' = Threads /\ \A u \in Threads \ {t} : request'[u] = request[u]
    BY DEF RoutesOpen
<1>4. \A c \in Clients : SessionOK(jar[c])'
    BY DEF RoutesOpen, SessionOK
<1>5. Alone(t)
    BY <1>3, <1>4 DEF Alone, RoutesOpen
<1>6. RequestOK(t)'
    BY <1>2 DEF RoutesOpen, InPlace, RequestOK, Serving, User, SessionOK, RequestFields, Places
<1>7. Gate!Rights' = Gate!Rights
    BY DEF Gate!Rights
<1>8. CallerIsKnown(t)'
    <2>1. /\ Gate!Rights[User(t)] \subseteq held[t]
          /\ d.reason = "authenticated" =>
                /\ User(t) # Gate!Anonymous /\ Gate!Public \cup {"session"} \subseteq held[t]
                /\ account[User(t)].enabled /\ account[User(t)].role = d.role
        BY AuthenticatedHeld DEF RoutesOpen, InPlace, CallerIsKnown
    <2> QED BY <1>2, <1>7, <2>1 DEF CallerIsKnown, Serving, User
<1>9. Passed(t)' => RoutesOpen'
    BY <1>5, <1>6, <1>8, OneThread DEF InPlace
<1> QED BY <1>2, <1>9

LEMMA AskAgainInPlace ==
    ASSUME RoutesOpen, NEW t \in Threads, Gate!AskAgain(t) PROVE RoutesOpen'
<1>1. Serving(t) /\ Passed(t) /\ request[t].at = "decided" /\ request[t].route.does = "me"
    BY DEF Gate!AskAgain, Gate!At, Serving, RoutesOpen, InPlace
<1>2. /\ request' = [request EXCEPT ![t].decision = Gate!Subject(request[t].cookie),
                                    ![t].at = "naming"]
      /\ UNCHANGED <<router, profile, export, account, roles, changes, day, jar, answer,
                     held, touched>>
    BY DEF Gate!AskAgain, Gate!deployment, Gate!tables
<1>3. /\ request'[t].at = "naming" /\ request'[t].route = request[t].route
      /\ Passed(t)' => RoutesOpen'
    BY <1>1, <1>2, AskedInPlace DEF RoutesOpen
<1>4. Passed(t)'
    BY <1>1, <1>2, <1>3 DEF Passed, GatePassed
<1> QED BY <1>3, <1>4

LEMMA AuthenticateInPlace ==
    ASSUME RoutesOpen, NEW t \in Threads, Gate!Authenticate(t) PROVE RoutesOpen'
<1> DEFINE d == Gate!Subject(request[t].cookie)
           where == IF Gate!ClosedTo(t, d) THEN "answered" ELSE "decided"
<1>1. Serving(t) /\ RequestOK(t) /\ CallerIsKnown(t)
    BY DEF Gate!Authenticate, Gate!At, Serving, RoutesOpen, InPlace
<1>2. /\ request' = [request EXCEPT ![t].decision = d, ![t].at = where]
      /\ UNCHANGED <<router, profile, export, account, roles, changes, day, jar, held, touched>>
      /\ DOMAIN answer' = Threads /\ \A u \in Threads \ {t} : answer'[u] = answer[u]
      /\ Gate!ClosedTo(t, d) => answer'[t] = Gate!Refused
    BY DEF Gate!Authenticate, Gate!deployment, Gate!tables, RoutesOpen
<1>3. /\ request'[t].at = where /\ request'[t].route = request[t].route
      /\ Passed(t)' => RoutesOpen'
    <2>1. CASE Gate!ClosedTo(t, d)
        BY <1>1, <1>2, <2>1, AskedInPlace
    <2>2. CASE ~Gate!ClosedTo(t, d)
        BY <1>1, <1>2, <2>2, AskedInPlace
    <2> QED BY <2>1, <2>2
<1>4. ~Gate!ClosedTo(t, d) => GatePassed(t)
    BY <1>1, AuthenticatedHeld DEF Gate!ClosedTo, GatePassed
<1>5. Passed(t)'
    <2>1. CASE Gate!ClosedTo(t, d)
        BY <1>2, <1>3, <2>1 DEF Passed
    <2>2. CASE ~Gate!ClosedTo(t, d)
        BY <1>2, <1>3, <1>4, <2>2 DEF Passed, GatePassed
    <2> QED BY <2>1, <2>2
<1> QED BY <1>3, <1>5

LEMMA ReceiveInPlace ==
    ASSUME RoutesOpen, NEW t \in Threads, NEW c \in Clients, Gate!Receive(t, c)
    PROVE  RoutesOpen'
<1> DEFINE cookie == Gate!Identity(jar[c])
<1>1. PICK route \in Gate!RoutesOf[router] :
        request' = [request EXCEPT ![t] =
            [at |-> "arrived", route |-> route, client |-> c, cookie |-> cookie,
             decision |-> [reason |-> "unread"]]]
    BY DEF Gate!Receive
<1>2. /\ held' = [held EXCEPT ![t] = Gate!Rights[cookie.user]]
      /\ touched' = [touched EXCEPT ![t] = FALSE]
      /\ UNCHANGED <<router, profile, export, account, roles, changes, day, jar, answer>>
    BY DEF Gate!Receive, Gate!deployment, Gate!tables
<1>3. /\ request'[t].at = "arrived" /\ DOMAIN request'[t] = RequestFields
      /\ request'[t].route = route /\ request'[t].client = c
      /\ request'[t].cookie = cookie /\ request'[t].decision.reason = "unread"
      /\ held'[t] = Gate!Rights[cookie.user] /\ ~touched'[t]
    BY <1>1, <1>2 DEF RoutesOpen, RequestFields
<1>4. SessionOK(jar[c])
    BY DEF RoutesOpen
<1>5. /\ SessionOK(cookie)
      /\ cookie.user # Gate!Anonymous => day - cookie.issued <= Lifetime
    BY <1>4 DEF Gate!Identity, Gate!Alive, Gate!NoCookie, SessionOK
<1>6. route.does = "me" => route.needs = Gate!Nothing
    BY OnlyMe DEF RoutesOpen
<1>7. RequestOK(t)'
    BY <1>2, <1>3, <1>5, <1>6 DEF RequestOK, Serving, User, SessionOK, Places, RequestFields
<1>8. Gate!Rights' = Gate!Rights
    BY <1>2 DEF Gate!Rights
<1>9. CallerIsKnown(t)' /\ Passed(t)'
    BY <1>3, <1>8 DEF CallerIsKnown, Passed, Serving, User
<1>10. \A b \in Clients : SessionOK(jar[b])'
    BY <1>2 DEF RoutesOpen, SessionOK
<1>11. Alone(t)
    BY <1>1, <1>2, <1>10 DEF Alone, RoutesOpen
<1> QED BY <1>7, <1>9, <1>11, OneThread DEF InPlace

LEMMA RespondInPlace ==
    ASSUME RoutesOpen, NEW t \in Threads, Gate!Respond(t) PROVE RoutesOpen'
<1> DEFINE r == request[t]
           new == Gate!Reissued(r.cookie)
<1>1. /\ jar' = IF answer[t] # Gate!Refused /\ new # r.cookie
                THEN [jar EXCEPT ![r.client] = new] ELSE jar
      /\ request' = [request EXCEPT ![t] = [at |-> "idle"]]
      /\ answer' = [answer EXCEPT ![t] = Gate!None]
      /\ held' = [held EXCEPT ![t] = {}] /\ touched' = [touched EXCEPT ![t] = FALSE]
      /\ UNCHANGED <<router, profile, export, account, roles, changes, day>>
    BY DEF Gate!Respond, Gate!deployment, Gate!tables
<1>2. RequestOK(t) /\ Serving(t)
    BY DEF Gate!Respond, Gate!At, RoutesOpen, InPlace, Serving
<1>3. SessionOK(new)
    <2>1. SessionOK(r.cookie) /\ day \in Nat
        BY <1>2 DEF RequestOK, RoutesOpen
    <2>2. CASE new = r.cookie
        BY <2>1, <2>2
    <2>3. CASE /\ User(t) # Gate!Anonymous /\ r.cookie.legacy
               /\ new = [r.cookie EXCEPT !.legacy = FALSE, !.issued = day]
        <3>1. /\ DOMAIN new = {"user", "role", "legacy", "issued", "opened"}
              /\ new.user = r.cookie.user /\ new.opened = r.cookie.opened
              /\ new.issued = day /\ ~new.legacy
            BY <2>1, <2>3 DEF SessionOK, User
        <3>2. day - r.cookie.opened <= Lifetime /\ r.cookie.opened \in Nat
            BY <1>2, <2>1, <2>3 DEF RequestOK, SessionOK, User
        <3> HIDE DEF new
        <3> QED BY <2>1, <3>1, <3>2 DEF SessionOK
    <2> QED BY <2>2, <2>3 DEF Gate!Reissued, User
<1>4. ASSUME NEW c \in Clients PROVE SessionOK(jar[c])'
    <2>1. SessionOK(jar[c])
        BY DEF RoutesOpen
    <2>2. jar'[c] = new \/ jar'[c] = jar[c]
        BY <1>1 DEF RoutesOpen
    <2> HIDE DEF new
    <2> QED BY <1>1, <1>3, <2>1, <2>2 DEF SessionOK
<1>5. Alone(t)
    BY <1>1, <1>4 DEF Alone, RoutesOpen
<1>6. request'[t] = [at |-> "idle"]
    BY <1>1 DEF RoutesOpen
<1>7. InPlace(t)'
    BY <1>6 DEF InPlace, RequestOK, CallerIsKnown, Passed, Serving, Places
<1> QED BY <1>5, <1>7, OneThread

-----------------------------------------------------------------------------
(* Sessions, time, accounts and roles *)

LEMMA BrowserInPlace ==
    ASSUME RoutesOpen, NEW c \in Clients, Gate!LogIn(c) \/ Gate!Forget(c) PROVE RoutesOpen'
<1>1. UNCHANGED <<router, profile, export, account, roles, changes, day, request, answer,
                  held, touched>>
    BY DEF Gate!LogIn, Gate!Forget, Gate!deployment, Gate!tables
<1>2. \E new : jar' = [jar EXCEPT ![c] = new] /\ SessionOK(new)
    <2>1. CASE Gate!LogIn(c)
        <3>1. PICK n \in Names :
                jar' = [jar EXCEPT ![c] = [user |-> n, role |-> account[n].role, legacy |-> FALSE,
                                           issued |-> day, opened |-> day]]
            BY <2>1 DEF Gate!LogIn
        <3> DEFINE new == [user |-> n, role |-> account[n].role, legacy |-> FALSE,
                           issued |-> day, opened |-> day]
        <3>2. /\ DOMAIN new = {"user", "role", "legacy", "issued", "opened"}
              /\ new.user = n /\ new.opened = day /\ new.issued = day /\ ~new.legacy
            OBVIOUS
        <3>3. day \in Nat /\ jar' = [jar EXCEPT ![c] = new]
            BY <3>1 DEF RoutesOpen
        <3> HIDE DEF new
        <3>4. SessionOK(new)
            BY <3>2, <3>3, LifetimeAssumption DEF SessionOK
        <3> QED BY <3>3, <3>4
    <2>2. CASE Gate!Forget(c)
        <3>1. jar' = [jar EXCEPT ![c] = Gate!NoCookie]
            BY <2>2 DEF Gate!Forget
        <3>2. SessionOK(Gate!NoCookie)
            BY DEF SessionOK, Gate!NoCookie
        <3> QED BY <3>1, <3>2
    <2> QED BY <2>1, <2>2
<1>3. DOMAIN jar' = Clients /\ \A b \in Clients : SessionOK(jar[b])'
    BY <1>1, <1>2 DEF RoutesOpen, SessionOK
<1>4. \A t \in Threads : InPlace(t)'
    BY <1>1, OthersStay DEF RoutesOpen
<1> QED BY <1>1, <1>3, <1>4 DEF RoutesOpen

\* Requests are short: no day passes over one.
LEMMA NextDayInPlace ==
    ASSUME RoutesOpen, Gate!NextDay PROVE RoutesOpen'
<1>1. /\ day' = day + 1 /\ \A t \in Threads : request[t].at = "idle"
      /\ UNCHANGED <<router, profile, export, account, roles, changes, jar, request, answer,
                     held, touched>>
    BY DEF Gate!NextDay, Gate!deployment, Gate!tables, Gate!Serving, Gate!At
<1>2. \A c \in Clients : SessionOK(jar[c])'
    BY <1>1 DEF RoutesOpen, SessionOK
<1>3. \A t \in Threads : InPlace(t)'
    BY <1>1 DEF RoutesOpen, InPlace, RequestOK, CallerIsKnown, Passed, Serving
<1> QED BY <1>1, <1>2, <1>3 DEF RoutesOpen

\* Whatever is done to accounts and roles, each request sees.
LEMMA WatchedInPlace ==
    ASSUME RoutesOpen, Gate!Watch, NEW t \in Threads, UNCHANGED <<profile, day>>,
           RequestOK(t)', Serving(t)' <=> Serving(t),
           Serving(t) => /\ request'[t].cookie = request[t].cookie
                         /\ request'[t].decision = request[t].decision
    PROVE  /\ CallerIsKnown(t)'
           /\ held[t] \subseteq held'[t] /\ (touched[t] => touched'[t])
<1> DEFINE u == User(t)
<1>1. t \in Gate!Serving <=> Serving(t)
    BY DEF Gate!Serving, Gate!At, Serving
<1>2. /\ Serving(t) => held'[t] = held[t] \cup Gate!Rights'[u]
      /\ ~Serving(t) => held'[t] = held[t]
    BY <1>1 DEF Gate!Watch, User
<1>3. touched'[t] <=> (touched[t] \/ (/\ Serving(t) /\ u # Gate!Anonymous
                                    /\ account'[u] # account[u]))
    BY <1>1, Zenon DEF Gate!Watch, User
<1>4. CallerIsKnown(t)
    BY DEF RoutesOpen, InPlace
<1>5. CASE Serving(t)
    BY <1>2, <1>3, <1>4, <1>5 DEF CallerIsKnown, Serving, User
<1>6. CASE ~Serving(t)
    BY <1>2, <1>3, <1>6 DEF CallerIsKnown, Serving
<1> QED BY <1>5, <1>6

LEMMA ElsewhereInPlace ==
    ASSUME RoutesOpen, Gate!Elsewhere PROVE RoutesOpen'
<1>1. /\ UNCHANGED <<router, profile, export, day, jar, request, answer>>
      /\ Gate!Watch
    BY DEF Gate!Elsewhere, Gate!Change, Gate!ChangeAccount, Gate!ChangeRole, Gate!deployment
<1>2. DOMAIN held' = Threads /\ touched' \in [Threads -> BOOLEAN]
    BY <1>1 DEF Gate!Watch, RoutesOpen
<1>3. \A c \in Clients : SessionOK(jar[c])'
    BY <1>1 DEF RoutesOpen, SessionOK
<1>4. ASSUME NEW t \in Threads PROVE InPlace(t)'
    <2>1. RequestOK(t)'
        BY <1>1 DEF RoutesOpen, InPlace, RequestOK, Serving, User, SessionOK
    <2>2. /\ CallerIsKnown(t)'
          /\ held[t] \subseteq held'[t] /\ (touched[t] => touched'[t])
        BY <1>1, <2>1, WatchedInPlace DEF Serving
    <2>3. Passed(t)
        BY DEF RoutesOpen, InPlace
    <2>4. GatePassed(t) => GatePassed(t)'
        BY <1>1, <2>2 DEF GatePassed
    <2>5. MayHandle(t) => MayHandle(t)'
        BY <1>1, <2>2 DEF MayHandle
    <2>6. Passed(t)'
        BY <1>1, <2>2, <2>3, <2>4, <2>5 DEF Passed
    <2> QED BY <2>1, <2>2, <2>6 DEF InPlace
<1> QED BY <1>1, <1>2, <1>3, <1>4 DEF RoutesOpen

LEMMA AdministerInPlace ==
    ASSUME RoutesOpen, NEW t \in Threads, Gate!Administer(t) PROVE RoutesOpen'
<1>1. /\ UNCHANGED <<router, profile, export, day, jar>> /\ Gate!Watch
      /\ request[t].at = "handling"
      /\ request' = [request EXCEPT ![t] = [request[t] EXCEPT !.at = "answered"]]
      /\ answer' = [answer EXCEPT ![t] = Gate!Saying("written", {})]
    BY DEF Gate!Administer, Gate!ChangeAccount, Gate!ChangeRole, Gate!deployment, Gate!Give,
           Gate!At
<1>2. /\ DOMAIN held' = Threads /\ touched' \in [Threads -> BOOLEAN]
      /\ DOMAIN request' = Threads /\ DOMAIN answer' = Threads
    BY <1>1 DEF Gate!Watch, RoutesOpen
<1>3. \A c \in Clients : SessionOK(jar[c])'
    BY <1>1 DEF RoutesOpen, SessionOK
<1>4. ASSUME NEW s \in Threads PROVE InPlace(s)'
    <2>1. InPlace(s)
        BY DEF RoutesOpen
    <2>2. CASE s # t
        <3>1. request'[s] = request[s] /\ answer'[s] = answer[s]
            BY <1>1, <2>2 DEF RoutesOpen
        <3>2. RequestOK(s)'
            BY <1>1, <2>1, <3>1 DEF InPlace, RequestOK, Serving, User, SessionOK
        <3>3. /\ CallerIsKnown(s)'
              /\ held[s] \subseteq held'[s] /\ (touched[s] => touched'[s])
            BY <1>1, <3>1, <3>2, WatchedInPlace DEF Serving
        <3>4. GatePassed(s) => GatePassed(s)'
            BY <1>1, <3>1, <3>3 DEF GatePassed
        <3>5. MayHandle(s) => MayHandle(s)'
            BY <3>1, <3>3 DEF MayHandle
        <3>6. Passed(s)'
            BY <1>1, <2>1, <3>1, <3>3, <3>4, <3>5 DEF InPlace, Passed
        <3> QED BY <3>2, <3>3, <3>6 DEF InPlace
    <2>3. CASE s = t
        <3>1. /\ request'[t].at = "answered" /\ DOMAIN request'[t] = RequestFields
              /\ request'[t].route = request[t].route /\ request'[t].client = request[t].client
              /\ request'[t].cookie = request[t].cookie
              /\ request'[t].decision = request[t].decision
              /\ answer'[t] = Gate!Saying("written", {})
            BY <1>1, <2>1, <2>3 DEF RoutesOpen, InPlace, RequestOK, Serving, RequestFields
        <3>2. answer'[t].what = "written" /\ answer'[t].codes = {}
            BY <3>1 DEF Gate!Saying
        <3>3. RequestOK(t)'
            BY <1>1, <2>1, <2>3, <3>1
            DEF InPlace, RequestOK, Serving, User, SessionOK, Places, RequestFields
        <3>4. /\ CallerIsKnown(t)'
              /\ held[t] \subseteq held'[t] /\ (touched[t] => touched'[t])
            BY <1>1, <3>1, <3>3, WatchedInPlace DEF Serving
        <3>5. GatePassed(t)' /\ MayHandle(t)'
            BY <1>1, <2>1, <2>3, <3>1, <3>4 DEF InPlace, Passed, GatePassed, MayHandle
        <3>6. Passed(t)'
            BY <3>1, <3>2, <3>5 DEF Passed
        <3> QED BY <2>3, <3>3, <3>4, <3>6 DEF InPlace
    <2> QED BY <2>2, <2>3
<1> QED BY <1>1, <1>2, <1>3, <1>4 DEF RoutesOpen

-----------------------------------------------------------------------------
(* The specification *)

LEMMA NextInPlace == IInv /\ [AccessNext]_<<area, vars, gateVars>> => IInv'
<1> SUFFICES ASSUME IInv, [AccessNext]_<<area, vars, gateVars>> PROVE IInv'
    OBVIOUS
<1>1. CASE UNCHANGED <<area, vars, gateVars>>
    <2>1. UNCHANGED <<area, router, profile, account, roles, day, jar, request, answer, held,
                      touched>>
        BY <1>1 DEF gateVars
    <2>2. CASE area = "limiter"
        BY <2>1, <2>2 DEF IInv
    <2>3. CASE area = "routes" /\ RoutesOpen
        <3>1. \A c \in Clients : SessionOK(jar[c])'
            BY <2>1, <2>3 DEF RoutesOpen, SessionOK
        <3>2. \A t \in Threads : InPlace(t)'
            BY <2>1, <2>3, OthersStay DEF RoutesOpen
        <3> QED BY <2>1, <2>3, <3>1, <3>2 DEF IInv, RoutesOpen
    <2> QED BY <2>2, <2>3 DEF IInv
<1>2. CASE area = "limiter" /\ UNCHANGED area /\ Next /\ UNCHANGED gateVars
    BY <1>2 DEF IInv, gateVars
<1>3. CASE area = "routes" /\ UNCHANGED area /\ Gate!Next
    <2>1. RoutesOpen
        BY <1>3 DEF IInv
    <2>2. RoutesOpen'
        <3>1. ASSUME NEW t \in Threads, NEW c \in Clients, Gate!Receive(t, c)
              PROVE  RoutesOpen'
            BY <2>1, <3>1, ReceiveInPlace
        <3>2. ASSUME NEW t \in Threads,
                     \/ Gate!EnterOpen(t) \/ Gate!Authenticate(t) \/ Gate!Permit(t)
                     \/ Gate!AskAgain(t) \/ Gate!TellMe(t) \/ Gate!Fails(t)
              PROVE  RoutesOpen'
            BY <2>1, <3>2, EnterOpenInPlace, AuthenticateInPlace, PermitInPlace, AskAgainInPlace,
               TellMeInPlace, FailsInPlace
        <3>3. ASSUME NEW t \in Threads,
                     \/ Gate!Project(t) \/ Gate!NextBatch(t) \/ Gate!Read(t) \/ Gate!Write(t)
                     \/ Gate!Administer(t) \/ Gate!Respond(t)
              PROVE  RoutesOpen'
            BY <2>1, <3>3, ProjectInPlace, NextBatchInPlace, ReadWriteInPlace,
               AdministerInPlace, RespondInPlace
        <3> QED BY <1>3, <2>1, <3>1, <3>2, <3>3, ElsewhereInPlace, BrowserInPlace,
                   NextDayInPlace DEF Gate!Next
    <2> QED BY <1>3, <2>2 DEF IInv
<1> QED BY <1>1, <1>2, <1>3 DEF AccessNext

\* What a request has passed and what was decided of its caller is what its
\* caller could do at one moment or another since it was received.
THEOREM AccessInvariant == AccessSpec => []IInv
BY InitInPlace, NextInPlace, PTL DEF AccessSpec

\* Whatever a request reads, writes or is told, on any route, its caller had the
\* rights to at a moment since it was received, unless its own account was changed.
THEOREM RequestsStayWithinRights == AccessSpec => []WithinRights
<1>1. IInv => WithinRights
    <2> SUFFICES ASSUME IInv, NEW t \in Threads, request[t].at = "answered",
                        answer[t] # Gate!Refused, ~touched[t]
                 PROVE  Gate!Needed(t) \subseteq held[t]
        BY DEF WithinRights, Gate!WithinRights, Gate!At
    <2>1. RoutesOpen
        BY DEF IInv
    <2>2. Passed(t)
        BY <2>1 DEF RoutesOpen, InPlace
    <2> QED BY <2>2 DEF Passed, GatePassed, MayHandle, Gate!Needed
<1> QED BY <1>1, AccessInvariant, PTL

\* No request is served for a session whose password was given longer ago than
\* twice its lifetime.
THEOREM EverySessionEnds == AccessSpec => []SessionsEnd
<1>1. IInv => SessionsEnd
    <2> SUFFICES ASSUME IInv, NEW t \in Threads, request[t].at # "idle",
                        User(t) # Gate!Anonymous
                 PROVE  day - request[t].cookie.opened <= 2 * Lifetime
        BY DEF SessionsEnd, Gate!SessionsEnd, Gate!Serving, Gate!At, User
    <2>1. RoutesOpen
        BY DEF IInv
    <2>2. RequestOK(t) /\ Serving(t) /\ day \in Nat
        BY <2>1 DEF RoutesOpen, InPlace, Serving
    <2> QED BY <2>2, LifetimeAssumption DEF RequestOK, SessionOK, User
<1> QED BY <1>1, AccessInvariant, PTL

-----------------------------------------------------------------------------
(* The limiter of login attempts                                            *)

\* A set that holds 0 and with each number the next one holds them all.
LEMMA SetInduction ==
    ASSUME NEW S, 0 \in S, \A n \in Nat : n \in S => n + 1 \in S
    PROVE  Nat \subseteq S
<1> DEFINE R == OpToRel(<, Nat)
           T == Nat \ S
<1>1. R = {ss \in Nat \X Nat : ss[1] < ss[2]}
    BY DEF OpToRel
<1>2. IsWellFoundedOn(R, Nat)
    BY NatLessThanWellFounded
<1> HIDE DEF R
<1>3. ASSUME T # {} PROVE FALSE
    <2>1. T \subseteq Nat
        OBVIOUS
    <2> HIDE DEF T
    <2>2. PICK x \in T : \A y \in T : ~ (<<y, x>> \in R)
        BY <1>2, <1>3, <2>1, WFMin
    <2> USE DEF T
    <2>3. x # 0 /\ x \in Nat
        OBVIOUS
    <2>4. x - 1 \in Nat /\ x - 1 \in T
        BY <2>3
    <2>5. <<x - 1, x>> \in R
        BY <1>1, <2>3, <2>4
    <2> QED BY <2>2, <2>4, <2>5
<1> QED BY <1>3

\* The first n doublings.
IsRounds(f, n) == f = [i \in 0 .. n |-> IF i = 0 THEN InitialBackoff ELSE Doubled(f[i - 1])]

LEMMA RoundsExist == \A n \in Nat : \E f : IsRounds(f, n)
<1> DEFINE T == {n \in Nat : \E f : IsRounds(f, n)}
<1>1. 0 \in T
    <2> DEFINE f == [i \in 0 .. 0 |-> InitialBackoff]
    <2>1. IsRounds(f, 0)
        BY DEF IsRounds
    <2> QED BY <2>1
<1>2. ASSUME NEW n \in Nat, n \in T PROVE n + 1 \in T
    <2>1. PICK f : IsRounds(f, n)
        BY <1>2
    <2> DEFINE g == [i \in 0 .. n + 1 |-> IF i = n + 1 THEN Doubled(f[n]) ELSE f[i]]
               h == [i \in 0 .. n + 1 |-> IF i = 0 THEN InitialBackoff ELSE Doubled(g[i - 1])]
    <2>2. ASSUME NEW i \in 0 .. n + 1 PROVE g[i] = h[i]
        <3>1. CASE i = n + 1
            BY <3>1
        <3>2. CASE i # n + 1
            <4>1. f[i] = IF i = 0 THEN InitialBackoff ELSE Doubled(f[i - 1])
                BY <2>1, <3>2 DEF IsRounds
            <4>2. i # 0 => g[i - 1] = f[i - 1]
                BY <3>2
            <4> QED BY <3>2, <4>1, <4>2
        <3> QED BY <3>1, <3>2
    <2>3. g = h
        BY <2>2
    <2>4. IsRounds(g, n + 1)
        <3> HIDE DEF g
        <3> QED BY <2>3 DEF IsRounds
    <2> HIDE DEF g
    <2> QED BY <2>4
<1> HIDE DEF T
<1>3. Nat \subseteq T
    BY <1>1, <1>2, SetInduction
<1> QED BY <1>3 DEF T

LEMMA RoundsAgree ==
    ASSUME NEW n \in Nat, NEW f, NEW g, IsRounds(f, n), IsRounds(g, n + 1)
    PROVE  f[n] = g[n]
<1> DEFINE T == {i \in Nat : i <= n => f[i] = g[i]}
<1>1. 0 \in T
    BY DEF IsRounds
<1>2. ASSUME NEW i \in Nat, i \in T PROVE i + 1 \in T
    <2> SUFFICES ASSUME i + 1 <= n PROVE f[i + 1] = g[i + 1]
        OBVIOUS
    <2>1. f[i + 1] = Doubled(f[i]) /\ g[i + 1] = Doubled(g[i])
        BY DEF IsRounds
    <2> QED BY <1>2, <2>1
<1> HIDE DEF T
<1>3. n \in T
    BY <1>1, <1>2, SetInduction
<1> QED BY <1>3 DEF T

LEMMA RoundsIs ==
    Rounds = [n \in Nat |-> IF n = 0 THEN InitialBackoff ELSE Doubled(Rounds[n - 1])]
<1> DEFINE first(n) == CHOOSE f : IsRounds(f, n)
           g == [n \in Nat |-> first(n)[n]]
           h == [n \in Nat |-> IF n = 0 THEN InitialBackoff ELSE Doubled(g[n - 1])]
<1>1. \A n \in Nat : IsRounds(first(n), n)
    BY RoundsExist
<1> HIDE DEF first
<1>2. ASSUME NEW n \in Nat PROVE g[n] = h[n]
    <2>1. CASE n = 0
        BY <1>1, <2>1 DEF IsRounds
    <2>2. CASE n # 0
        <3>1. PICK m \in Nat : n = m + 1
            BY <2>2
        <3>2. first(n)[n] = Doubled(first(n)[m])
            BY <1>1, <3>1 DEF IsRounds
        <3>3. first(m)[m] = first(n)[m]
            BY <1>1, <3>1, RoundsAgree
        <3> QED BY <3>1, <3>2, <3>3
    <2> QED BY <2>1, <2>2
<1>3. g = h
    BY <1>2
<1> HIDE DEF g
<1>4. \E f : f = [n \in Nat |-> IF n = 0 THEN InitialBackoff ELSE Doubled(f[n - 1])]
    BY <1>3
<1> QED BY <1>4 DEF Rounds

LEMMA RoundsGrow ==
    /\ \A n \in Nat : Rounds[n] \in 1 .. MaxBackoff
    /\ \A n \in Nat : Rounds[n] <= Rounds[n + 1]
<1>1. Rounds[0] = InitialBackoff /\ \A n \in Nat : Rounds[n + 1] = Doubled(Rounds[n])
    <2> DEFINE next(n) == IF n = 0 THEN InitialBackoff ELSE Doubled(Rounds[n - 1])
    <2>1. \A n \in Nat : Rounds[n] = next(n)
        BY RoundsIs
    <2>2. next(0) = InitialBackoff /\ \A n \in Nat : next(n + 1) = Doubled(Rounds[n])
        OBVIOUS
    <2> HIDE DEF next
    <2> QED BY <2>1, <2>2
<1>2. \A w \in 1 .. MaxBackoff : Doubled(w) \in 1 .. MaxBackoff /\ w <= Doubled(w)
    BY PolicyAssumption DEF Doubled
<1> DEFINE T == {n \in Nat : Rounds[n] \in 1 .. MaxBackoff}
<1>3. 0 \in T
    BY <1>1, PolicyAssumption
<1>4. \A n \in Nat : n \in T => n + 1 \in T
    BY <1>1, <1>2
<1> HIDE DEF T
<1>5. Nat \subseteq T
    BY <1>3, <1>4, SetInduction
<1> USE DEF T
<1> QED BY <1>1, <1>2, <1>5

\* Another failure never shortens the block.
LEMMA BlocksGrow ==
    ASSUME NEW n \in Nat, NEW t \in Nat
    PROVE  /\ BlockedUntil(n, t) \in Nat
           /\ n >= Threshold => /\ BlockedUntil(n, t) > t
                                /\ \A u \in Nat : BlockedUntil(n + 1, u) - u >= BlockedUntil(n, t) - t
<1>1. Threshold \in Nat
    BY PolicyAssumption
<1>2. CASE n < Threshold
    BY <1>1, <1>2 DEF BlockedUntil
<1>3. CASE n >= Threshold
    <2>1. n - Threshold \in Nat /\ (n + 1) - Threshold = (n - Threshold) + 1
        BY <1>1, <1>3
    <2>2. /\ Rounds[n - Threshold] \in 1 .. MaxBackoff
          /\ Rounds[(n + 1) - Threshold] \in 1 .. MaxBackoff
          /\ Rounds[n - Threshold] <= Rounds[(n + 1) - Threshold]
        BY <2>1, RoundsGrow
    <2>3. BlockedUntil(n, t) = t + Rounds[n - Threshold]
        BY <1>3 DEF BlockedUntil, Backoff
    <2>4. \A u \in Nat : BlockedUntil(n + 1, u) = u + Rounds[(n + 1) - Threshold]
        BY <1>1, <1>3 DEF BlockedUntil, Backoff
    <2>5. MaxBackoff \in Nat
        BY PolicyAssumption
    <2> QED BY <2>2, <2>3, <2>4, <2>5
<1> QED BY <1>1, <1>2, <1>3

-----------------------------------------------------------------------------
(* The keys of the table in their order                                     *)

Keep(S, kept, i) == IF order[i] \in S THEN Append(kept, order[i]) ELSE kept

IsKeeping(f, S, n) ==
    f = [t \in SUBSET (1 .. n) |->
           IF t = {} THEN <<>> ELSE Keep(S, f[t \ {Max(t)}], Max(t))]

LEMMA MaxOf ==
    ASSUME NEW n \in Nat, NEW t \in SUBSET (1 .. n + 1), n + 1 \in t
    PROVE  Max(t) = n + 1
<1>1. n + 1 \in t /\ \A y \in t : n + 1 >= y
    OBVIOUS
<1>2. \A x \in t : (\A y \in t : x >= y) => x = n + 1
    OBVIOUS
<1> QED BY <1>1, <1>2 DEF Max

LEMMA KeepingExists ==
    ASSUME NEW S, NEW n \in Nat
    PROVE  \E f : IsKeeping(f, S, n)
<1> DEFINE T == {m \in Nat : \E f : IsKeeping(f, S, m)}
<1>1. 0 \in T
    <2> DEFINE f == [t \in SUBSET (1 .. 0) |-> <<>>]
    <2>1. \A t \in SUBSET (1 .. 0) : t = {}
        OBVIOUS
    <2>2. f = [t \in SUBSET (1 .. 0) |->
                 IF t = {} THEN <<>> ELSE Keep(S, f[t \ {Max(t)}], Max(t))]
        BY <2>1
    <2> HIDE DEF f
    <2>3. IsKeeping(f, S, 0)
        BY <2>2 DEF IsKeeping
    <2> QED BY <2>3
<1>2. ASSUME NEW m \in Nat, m \in T PROVE m + 1 \in T
    <2>1. PICK f : IsKeeping(f, S, m)
        BY <1>2
    <2> DEFINE g == [t \in SUBSET (1 .. m + 1) |->
                       IF m + 1 \in t THEN Keep(S, f[t \ {m + 1}], m + 1) ELSE f[t]]
               h == [t \in SUBSET (1 .. m + 1) |->
                       IF t = {} THEN <<>> ELSE Keep(S, g[t \ {Max(t)}], Max(t))]
    <2>2. ASSUME NEW t \in SUBSET (1 .. m + 1) PROVE g[t] = h[t]
        <3>1. CASE m + 1 \in t
            <4>1. Max(t) = m + 1 /\ t # {}
                BY <3>1, MaxOf
            <4>2. t \ {m + 1} \in SUBSET (1 .. m + 1) /\ m + 1 \notin t \ {m + 1}
                OBVIOUS
            <4>3. g[t \ {m + 1}] = f[t \ {m + 1}]
                BY <4>2
            <4>4. g[t] = Keep(S, f[t \ {m + 1}], m + 1)
                BY <3>1
            <4>5. h[t] = Keep(S, g[t \ {m + 1}], m + 1)
                BY <4>1
            <4> QED BY <4>3, <4>4, <4>5
        <3>2. CASE m + 1 \notin t
            <4>1. t \in SUBSET (1 .. m) /\ g[t] = f[t]
                BY <3>2
            <4>2. f[t] = IF t = {} THEN <<>> ELSE Keep(S, f[t \ {Max(t)}], Max(t))
                BY <2>1, <4>1 DEF IsKeeping
            <4>3. t # {} => g[t \ {Max(t)}] = f[t \ {Max(t)}]
                BY <3>2
            <4> QED BY <4>1, <4>2, <4>3
        <3> QED BY <3>1, <3>2
    <2>3. g = h
        BY <2>2
    <2>4. IsKeeping(g, S, m + 1)
        <3> HIDE DEF g
        <3> QED BY <2>3 DEF IsKeeping
    <2> HIDE DEF g
    <2> QED BY <2>4
<1> HIDE DEF T
<1>3. n \in T
    BY <1>1, <1>2, SetInduction
<1> QED BY <1>3 DEF T

LEMMA KeepingIs ==
    ASSUME NEW S, NEW n \in Nat, DOMAIN order = 1 .. n
    PROVE  \E f : IsKeeping(f, S, n) /\ Only(S) = f[1 .. n]
<1> DEFINE G == CHOOSE iter : iter = [t \in SUBSET (1 .. n) |->
              IF t = {} THEN <<>>
              ELSE LET x == Max(t) IN
                   IF order[x] \in S THEN Append(iter[t \ {x}], order[x]) ELSE iter[t \ {x}]]
<1>1. Only(S) = G[1 .. n]
    BY DEF Only, FoldLeft, MapThenFoldSet
<1>2. IsKeeping(G, S, n)
    <2> DEFINE Body(iter) == [t \in SUBSET (1 .. n) |->
                  IF t = {} THEN <<>>
                  ELSE LET x == Max(t) IN
                       IF order[x] \in S THEN Append(iter[t \ {x}], order[x]) ELSE iter[t \ {x}]]
               Keeping(iter) == [t \in SUBSET (1 .. n) |->
                  IF t = {} THEN <<>> ELSE Keep(S, iter[t \ {Max(t)}], Max(t))]
    <2>1. ASSUME NEW iter PROVE Body(iter) = Keeping(iter)
        <3>1. \A t \in SUBSET (1 .. n) : Body(iter)[t] = Keeping(iter)[t]
            BY DEF Keep
        <3> QED BY <3>1
    <2>2. G = CHOOSE iter : iter = Body(iter)
        OBVIOUS
    <2>3. \E f : f = Keeping(f)
        BY KeepingExists DEF IsKeeping
    <2> HIDE DEF G, Body
    <2>4. G = Body(G)
        BY <2>1, <2>2, <2>3
    <2>5. G = Keeping(G)
        BY <2>1, <2>4
    <2> QED BY <2>5 DEF IsKeeping
<1> HIDE DEF G
<1> QED BY <1>1, <1>2

\* Of the first n keys: which are kept, and whether any is not.
KeptOf(kept, S, n) ==
    /\ kept \in Seq(Key) /\ Len(kept) <= n
    /\ ToSet(kept) = {order[i] : i \in 1 .. n} \cap S
    /\ (\E i \in 1 .. n : order[i] \notin S) => Len(kept) < n
    /\ (\A i \in 1 .. n : order[i] \in S)
          => Len(kept) = n /\ \A i \in 1 .. n : kept[i] = order[i]

LEMMA AppendSet ==
    ASSUME NEW seq \in Seq(Key), NEW k \in Key
    PROVE  /\ ToSet(Append(seq, k)) = ToSet(seq) \cup {k}
           /\ Append(seq, k) \in Seq(Key) /\ Len(Append(seq, k)) = Len(seq) + 1
           /\ \A i \in 1 .. Len(seq) : Append(seq, k)[i] = seq[i]
           /\ Append(seq, k)[Len(seq) + 1] = k
<1>1. /\ DOMAIN seq = 1 .. Len(seq) /\ Len(seq) \in Nat
      /\ DOMAIN Append(seq, k) = 1 .. Len(seq) + 1
      /\ \A i \in 1 .. Len(seq) : Append(seq, k)[i] = seq[i]
      /\ Append(seq, k)[Len(seq) + 1] = k
      /\ Append(seq, k) \in Seq(Key) /\ Len(Append(seq, k)) = Len(seq) + 1
    BY AppendProperties
<1> QED BY <1>1 DEF ToSet

LEMMA KeepsOne ==
    ASSUME order \in Seq(Key), NEW S, NEW n \in Nat, n + 1 <= Len(order), NEW kept,
           KeptOf(kept, S, n)
    PROVE  KeptOf(Keep(S, kept, n + 1), S, n + 1)
<1>1. order[n + 1] \in Key /\ Len(order) \in Nat
    BY ElementOfSeq
<1>2. \A i : i \in 1 .. n + 1 <=> i \in 1 .. n \/ i = n + 1
    OBVIOUS
<1>3. Len(kept) \in Nat /\ Len(kept) <= n
    BY LenProperties DEF KeptOf
<1>4. CASE order[n + 1] \in S
    <2> DEFINE new == Append(kept, order[n + 1])
    <2>1. Keep(S, kept, n + 1) = new
        BY <1>4 DEF Keep
    <2>2. /\ ToSet(new) = ToSet(kept) \cup {order[n + 1]} /\ new \in Seq(Key)
          /\ Len(new) = Len(kept) + 1 /\ new[Len(kept) + 1] = order[n + 1]
          /\ \A i \in 1 .. Len(kept) : new[i] = kept[i]
        BY <1>1, AppendSet DEF KeptOf
    <2> HIDE DEF new
    <2>3. ToSet(new) = {order[i] : i \in 1 .. n + 1} \cap S
        BY <1>2, <1>4, <2>2 DEF KeptOf
    <2>4. (\E i \in 1 .. n + 1 : order[i] \notin S) => Len(new) < n + 1
        BY <1>2, <1>3, <1>4, <2>2 DEF KeptOf
    <2>5. (\A i \in 1 .. n + 1 : order[i] \in S)
             => Len(new) = n + 1 /\ \A i \in 1 .. n + 1 : new[i] = order[i]
        BY <1>2, <1>3, <2>2 DEF KeptOf
    <2> QED BY <1>3, <2>1, <2>2, <2>3, <2>4, <2>5 DEF KeptOf
<1>5. CASE order[n + 1] \notin S
    <2>1. Keep(S, kept, n + 1) = kept
        BY <1>5 DEF Keep
    <2>2. ToSet(kept) = {order[i] : i \in 1 .. n + 1} \cap S
        BY <1>2, <1>5 DEF KeptOf
    <2> QED BY <1>2, <1>3, <1>5, <2>1, <2>2 DEF KeptOf
<1> QED BY <1>4, <1>5

\* The keys in S, in their order; all of them only if it is the whole order.
LEMMA OnlyIs ==
    ASSUME order \in Seq(Key), NEW S
    PROVE  KeptOf(Only(S), S, Len(order))
<1>1. Len(order) \in Nat /\ DOMAIN order = 1 .. Len(order)
    BY LenProperties
<1>2. PICK f : IsKeeping(f, S, Len(order)) /\ Only(S) = f[1 .. Len(order)]
    BY <1>1, KeepingIs
<1> DEFINE T == {n \in Nat : n <= Len(order) => KeptOf(f[1 .. n], S, n)}
<1>3. 0 \in T
    <2>1. 1 .. 0 = {} /\ {} \in SUBSET (1 .. Len(order))
        OBVIOUS
    <2>2. f[{}] = <<>>
        BY <1>2, <2>1 DEF IsKeeping
    <2>3. <<>> \in Seq(Key) /\ Len(<<>>) = 0 /\ ToSet(<<>>) = {}
        BY DEF ToSet
    <2>4. {order[i] : i \in 1 .. 0} = {}
        BY <2>1
    <2>5. KeptOf(<<>>, S, 0)
        BY <2>1, <2>3, <2>4 DEF KeptOf
    <2> QED BY <2>1, <2>2, <2>5
<1>4. ASSUME NEW n \in Nat, n \in T PROVE n + 1 \in T
    <2> SUFFICES ASSUME n + 1 <= Len(order) PROVE KeptOf(f[1 .. n + 1], S, n + 1)
        OBVIOUS
    <2>1. KeptOf(f[1 .. n], S, n)
        BY <1>1, <1>4
    <2>2. /\ 1 .. n + 1 \in SUBSET (1 .. Len(order)) /\ n + 1 \in 1 .. n + 1
          /\ (1 .. n + 1) \ {n + 1} = 1 .. n
        <3>1. \A i \in 1 .. n + 1 : i \in 1 .. Len(order)
            BY <1>1
        <3>2. n + 1 \in 1 .. n + 1
            OBVIOUS
        <3>3. \A i : i \in (1 .. n + 1) \ {n + 1} <=> i \in 1 .. n
            OBVIOUS
        <3>4. (1 .. n + 1) \ {n + 1} = 1 .. n
            BY <3>3
        <3> QED BY <3>1, <3>2, <3>4
    <2>3. Max(1 .. n + 1) = n + 1
        BY MaxOf
    <2>4. f[1 .. n + 1] = Keep(S, f[1 .. n], n + 1)
        BY <1>2, <2>2, <2>3 DEF IsKeeping
    <2> QED BY <2>1, <2>4, KeepsOne
<1> HIDE DEF T
<1>5. Len(order) \in T
    BY <1>1, <1>3, <1>4, SetInduction
<1> QED BY <1>1, <1>2, <1>5 DEF T

-----------------------------------------------------------------------------
(* What the limiter remembers                                               *)

FailureFields == {"window", "last", "count", "blocked"}

\* The block of a key follows from its failures and the time of the last one.
TableOK ==
    /\ order \in Seq(Key) /\ Len(order) <= MaxEntries /\ ToSet(order) = DOMAIN entry
    /\ \A k \in DOMAIN entry :
          /\ DOMAIN entry[k] = FailureFields
          /\ entry[k].window \in Nat /\ entry[k].last \in 0 .. now
          /\ entry[k].count \in Nat
          /\ entry[k].blocked = BlockedUntil(entry[k].count, entry[k].last)

\* A handler's reading of the clock is not older than the delay.
HandlersOK ==
    /\ DOMAIN pc = Attempt /\ DOMAIN read = Attempt /\ key \in [Attempt -> Key]
    /\ \A a \in Attempt :
          /\ read[a] \in 0 .. now
          /\ pc[a] \notin {"idle", "authenticating"} => now - read[a] <= MaxDelay

LimiterOK == now \in Nat /\ TableOK /\ HandlersOK

LimiterInv == area = "limiter" => LimiterOK

\* How a method leaves the table: it keeps the keys in S, and moves one to the end.
LEMMA RetainKeeps ==
    ASSUME LimiterOK, now' = now, NEW S, S \subseteq DOMAIN entry, Retain(S)
    PROVE  TableOK'
<1>1. KeptOf(Only(S), S, Len(order)) /\ Len(order) \in Nat /\ Len(order) <= MaxEntries
    BY OnlyIs, LenProperties DEF LimiterOK, TableOK
<1>2. {order[i] : i \in 1 .. Len(order)} = ToSet(order)
    BY LenProperties DEF ToSet, LimiterOK, TableOK
<1>3. Len(Only(S)) \in Nat /\ MaxEntries \in Nat
    BY <1>1, LenProperties, PolicyAssumption DEF KeptOf
<1>4. /\ order' \in Seq(Key) /\ Len(order') <= MaxEntries /\ ToSet(order') = S
      /\ DOMAIN entry' = S /\ \A k \in S : entry'[k] = entry[k]
    BY <1>1, <1>2, <1>3 DEF Retain, KeptOf, LimiterOK, TableOK
<1> QED BY <1>4 DEF LimiterOK, TableOK

LEMMA MoveKeeps ==
    ASSUME order \in Seq(Key), Len(order) <= MaxEntries, ToSet(order) = DOMAIN entry,
           NEW S, S \subseteq DOMAIN entry, NEW k \in S,
           order' = Append(Only(S \ {k}), k)
    PROVE  order' \in Seq(Key) /\ Len(order') <= MaxEntries /\ ToSet(order') = S
<1>1. KeptOf(Only(S \ {k}), S \ {k}, Len(order)) /\ Len(order) \in Nat
    BY OnlyIs, LenProperties
<1>2. {order[i] : i \in 1 .. Len(order)} = ToSet(order)
    BY LenProperties DEF ToSet
<1>3. Len(Only(S \ {k})) < Len(order) /\ Len(Only(S \ {k})) \in Nat
    BY <1>1, <1>2, LenProperties DEF KeptOf
<1>4. k \in Key
    BY <1>2, ElementOfSeq
<1>5. Only(S \ {k}) \in Seq(Key) /\ ToSet(Only(S \ {k})) = S \ {k}
    BY <1>1, <1>2 DEF KeptOf
<1>6. /\ ToSet(order') = (S \ {k}) \cup {k} /\ order' \in Seq(Key)
      /\ Len(order') = Len(Only(S \ {k})) + 1
    BY <1>4, <1>5, AppendSet
<1>7. MaxEntries \in Nat
    BY PolicyAssumption
<1>8. Len(order') <= MaxEntries
    BY <1>1, <1>3, <1>6, <1>7
<1>9. (S \ {k}) \cup {k} = S
    OBVIOUS
<1> QED BY <1>6, <1>8, <1>9

\* A new key finds room: only the key least recently used goes, and only if all
\* entries are taken.
LEMMA EvictKeeps ==
    ASSUME order \in Seq(Key), Len(order) <= MaxEntries, ToSet(order) = DOMAIN entry,
           NEW S, S \subseteq DOMAIN entry, NEW k \in Key, k \notin S,
           order' = Append(Evicted(Only(S)), k)
    PROVE  /\ order' \in Seq(Key) /\ Len(order') <= MaxEntries
           /\ Evicted(Only(S)) \in Seq(Key)
           /\ ToSet(order') = ToSet(Evicted(Only(S))) \cup {k}
           /\ ToSet(Evicted(Only(S))) \subseteq S
           /\ \A l \in S : \/ l \in ToSet(Evicted(Only(S)))
                           \/ Len(order) >= MaxEntries /\ order[1] = l
<1> DEFINE s == Only(S)
<1>1. KeptOf(s, S, Len(order)) /\ Len(order) \in Nat /\ Len(s) \in Nat /\ s \in Seq(Key)
    BY OnlyIs, LenProperties DEF KeptOf
<1>2. MaxEntries \in Nat \ {0}
    BY PolicyAssumption
<1>3. {order[i] : i \in 1 .. Len(order)} = ToSet(order)
    BY LenProperties DEF ToSet
<1>4. ToSet(s) = S
    BY <1>1, <1>3 DEF KeptOf
<1>5. CASE Len(s) < MaxEntries
    <2>1. Evicted(s) = s
        BY <1>1, <1>2, <1>5 DEF Evicted
    <2>2. ToSet(order') = S \cup {k} /\ order' \in Seq(Key) /\ Len(order') = Len(s) + 1
        BY <1>1, <1>4, <2>1, AppendSet
    <2> QED BY <1>1, <1>2, <1>4, <1>5, <2>1, <2>2
<1>6. CASE Len(s) >= MaxEntries
    <2>1. Len(s) = MaxEntries /\ Len(order) = MaxEntries
        BY <1>1, <1>2, <1>6 DEF KeptOf
    <2>2. \A i \in 1 .. MaxEntries : order[i] \in S /\ s[i] = order[i]
        BY <1>1, <2>1 DEF KeptOf
    <2> DEFINE rest == SubSeq(s, 2, MaxEntries)
    <2>3. Evicted(s) = rest
        BY <1>2, <2>1 DEF Evicted
    <2>4. /\ rest \in Seq(Key) /\ Len(rest) = MaxEntries - 1
          /\ \A i \in 1 .. MaxEntries - 1 : rest[i] = s[i + 1]
        BY <1>1, <1>2, <2>1, SubSeqProperties
    <2> HIDE DEF rest
    <2>5. DOMAIN rest = 1 .. MaxEntries - 1
        BY <2>4, LenProperties
    <2>6. \A i \in 2 .. MaxEntries : s[i] \in ToSet(rest)
        <3> TAKE i \in 2 .. MaxEntries
        <3>1. i - 1 \in DOMAIN rest /\ rest[i - 1] = s[i]
            BY <1>2, <2>4, <2>5
        <3> QED BY <3>1 DEF ToSet
    <2>7. ToSet(rest) \subseteq S
        <3> SUFFICES ASSUME NEW i \in DOMAIN rest PROVE rest[i] \in S
            BY DEF ToSet
        <3>1. i + 1 \in 1 .. MaxEntries /\ rest[i] = s[i + 1]
            BY <1>2, <2>4, <2>5
        <3> QED BY <2>2, <3>1
    <2>8. ASSUME NEW l \in S PROVE l \in ToSet(rest) \/ order[1] = l
        <3>1. PICK i \in DOMAIN s : s[i] = l
            BY <1>4 DEF ToSet
        <3>2. i \in 1 .. MaxEntries
            BY <1>1, <2>1, <3>1, LenProperties
        <3> QED BY <1>2, <2>2, <2>6, <3>1, <3>2
    <2>9. /\ ToSet(order') = ToSet(rest) \cup {k} /\ order' \in Seq(Key)
          /\ Len(order') = MaxEntries - 1 + 1
        BY <2>3, <2>4, AppendSet
    <2> QED BY <1>2, <2>1, <2>3, <2>4, <2>7, <2>8, <2>9
<1> QED BY <1>1, <1>2, <1>5, <1>6

LEMMA EntryTypes ==
    ASSUME LimiterOK, NEW k \in DOMAIN entry
    PROVE  /\ entry[k].window \in Nat /\ entry[k].last \in Nat /\ entry[k].last <= now
           /\ entry[k].count \in Nat /\ entry[k].blocked \in Nat
           /\ entry[k].blocked = BlockedUntil(entry[k].count, entry[k].last)
<1>1. /\ entry[k].window \in Nat /\ entry[k].last \in 0 .. now /\ entry[k].count \in Nat
      /\ entry[k].blocked = BlockedUntil(entry[k].count, entry[k].last) /\ now \in Nat
    BY DEF LimiterOK, TableOK
<1>2. entry[k].last \in Nat /\ entry[k].last <= now
    BY <1>1
<1> QED BY <1>1, <1>2, BlocksGrow

LEMMA KeptAreKnown ==
    ASSUME LimiterOK, NEW t \in 0 .. now
    PROVE  /\ Kept(t) \subseteq DOMAIN entry
           /\ \A k \in Key : Counts(k) => Known(k, t) /\ k \in Kept(t)
           /\ \A k \in Kept(t) : entry[k].count \in Nat /\ entry[k].blocked \in Nat
<1>1. \A k \in DOMAIN entry :
         /\ entry[k].window \in Nat /\ entry[k].last \in Nat /\ entry[k].last <= now
         /\ entry[k].count \in Nat /\ entry[k].blocked \in Nat
    BY EntryTypes
<1>2. now \in Nat /\ t \in Nat /\ t <= now /\ Window \in Nat /\ Ttl \in Nat
    BY PolicyAssumption DEF LimiterOK
<1>3. ASSUME NEW k \in Key, Counts(k) PROVE Known(k, t) /\ k \in Kept(t)
    <2>1. CASE entry[k].blocked > now
        BY <1>1, <1>2, <1>3, <2>1 DEF Counts, Blocked, Known, Kept, WindowIsOver
    <2>2. CASE now - entry[k].window < Window /\ now - entry[k].last < Ttl
        BY <1>1, <1>2, <1>3, <2>2 DEF Counts, Blocked, Known, Kept, WindowIsOver
    <2> QED BY <1>3, <2>1, <2>2 DEF Counts, Blocked
<1> QED BY <1>1, <1>3 DEF Kept

LEMMA HandlersStep ==
    ASSUME LimiterOK, NEW a \in Attempt, now' = now, DOMAIN pc' = Attempt,
           DOMAIN read' = Attempt, key' \in [Attempt -> Key],
           \A b \in Attempt \ {a} : pc'[b] = pc[b] /\ read'[b] = read[b],
           \/ read'[a] = now
           \/ read'[a] = 0 /\ pc'[a] \in {"idle", "authenticating"}
    PROVE  HandlersOK'
<1>1. now \in Nat /\ HandlersOK /\ MaxDelay \in Nat
    BY BoundsAssumption DEF LimiterOK
<1>2. /\ read'[a] \in 0 .. now
      /\ pc'[a] \notin {"idle", "authenticating"} => now - read'[a] <= MaxDelay
    BY <1>1
<1> QED BY <1>1, <1>2 DEF HandlersOK

LEMMA ReturnStep ==
    ASSUME LimiterOK, NEW a \in Attempt, NEW from, NEW to \in {"idle", "authenticating"},
           Return(a, from, to)
    PROVE  HandlersOK' /\ pc[a] = from /\ pc'[a] = to /\ UNCHANGED <<now, key>>
           /\ \A b \in Attempt \ {a} : pc'[b] = pc[b]
<1>1. /\ pc[a] = from /\ pc'[a] = to /\ read'[a] = 0 /\ UNCHANGED <<now, key>>
      /\ DOMAIN pc' = Attempt /\ DOMAIN read' = Attempt /\ key \in [Attempt -> Key]
      /\ \A b \in Attempt \ {a} : pc'[b] = pc[b] /\ read'[b] = read[b]
    BY DEF Return, LimiterOK, HandlersOK
<1> QED BY <1>1, HandlersStep

LEMMA CallStep ==
    ASSUME LimiterOK, NEW a \in Attempt, NEW method, Call(a, method),
           key' \in [Attempt -> Key]
    PROVE  LimiterOK' /\ UNCHANGED states /\ pc'[a] = method
           /\ \A b \in Attempt \ {a} : pc'[b] = pc[b]
<1>1. /\ pc'[a] = method /\ read'[a] = now /\ UNCHANGED <<now, entry, order>>
      /\ DOMAIN pc' = Attempt /\ DOMAIN read' = Attempt
      /\ \A b \in Attempt \ {a} : pc'[b] = pc[b] /\ read'[b] = read[b]
    BY DEF Call, LimiterOK, HandlersOK, states
<1>2. HandlersOK'
    BY <1>1, HandlersStep
<1> QED BY <1>1, <1>2 DEF LimiterOK, TableOK, states

\* What a step may never do: forget, let in, or unblock.
Remembers ==
    /\ \A k \in Key :
          Counts(k) /\ ~MayForget(k) =>
             k \in DOMAIN entry' /\ entry'[k].count >= entry[k].count
    /\ \A a \in Attempt :
          pc[a] = "checking" /\ pc'[a] = "authenticating" => ~Blocked(key[a])
    /\ \A k \in Key :
          Blocked(k) /\ k \in DOMAIN entry' =>
             entry'[k].blocked >= entry[k].blocked - MaxDelay

LEMMA BlockedCounts ==
    ASSUME NEW k, Blocked(k)
    PROVE  Counts(k)
BY DEF Blocked, Counts

\* The table keeps what still counts, unchanged.
LEMMA KeepingRemembers ==
    ASSUME LimiterOK, NEW a \in Attempt, NEW S, S \subseteq DOMAIN entry, now' = now,
           \A k \in Key : Counts(k) => k \in S \/ MayForget(k),
           S \subseteq DOMAIN entry', \A k \in S : entry'[k] = entry[k],
           \A k \in DOMAIN entry' \ S : ~Counts(k),
           \A b \in Attempt \ {a} : pc'[b] = pc[b],
           pc[a] = "checking" /\ pc'[a] = "authenticating" => ~Blocked(key[a])
    PROVE  Remembers
<1>1. \A k \in DOMAIN entry : entry[k].count \in Nat /\ entry[k].blocked \in Nat
    BY EntryTypes
<1>2. MaxDelay \in Nat
    BY BoundsAssumption
<1>3. \A k \in Key :
         Counts(k) /\ ~MayForget(k) => k \in DOMAIN entry' /\ entry'[k].count >= entry[k].count
    BY <1>1
<1>4. ASSUME NEW k \in Key, Blocked(k), k \in DOMAIN entry'
      PROVE  entry'[k].blocked >= entry[k].blocked - MaxDelay
    <2>1. k \in S
        BY <1>4, BlockedCounts
    <2> QED BY <1>1, <1>2, <2>1
<1>5. ASSUME NEW b \in Attempt, pc[b] = "checking", pc'[b] = "authenticating"
      PROVE  ~Blocked(key[b])
    BY <1>5
<1> QED BY <1>3, <1>4, <1>5 DEF Remembers

\* The methods, each with its return.
LEMMA RetainingStep ==
    ASSUME LimiterOK, NEW a \in Attempt, NEW from, NEW to \in {"idle", "authenticating"},
           Return(a, from, to), NEW S, S \subseteq DOMAIN entry, Retain(S),
           \A k \in Key : Counts(k) => k \in S \/ MayForget(k),
           from = "checking" /\ to = "authenticating" => ~Blocked(key[a])
    PROVE  LimiterOK' /\ Remembers
<1>1. HandlersOK' /\ pc[a] = from /\ pc'[a] = to /\ UNCHANGED <<now, key>>
      /\ \A b \in Attempt \ {a} : pc'[b] = pc[b]
    BY ReturnStep
<1>2. TableOK'
    BY <1>1, RetainKeeps
<1>3. DOMAIN entry' = S /\ \A k \in S : entry'[k] = entry[k]
    BY DEF Retain
<1>4. Remembers
    BY <1>1, <1>3, KeepingRemembers
<1> QED BY <1>1, <1>2, <1>4 DEF LimiterOK

LEMMA CheckFreshStep ==
    ASSUME LimiterOK, NEW a \in Attempt, CheckFresh(a)
    PROVE  LimiterOK' /\ Remembers
<1>1. read[a] \in 0 .. now /\ key[a] \in Key
    BY DEF LimiterOK, HandlersOK
<1>2. \A k \in Key : Counts(k) => k \in Kept(read[a]) \ {key[a]}
    BY <1>1, KeptAreKnown DEF CheckFresh
<1>3. ~Blocked(key[a])
    BY <1>1, KeptAreKnown, BlockedCounts DEF CheckFresh
<1>4. Kept(read[a]) \ {key[a]} \subseteq DOMAIN entry
    BY DEF Kept
<1> QED BY <1>2, <1>3, <1>4, RetainingStep DEF CheckFresh

LEMMA RecordSuccessStep ==
    ASSUME LimiterOK, NEW a \in Attempt, RecordSuccess(a)
    PROVE  LimiterOK' /\ Remembers
<1>1. read[a] \in 0 .. now /\ key[a] \in Key
    BY DEF LimiterOK, HandlersOK
<1>2. pc[a] = "succeeding" /\ pc'[a] = "idle"
    BY ReturnStep DEF RecordSuccess
<1>3. MayForget(key[a])
    BY <1>2 DEF MayForget
<1>4. \A k \in Key : Counts(k) => k \in Kept(read[a]) \ {key[a]} \/ MayForget(k)
    BY <1>1, <1>3, KeptAreKnown
<1>5. Kept(read[a]) \ {key[a]} \subseteq DOMAIN entry
    BY DEF Kept
<1> QED BY <1>4, <1>5, RetainingStep DEF RecordSuccess

LEMMA FailureCountForStep ==
    ASSUME LimiterOK, NEW a \in Attempt, FailureCountFor(a)
    PROVE  LimiterOK' /\ Remembers
<1>1. read[a] \in 0 .. now /\ key[a] \in Key
    BY DEF LimiterOK, HandlersOK
<1>2. PICK S : /\ Retain(S) /\ S \subseteq DOMAIN entry
               /\ \A k \in Key : Counts(k) => k \in S
    <2>1. CASE Known(key[a], read[a])
        BY <1>1, <2>1, KeptAreKnown DEF FailureCountFor
    <2>2. CASE ~Known(key[a], read[a])
        BY <1>1, <2>2, KeptAreKnown DEF FailureCountFor
    <2> QED BY <2>1, <2>2
<1> QED BY <1>2, RetainingStep DEF FailureCountFor

LEMMA UnavailableStep ==
    ASSUME LimiterOK, NEW a \in Attempt, Unavailable(a)
    PROVE  LimiterOK' /\ Remembers
<1>1. UNCHANGED <<entry, order>>
    BY DEF Unavailable, states
<1>2. HandlersOK' /\ pc'[a] = "idle" /\ UNCHANGED <<now, key>>
      /\ \A b \in Attempt \ {a} : pc'[b] = pc[b]
    BY ReturnStep DEF Unavailable
<1>3. LimiterOK'
    BY <1>1, <1>2 DEF LimiterOK, TableOK
<1>4. \A k \in Key : Counts(k) => k \in DOMAIN entry
    BY DEF Counts
<1>5. Remembers
    BY <1>1, <1>2, <1>4, KeepingRemembers
<1> QED BY <1>3, <1>5

LEMMA CheckKnownStep ==
    ASSUME LimiterOK, NEW a \in Attempt, CheckKnown(a)
    PROVE  LimiterOK' /\ Remembers
<1> DEFINE k == key[a]
           t == read[a]
           S == Kept(t)
           to == IF entry[k].blocked > t THEN "idle" ELSE "authenticating"
<1>1. /\ t \in 0 .. now /\ now \in Nat /\ k \in Key /\ TableOK
      /\ order \in Seq(Key) /\ Len(order) <= MaxEntries /\ ToSet(order) = DOMAIN entry
    BY DEF LimiterOK, HandlersOK, TableOK
<1>2. /\ Known(k, t) /\ Return(a, "checking", to)
      /\ entry' = [l \in S |-> entry[l]] /\ order' = Append(Only(S \ {k}), k)
    BY DEF CheckKnown
<1>3. S \subseteq DOMAIN entry /\ k \in S /\ entry[k].blocked \in Nat
    BY <1>1, <1>2, KeptAreKnown DEF Known
<1>4. HandlersOK' /\ pc'[a] = to /\ pc[a] = "checking" /\ UNCHANGED <<now, key>>
      /\ \A b \in Attempt \ {a} : pc'[b] = pc[b]
    BY <1>2, ReturnStep
<1>5. order' \in Seq(Key) /\ Len(order') <= MaxEntries /\ ToSet(order') = S
    BY <1>1, <1>2, <1>3, MoveKeeps
<1>6. DOMAIN entry' = S /\ \A l \in S : entry'[l] = entry[l]
    BY <1>2
<1>7. TableOK'
    BY <1>1, <1>3, <1>4, <1>5, <1>6 DEF TableOK
<1>8. to = "authenticating" => ~Blocked(k)
    BY <1>1, <1>3 DEF Blocked
<1>9. Remembers
    BY <1>1, <1>3, <1>4, <1>6, <1>8, KeptAreKnown, KeepingRemembers
<1> QED BY <1>1, <1>4, <1>7, <1>9 DEF LimiterOK

LEMMA RecordFirstStep ==
    ASSUME LimiterOK, NEW a \in Attempt, RecordFirst(a)
    PROVE  LimiterOK' /\ Remembers
<1>0. PICK k, t : k = key[a] /\ t = read[a]
    OBVIOUS
<1> DEFINE S == Kept(t) \ {k}
           others == Evicted(Only(S))
           first == [window |-> t, last |-> t, count |-> 1, blocked |-> BlockedUntil(1, t)]
<1>1. /\ t \in 0 .. now /\ now \in Nat /\ k \in Key /\ TableOK
      /\ order \in Seq(Key) /\ Len(order) <= MaxEntries /\ ToSet(order) = DOMAIN entry
    BY <1>0 DEF LimiterOK, HandlersOK, TableOK
<1>2. /\ ~Known(k, t) /\ Return(a, "failing", "idle") /\ order' = Append(others, k)
      /\ entry' = [l \in {others[i] : i \in DOMAIN others} \cup {k} |->
                     IF l = k THEN first ELSE entry[l]]
    BY <1>0 DEF RecordFirst
<1>3. HandlersOK' /\ pc'[a] = "idle" /\ pc[a] = "failing" /\ UNCHANGED <<now, key>>
      /\ \A b \in Attempt \ {a} : pc'[b] = pc[b]
    BY <1>2, ReturnStep
<1>4. S \subseteq DOMAIN entry /\ k \notin S /\ \A l \in Key : Counts(l) => l \in S
    BY <1>1, <1>2, KeptAreKnown
<1> HIDE DEF S
<1>5. /\ order' \in Seq(Key) /\ Len(order') <= MaxEntries
      /\ ToSet(order') = ToSet(others) \cup {k}
      /\ ToSet(others) \subseteq S
      /\ \A l \in S : l \in ToSet(others) \/ (Len(order) >= MaxEntries /\ order[1] = l)
    BY <1>1, <1>2, <1>4, EvictKeeps
<1>6. /\ DOMAIN first = FailureFields /\ first.window = t /\ first.last = t /\ first.count = 1
      /\ first.blocked = BlockedUntil(1, t)
    BY DEF FailureFields
<1>7. /\ DOMAIN entry' = ToSet(others) \cup {k} /\ entry'[k] = first
      /\ \A l \in ToSet(others) : entry'[l] = entry[l]
    <2>1. ToSet(others) = {others[i] : i \in DOMAIN others} /\ k \notin ToSet(others)
        BY <1>4, <1>5 DEF ToSet
    <2> HIDE DEF others, first
    <2> QED BY <1>2, <2>1
<1> HIDE DEF others, first
<1>8. TableOK'
    <2>1. t \in Nat /\ 1 \in Nat
        BY <1>1
    <2>2. \A l \in DOMAIN entry' \ {k} : entry'[l] = entry[l] /\ l \in DOMAIN entry
        BY <1>4, <1>5, <1>7
    <2> QED BY <1>1, <1>3, <1>5, <1>6, <1>7, <2>1, <2>2 DEF TableOK
<1>9. \A l \in Key : Counts(l) => l \in ToSet(others) \/ MayForget(l)
    BY <1>0, <1>1, <1>3, <1>4, <1>5 DEF MayForget
<1>10. Remembers
    <2>1. ToSet(others) \subseteq DOMAIN entry /\ ToSet(others) \subseteq DOMAIN entry'
        BY <1>4, <1>5, <1>7
    <2>2. \A l \in DOMAIN entry' \ ToSet(others) : ~Counts(l)
        BY <1>1, <1>4, <1>7
    <2> QED BY <1>3, <1>7, <1>9, <2>1, <2>2, KeepingRemembers
<1> QED BY <1>1, <1>3, <1>8, <1>10 DEF LimiterOK

LEMMA RecordAgainStep ==
    ASSUME LimiterOK, NEW a \in Attempt, RecordAgain(a)
    PROVE  LimiterOK' /\ Remembers
<1>0. PICK k, t : k = key[a] /\ t = read[a]
    OBVIOUS
<1> DEFINE S == Kept(t)
           n == entry[k].count + 1
           again == [entry[k] EXCEPT !.count = n, !.last = t, !.blocked = BlockedUntil(n, t)]
<1>1. /\ t \in 0 .. now /\ now \in Nat /\ k \in Key /\ TableOK
      /\ order \in Seq(Key) /\ Len(order) <= MaxEntries /\ ToSet(order) = DOMAIN entry
    BY <1>0 DEF LimiterOK, HandlersOK, TableOK
<1>2. /\ Known(k, t) /\ Return(a, "failing", "idle") /\ order' = Append(Only(S \ {k}), k)
      /\ entry' = [l \in S |-> IF l = k THEN again ELSE entry[l]]
    BY <1>0 DEF RecordAgain
<1>3. HandlersOK' /\ pc'[a] = "idle" /\ pc[a] = "failing" /\ UNCHANGED <<now, key>>
      /\ \A b \in Attempt \ {a} : pc'[b] = pc[b]
    BY <1>2, ReturnStep
<1>4. S \subseteq DOMAIN entry /\ k \in S /\ \A l \in Key : Counts(l) => l \in S
    BY <1>1, <1>2, KeptAreKnown DEF Known
<1>5. order' \in Seq(Key) /\ Len(order') <= MaxEntries /\ ToSet(order') = S
    BY <1>1, <1>2, <1>4, MoveKeeps
<1>6. /\ entry[k].window \in Nat /\ entry[k].last \in Nat /\ entry[k].last <= now
      /\ entry[k].count \in Nat /\ entry[k].blocked \in Nat
      /\ entry[k].blocked = BlockedUntil(entry[k].count, entry[k].last)
      /\ DOMAIN entry[k] = FailureFields
    BY <1>1, <1>4, EntryTypes DEF TableOK
<1>7. /\ DOMAIN again = FailureFields /\ again.window = entry[k].window /\ again.last = t
      /\ again.count = n /\ again.blocked = BlockedUntil(n, t)
    BY <1>6 DEF FailureFields
<1> HIDE DEF S, again
<1>8. /\ DOMAIN entry' = S /\ entry'[k] = again
      /\ \A l \in S \ {k} : entry'[l] = entry[l]
    BY <1>2, <1>4
<1>9. TableOK'
    <2>1. \A l \in DOMAIN entry' \ {k} : entry'[l] = entry[l] /\ l \in DOMAIN entry
        BY <1>4, <1>8
    <2>2. /\ DOMAIN entry'[k] = FailureFields /\ entry'[k].window \in Nat
          /\ entry'[k].last \in 0 .. now' /\ entry'[k].count \in Nat
          /\ entry'[k].blocked = BlockedUntil(entry'[k].count, entry'[k].last)
        BY <1>1, <1>3, <1>6, <1>7, <1>8
    <2> QED BY <1>1, <1>3, <1>5, <1>8, <2>1, <2>2 DEF TableOK
<1>10. Blocked(k) => entry'[k].blocked >= entry[k].blocked - MaxDelay
    <2> SUFFICES ASSUME Blocked(k) PROVE again.blocked >= entry[k].blocked - MaxDelay
        BY <1>8
    <2>1. now - t <= MaxDelay /\ t \in Nat /\ MaxDelay \in Nat
        BY <1>0, <1>1, <1>3, BoundsAssumption DEF LimiterOK, HandlersOK
    <2>2. entry[k].count >= Threshold
        <3>1. entry[k].blocked > now
            BY DEF Blocked
        <3> QED BY <1>1, <1>6, <3>1, PolicyAssumption DEF BlockedUntil
    <2>3. again.blocked - t >= entry[k].blocked - entry[k].last
        BY <1>6, <1>7, <2>1, <2>2, BlocksGrow
    <2>4. again.blocked \in Nat
        <3>1. n \in Nat
            BY <1>6
        <3> HIDE DEF n
        <3> QED BY <1>7, <2>1, <3>1, BlocksGrow
    <2> QED BY <1>1, <1>6, <2>1, <2>3, <2>4
<1>11. Remembers
    <2>1. \A l \in DOMAIN entry : entry[l].count \in Nat /\ entry[l].blocked \in Nat
        BY EntryTypes
    <2>2. \A l \in Key : Counts(l) => l \in S /\ l \in DOMAIN entry /\ entry'[l].count >= entry[l].count
        BY <1>4, <1>6, <1>7, <1>8, <2>1
    <2>3. MaxDelay \in Nat
        BY BoundsAssumption
    <2>4. \A l \in Key : Blocked(l) => entry'[l].blocked >= entry[l].blocked - MaxDelay
        BY <1>8, <1>10, <2>1, <2>2, <2>3, BlockedCounts
    <2>5. \A b \in Attempt : ~ (pc[b] = "checking" /\ pc'[b] = "authenticating")
        BY <1>3
    <2> QED BY <1>8, <2>2, <2>4, <2>5 DEF Remembers
<1> QED BY <1>1, <1>3, <1>9, <1>11 DEF LimiterOK

LEMMA TickStep ==
    ASSUME LimiterOK, Tick
    PROVE  LimiterOK' /\ Remembers
<1>1. /\ now' = now + 1 /\ UNCHANGED <<entry, order, pc, key, read>> /\ now \in Nat
      /\ \A a \in Attempt : pc[a] \in {"idle", "authenticating"} \/ now - read[a] < MaxDelay
    BY DEF Tick, states, LimiterOK
<1>2. MaxDelay \in Nat
    BY BoundsAssumption
<1>3. TableOK'
    <2>1. \A k \in DOMAIN entry : entry[k].last \in 0 .. now'
        BY <1>1, EntryTypes
    <2> QED BY <1>1, <2>1 DEF LimiterOK, TableOK
<1>4. HandlersOK'
    <2>1. HandlersOK
        BY DEF LimiterOK
    <2>2. ASSUME NEW a \in Attempt
          PROVE  /\ read[a] \in 0 .. now'
                 /\ pc[a] \notin {"idle", "authenticating"} => now' - read[a] <= MaxDelay
        <3>1. read[a] \in 0 .. now
            BY <2>1 DEF HandlersOK
        <3> QED BY <1>1, <1>2, <3>1
    <2> QED BY <1>1, <2>1, <2>2 DEF HandlersOK
<1>5. Remembers
    <2>1. \A k \in DOMAIN entry : entry[k].count \in Nat /\ entry[k].blocked \in Nat
        BY EntryTypes
    <2>2. \A k \in Key : Counts(k) => k \in DOMAIN entry' /\ entry'[k].count >= entry[k].count
        BY <1>1, <2>1 DEF Counts, Blocked
    <2>3. \A k \in Key : Blocked(k) => entry'[k].blocked >= entry[k].blocked - MaxDelay
        BY <1>1, <1>2, <2>1 DEF Blocked
    <2> QED BY <1>1, <2>2, <2>3 DEF Remembers
<1> QED BY <1>1, <1>3, <1>4, <1>5 DEF LimiterOK

\* A handler that goes for the lock has done nothing yet.
LEMMA GoingStep ==
    ASSUME LimiterOK, NEW a \in Attempt, NEW method, method # "authenticating",
           Call(a, method), key' \in [Attempt -> Key]
    PROVE  LimiterOK' /\ Remembers
<1>1. /\ LimiterOK' /\ UNCHANGED <<entry, order>> /\ pc'[a] = method
      /\ \A b \in Attempt \ {a} : pc'[b] = pc[b]
    BY CallStep DEF states
<1>2. now' = now
    BY DEF Call
<1>3. \A k \in Key : Counts(k) => k \in DOMAIN entry
    BY DEF Counts
<1> QED BY <1>1, <1>2, <1>3, KeepingRemembers

LEMMA LimiterStep ==
    ASSUME LimiterOK, Next
    PROVE  LimiterOK' /\ Remembers
<1>1. CASE Tick
    BY <1>1, TickStep
<1>2. ASSUME NEW a \in Attempt,
             \/ \E k \in Key : Begin(a, k) \/ Count(a, k)
             \/ Fail(a) \/ Succeed(a)
      PROVE  LimiterOK' /\ Remembers
    <2>1. key \in [Attempt -> Key]
        BY DEF LimiterOK, HandlersOK
    <2>2. key' \in [Attempt -> Key]
        BY <1>2, <2>1 DEF Begin, Count, Fail, Succeed
    <2>3. \E method \in {"checking", "counting", "failing", "succeeding"} : Call(a, method)
        BY <1>2 DEF Begin, Count, Fail, Succeed
    <2> QED BY <2>2, <2>3, GoingStep
<1> QED BY <1>1, <1>2, CheckFreshStep, CheckKnownStep, UnavailableStep, RecordFirstStep,
           RecordAgainStep, RecordSuccessStep, FailureCountForStep DEF Next

\* Whatever handlers overtake one another between their reading of the clock and the
\* lock, the limiter forgets no failure that still counts but by the success of its pair
\* or to make room in a full table, lets no handler of a blocked pair authenticate,
\* and a further failure does not lift the block (LoginAttemptLimiter).
THEOREM NothingIsForgotten == AccessSpec => FailuresAreRemembered
<1>1. AccessInit => LimiterInv
    <2> SUFFICES ASSUME Init PROVE LimiterOK
        BY DEF AccessInit, LimiterInv
    <2>1. /\ now = 0 /\ entry = [k \in {} |-> 0] /\ order = <<>>
          /\ pc = [a \in Attempt |-> "idle"] /\ key \in [Attempt -> Key]
          /\ read = [a \in Attempt |-> 0]
        BY DEF Init
    <2>2. order \in Seq(Key) /\ Len(order) = 0 /\ ToSet(order) = {} /\ DOMAIN entry = {}
        BY <2>1 DEF ToSet
    <2>3. TableOK
        BY <2>2, PolicyAssumption DEF TableOK
    <2>4. HandlersOK
        BY <2>1 DEF HandlersOK
    <2> QED BY <2>1, <2>3, <2>4 DEF LimiterOK
<1>2. LimiterInv /\ [AccessNext]_<<area, vars, gateVars>> => LimiterInv' /\ [Remembers]_vars
    <2> SUFFICES ASSUME LimiterInv, [AccessNext]_<<area, vars, gateVars>>
                 PROVE  LimiterInv' /\ [Remembers]_vars
        OBVIOUS
    <2>1. area' = area
        BY DEF AccessNext
    <2>2. CASE UNCHANGED vars
        <3>1. LimiterOK => LimiterOK'
            BY <2>2 DEF vars, states, LimiterOK, TableOK, HandlersOK
        <3> QED BY <2>1, <2>2, <3>1 DEF LimiterInv
    <2>3. CASE area = "limiter" /\ Next
        BY <2>1, <2>3, LimiterStep DEF LimiterInv
    <2> QED BY <2>2, <2>3 DEF AccessNext
<1>3. AccessSpec => [][Remembers]_vars
    <2> HIDE DEF Remembers
    <2> QED BY <1>1, <1>2, PTL DEF AccessSpec
<1>4. Remembers <=>
        /\ \A k \in Key :
            Counts(k) /\ ~MayForget(k) =>
               k \in DOMAIN entry' /\ entry'[k].count >= entry[k].count
        /\ \A a \in Attempt :
            pc[a] = "checking" /\ pc'[a] = "authenticating" => ~Blocked(key[a])
        /\ \A k \in Key :
            Blocked(k) /\ k \in DOMAIN entry' =>
               entry'[k].blocked >= entry[k].blocked - MaxDelay
    BY DEF Remembers
<1> QED BY <1>3, <1>4, PTL DEF FailuresAreRemembered
=============================================================================
