--------------------------- MODULE AccessControl ---------------------------
(***************************************************************************)
(* A request on its way to its handler: the signed cookie it brings        *)
(* (fastapi/auth.py), the decisions about its caller (authorization/core)  *)
(* and the dependencies of its route (fastapi/dependencies.py), each of    *)
(* which reads accounts and roles by itself while other workers change     *)
(* them.                                                                   *)
(***************************************************************************)
EXTENDS Routes, Naturals, FiniteSets

CONSTANTS
  Names,        \* the usernames
  CustomRoles,  \* the roles that are not built in
  Threads,      \* requests served at a time
  Clients,      \* the browsers
  Grants,       \* what a custom role may be given, sets of permissions
  Lifetime,     \* auth_session_days
  MaxTime(_),   \* bound: the days a behaviour lasts, by router
  MaxChanges    \* bound: the changes of accounts and roles

VARIABLES
  router,    \* the router this behaviour is about
  profile,   \* PUBLIC_CATALOG_PROFILE ...
  export,    \* ... and PUBLIC_CATALOG_EXPORT_ENABLED
  account,   \* p_admin_user: the role and the status of a username
  roles,     \* p_role and p_role_permission
  now, changes,
  jar,       \* the cookie each browser holds
  request,   \* the request each thread serves
  answer,    \* what its handler has answered
  held,      \* what its caller could do at one moment or another meanwhile
  touched    \* its caller's account was changed meanwhile

tables == <<account, roles, changes>>
deployment == <<router, profile, export>>
accessVars == <<deployment, tables, now, jar, request, answer, held, touched>>

Anonymous == "anonymous"
NoCookie == [user |-> Anonymous]
NoRole == "no role"
Builtin == [admin |-> Registered, maintainer |-> MaintainerCodes]
RoleCodes == DOMAIN Builtin \cup CustomRoles
NoAccount == [role |-> NoRole, enabled |-> FALSE]
Assignable == Registered \ Public

\* What a handler answers, and the permissions it names.
Saying(what, codes) == [what |-> what, codes |-> codes]
None == Saying("nothing", {})
Refused == Saying("refused", {})

Init ==
  /\ router \in DOMAIN RoutesOf
  /\ profile \in {"internal", "strict", "disabled"}
  /\ export \in (IF \E route \in RoutesOf[router] : route.gate = "export" THEN BOOLEAN ELSE {FALSE})
  /\ account \in [Names -> {[role |-> r, enabled |-> TRUE] : r \in CustomRoles}]
  /\ roles \in {[r \in RoleCodes |->
                   IF r \in DOMAIN Builtin THEN [enabled |-> TRUE, grants |-> Builtin[r]]
                                           ELSE [enabled |-> TRUE, grants |-> g]] : g \in Grants}
  /\ now = 0 /\ changes = 0
  /\ jar \in [Clients -> {NoCookie} \cup
       {[user |-> n, role |-> account[n].role, legacy |-> TRUE, issued |-> 0, opened |-> 0] : n \in Names}]
  /\ request = [t \in Threads |-> [at |-> "idle"]]
  /\ answer = [t \in Threads |-> None]
  /\ held = [t \in Threads |-> {}]
  /\ touched = [t \in Threads |-> FALSE]

\* Nothing happens: there are neither routes nor accounts.
Closed ==
  /\ router = "none" /\ profile = "disabled" /\ export = FALSE
  /\ account = <<>> /\ roles = <<>> /\ now = 0 /\ changes = 0 /\ jar = <<>>
  /\ request = [t \in Threads |-> [at |-> "idle"]]
  /\ answer = <<>> /\ held = <<>> /\ touched = <<>>

-----------------------------------------------------------------------------
\* DatabaseAuthorizationRepository: one query for the account and its role,
\* another for what the role grants.
Exists(name) == name # Anonymous /\ account[name].role # NoRole

\* Fault: the role is the one the session was opened with.
SubjectOfSession(cookie) ==
  IF cookie.user = Anonymous THEN [reason |-> "unauthenticated"]
  ELSE IF ~Exists(cookie.user) THEN [reason |-> "user_not_found"]
  ELSE IF ~account[cookie.user].enabled THEN [reason |-> "user_disabled"]
  ELSE IF ~roles[cookie.role].enabled THEN [reason |-> "role_unknown_or_disabled"]
  ELSE [reason |-> "authenticated", role |-> cookie.role]

\* AuthorizationService.authenticate
Subject(cookie) ==
  IF cookie.user = Anonymous THEN [reason |-> "unauthenticated"]
  ELSE IF ~Exists(cookie.user) THEN [reason |-> "user_not_found"]
  ELSE IF ~account[cookie.user].enabled THEN [reason |-> "user_disabled"]
  ELSE IF ~roles[account[cookie.user].role].enabled THEN [reason |-> "role_unknown_or_disabled"]
  ELSE [reason |-> "authenticated", role |-> account[cookie.user].role]

Authenticated(d) == d.reason \in {"authenticated", "role_unknown_or_disabled"}

Permissions(role) == IF roles[role].enabled THEN roles[role].grants ELSE {}

\* AuthorizationService.get_permissions, of the decision d about a caller.
Effective(cookie, d) ==
  IF cookie.user = Anonymous THEN IF profile = "disabled" THEN {} ELSE Public
  ELSE IF d.reason = "authenticated" THEN Public \cup (Permissions(d.role) \cap Registered)
  ELSE {}

\* AuthorizationService.authorize
Authorized(cookie, d, code) ==
  IF Authenticated(d) THEN code \in Registered /\ code \in Effective(cookie, d)
  ELSE cookie.user = Anonymous /\ profile # "disabled" /\ code \in Public

\* What each caller may do as the tables stand; "session" is to have one at all.
Rights ==
  [n \in Names \cup {Anonymous} |->
     IF n = Anonymous THEN IF profile = "disabled" THEN {} ELSE Public
     ELSE IF account[n].enabled /\ roles[account[n].role].enabled
     THEN Public \cup roles[account[n].role].grants \cup {"session"} ELSE {}]

-----------------------------------------------------------------------------
(* The request                                                             *)
At(t, where) == request[t].at = where

Alive(cookie) == cookie.user # Anonymous => now - cookie.issued <= Lifetime

\* get_native_session_identity
Identity(cookie) == IF Alive(cookie) THEN cookie ELSE NoCookie

Step(t, where) ==
  /\ request' = [request EXCEPT ![t].at = where]
  /\ UNCHANGED <<deployment, tables, now, jar, answer, held, touched>>

Give(t, what) ==
  /\ request' = [request EXCEPT ![t].at = "answered"]
  /\ answer' = [answer EXCEPT ![t] = what]

Only(t, what) == Give(t, Saying(what, {})) /\ UNCHANGED <<deployment, tables, now, jar, held, touched>>

Receive(t, c) ==
  /\ At(t, "idle")
  /\ \E route \in RoutesOf[router] :
       request' = [request EXCEPT ![t] =
         [at |-> "arrived", route |-> route, client |-> c, cookie |-> Identity(jar[c]),
          decision |-> [reason |-> "unread"]]]
  /\ held' = [held EXCEPT ![t] = Rights[Identity(jar[c]).user]]
  /\ touched' = [touched EXCEPT ![t] = FALSE]
  /\ UNCHANGED <<deployment, tables, now, jar, answer>>

\* require_public_catalog_access lets everyone by unless the catalog is closed.
AsksForDecision(route) ==
  \/ route.needs # Nothing \/ route.does = "me" \/ route.gate = "session"
  \/ route.gate = "catalog" /\ profile = "disabled"

EnterOpen(t) ==
  /\ At(t, "arrived") /\ ~AsksForDecision(request[t].route)
  /\ Step(t, "handling")

\* The dependency of the router refuses.
ClosedTo(t, d) ==
  LET route == request[t].route IN
  \/ route.gate = "session" /\ d.reason # "authenticated"
  \/ route.gate = "catalog" /\ profile = "disabled" /\ d.reason # "authenticated"
  \/ route.gate = "export" /\ ~Authenticated(d) /\ (profile = "disabled" \/ ~export)
  \/ route.does = "me" /\ ~Authenticated(d)

\* _authentication_decision, which the request keeps.
Authenticate(t) ==
  LET d == Subject(request[t].cookie) IN
  /\ At(t, "arrived") /\ AsksForDecision(request[t].route)
  /\ request' = [request EXCEPT ![t].decision = d,
                   ![t].at = IF ClosedTo(t, d) THEN "answered" ELSE "decided"]
  /\ answer' = [answer EXCEPT ![t] = IF ClosedTo(t, d) THEN Refused ELSE None]
  /\ UNCHANGED <<deployment, tables, now, jar, held, touched>>

\* require_permission and require_catalog_export
Permit(t) ==
  LET r == request[t] IN
  /\ At(t, "decided") /\ r.route.does # "me"
  /\ IF r.route.needs = Nothing \/ Authorized(r.cookie, r.decision, r.route.needs)
     THEN Step(t, "handling") ELSE Only(t, "refused")

\* current_user() asks who the caller is again, for the permissions.
AskAgain(t) ==
  /\ At(t, "decided") /\ request[t].route.does = "me"
  /\ request' = [request EXCEPT ![t].at = "naming", ![t].decision = Subject(request[t].cookie)]
  /\ UNCHANGED <<deployment, tables, now, jar, answer, held, touched>>

TellMe(t) ==
  /\ At(t, "naming")
  /\ Give(t, Saying("rights", Effective(request[t].cookie, request[t].decision)))
  /\ UNCHANGED <<deployment, tables, now, jar, held, touched>>

\* A query fails, or the service refuses: the request is answered by an error.
Fails(t) ==
  /\ \/ request[t].at \in {"decided", "naming", "handling"}
     \/ At(t, "arrived") /\ AsksForDecision(request[t].route)
  /\ Only(t, "refused")

\* profile_for_request, which takes whatever fails for no session.
ProfileFor(cookie) == IF Subject(cookie).reason = "authenticated" THEN "internal" ELSE profile

Project(t) ==
  /\ At(t, "handling") /\ request[t].route.does \in {"project", "stream"}
  /\ \E shown \in {ProfileFor(request[t].cookie), profile} : Only(t, shown)

\* The export of the field mappings projects each batch for itself.
NextBatch(t) ==
  /\ At(t, "answered") /\ answer[t] # Refused /\ request[t].route.does = "stream"
  /\ Step(t, "handling")

Read(t) == At(t, "handling") /\ request[t].route.does = "read" /\ Only(t, "whole")

Write(t) == At(t, "handling") /\ request[t].route.does = "write" /\ Only(t, "written")

\* Fault: every session is issued anew.
ReissuedAlways(cookie) ==
  IF cookie.user # Anonymous THEN [cookie EXCEPT !.legacy = FALSE, !.issued = now] ELSE cookie

\* Response and LegacySessionMigrationMiddleware: a session in the old format is
\* issued anew.
Reissued(cookie) ==
  IF cookie.user # Anonymous /\ cookie.legacy
  THEN [cookie EXCEPT !.legacy = FALSE, !.issued = now] ELSE cookie

Respond(t) ==
  LET r == request[t] IN
  /\ At(t, "answered")
  /\ jar' = IF answer[t] # Refused /\ Reissued(r.cookie) # r.cookie
            THEN [jar EXCEPT ![r.client] = Reissued(r.cookie)] ELSE jar
  /\ request' = [request EXCEPT ![t] = [at |-> "idle"]]
  /\ answer' = [answer EXCEPT ![t] = None]
  /\ held' = [held EXCEPT ![t] = {}]
  /\ touched' = [touched EXCEPT ![t] = FALSE]
  /\ UNCHANGED <<deployment, tables, now>>

-----------------------------------------------------------------------------
(* Accounts, roles and sessions                                            *)
Serving == {t \in Threads : ~At(t, "idle")}

Watch ==
  /\ held' = [t \in Threads |->
       IF t \in Serving THEN held[t] \cup Rights'[request[t].cookie.user] ELSE held[t]]
  /\ touched' = [t \in Threads |->
       touched[t] \/ (t \in Serving /\ request[t].cookie.user # Anonymous
                    /\ account'[request[t].cookie.user] # account[request[t].cookie.user])]

\* A user is created, edited or deleted; new accounts get a role that is enabled.
ChangeAccount(n) ==
  /\ changes < MaxChanges /\ changes' = changes + 1
  /\ \E a \in {NoAccount} \cup [role : {r \in RoleCodes : roles[r].enabled}, enabled : BOOLEAN] :
       a # account[n] /\ account' = [account EXCEPT ![n] = a]
  /\ UNCHANGED roles
  /\ Watch

\* A role is created, edited or, when no user has it, deleted.
ChangeRole(r) ==
  /\ changes < MaxChanges /\ changes' = changes + 1
  /\ r \notin DOMAIN Builtin
  /\ \E new \in {[enabled |-> e, grants |-> g \cap Assignable] : e \in BOOLEAN, g \in Grants} :
       new # roles[r] /\ roles' = [roles EXCEPT ![r] = new]
  /\ UNCHANGED account
  /\ Watch

Change == \/ \E n \in Names : ChangeAccount(n)
          \/ \E r \in RoleCodes : ChangeRole(r)

\* The handlers of users and roles.
Administer(t) ==
  /\ At(t, "handling")
  /\ UNCHANGED <<deployment, now, jar>>
  /\ \/ request[t].route.does = "account" /\ \E n \in Names : ChangeAccount(n)
     \/ request[t].route.does = "role" /\ \E r \in RoleCodes : ChangeRole(r)
  /\ Give(t, Saying("written", {}))

\* The same by another worker.
Elsewhere == UNCHANGED <<deployment, now, jar, request, answer>> /\ Change

\* Bound: a browser changes its cookie between its requests or while an answer
\* is on its way, when that makes a difference.
Between(c) ==
  \A t \in Serving : request[t].client = c => At(t, "answered") /\ MaxTime(router) > 0

\* login() has checked the password of an active account.
LogIn(c) ==
  /\ Between(c)
  /\ \E n \in Names :
       /\ account[n].enabled
       /\ jar' = [jar EXCEPT ![c] = [user |-> n, role |-> account[n].role, legacy |-> FALSE,
                                      issued |-> now, opened |-> now]]
  /\ UNCHANGED <<deployment, tables, now, request, answer, held, touched>>

\* logout(), or a browser that is closed and was not to remember.
Forget(c) ==
  /\ Between(c) /\ jar[c] # NoCookie
  /\ jar' = [jar EXCEPT ![c] = NoCookie]
  /\ UNCHANGED <<deployment, tables, now, request, answer, held, touched>>

NextDay ==
  /\ now < MaxTime(router) /\ now' = now + 1
  /\ Serving = {}
  /\ UNCHANGED <<deployment, tables, jar, request, answer, held, touched>>

Next ==
  \/ \E t \in Threads :
       \/ \E c \in Clients : Receive(t, c)
       \/ EnterOpen(t) \/ Authenticate(t) \/ Permit(t) \/ AskAgain(t) \/ TellMe(t)
       \/ Fails(t) \/ Project(t) \/ NextBatch(t) \/ Read(t) \/ Write(t)
       \/ Administer(t) \/ Respond(t)
  \/ Elsewhere
  \/ \E c \in Clients : LogIn(c) \/ Forget(c)
  \/ NextDay

Spec == Init /\ [][Next]_accessVars

-----------------------------------------------------------------------------
(* Properties                                                              *)

\* What a handler needs its caller to be able to do for its answer.
Needed(t) ==
  LET route == request[t].route IN
  (IF route.needs # Nothing THEN {route.needs} ELSE {})
  \cup (IF answer[t].what = "internal" /\ profile # "internal" THEN {"session"} ELSE {})
  \cup (IF route.gate \in {"catalog", "session"} /\ profile = "disabled" THEN {"session"} ELSE {})
  \cup answer[t].codes

\* "Resolves the current status and role ... on each decision": whatever a
\* request reads, writes or is told, its caller had the rights to at a moment
\* since it was received, unless its account itself was changed in between.
WithinRights ==
  \A t \in Threads :
    At(t, "answered") /\ answer[t] # Refused => Needed(t) \subseteq held[t] \/ touched[t]

\* A session ends its lifetime after the password was given, or twice that if it
\* was in the old format when it was last used.
SessionsEnd ==
  \A t \in Threads :
    t \in Serving /\ request[t].cookie.user # Anonymous
      => now - request[t].cookie.opened <= 2 * Lifetime
=============================================================================
