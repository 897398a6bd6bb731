------------------------------- MODULE Access -------------------------------
(***************************************************************************)
(* Role-based access control of the HTTP API: the routes with the          *)
(* permissions their decorators require (every *.controller.ts), and the   *)
(* guards that run before a handler.  A request is dispatched to the first *)
(* declared route whose method and path pattern match, then passes that    *)
(* route's guards.                                                         *)
(* A path is a sequence of segments; ":" in a pattern takes any segment.   *)
(***************************************************************************)
EXTENDS Rbac, Naturals, FiniteSets, Sequences, SequencesExt

-----------------------------------------------------------------------------
(* Routes, per controller in the order of declaration.  "auth" is the      *)
(* guard of the route; "class" and "handler" are the two places where      *)
(* @RequirePermissions may stand.                                          *)

None == {}

Route(auth, class, method, path, handler) ==
  [auth |-> auth, class |-> class, method |-> method, path |-> path, handler |-> handler]

Jwt(method, path, handler) == Route("jwt", None, method, path, handler)

AuthController ==
  << Route("public", None, "POST", <<"auth", "login">>, None),
     Route("public", None, "POST", <<"auth", "mfa", "verify">>, None),
     Jwt("POST", <<"auth", "mfa", "enroll">>, None),
     Jwt("POST", <<"auth", "mfa", "activate">>, None),
     Route("public", None, "POST", <<"auth", "refresh">>, None) >>

SsoController ==
  LET Manage == {"identity.sso.manage"}
  IN << Route("public", None, "POST", <<"auth", "sso", "start">>, None),
        Route("public", None, "POST", <<"auth", "sso", "callback">>, None),
        Jwt("GET", <<"auth", "sso", "providers">>, Manage),
        Jwt("POST", <<"auth", "sso", "providers">>, Manage),
        Jwt("DELETE", <<"auth", "sso", "providers", ":">>, Manage),
        Jwt("POST", <<"auth", "sso", "providers", ":", "scim-token">>, Manage),
        Jwt("DELETE", <<"auth", "sso", "providers", ":", "scim-token">>, Manage) >>

ScimController ==
  LET Scim(method, path) == Route("scim", None, method, <<"scim", "v2">> \o path, None)
  IN << Scim("POST", <<"Users">>), Scim("GET", <<"Users", ":">>), Scim("GET", <<"Users">>),
        Scim("PUT", <<"Users", ":">>), Scim("PATCH", <<"Users", ":">>),
        Scim("DELETE", <<"Users", ":">>) >>

UsersController ==
  << Jwt("POST", <<"users">>, {"identity.user.invite", "identity.role.assign"}) >>

TenantsController == << Route("platform", None, "POST", <<"tenants">>, None) >>

HealthController == << Route("public", None, "GET", <<"health">>, None) >>

MeController == << Jwt("GET", <<"me">>, None), Jwt("GET", <<"me", "employee">>, None) >>

\* The only controller with a class-level requirement, which import overrides.
EmployeesController ==
  LET Employees(method, path, handler) ==
        Route("jwt", {"org.employee.read"}, method, <<"employees">> \o path, handler)
  IN << Employees("GET", <<>>, None),
        Employees("POST", <<"import">>, {"org.employee.manage"}),
        Employees("GET", <<":">>, None) >>

OrgController == << Jwt("GET", <<"org", "tree">>, {"org.employee.read"}) >>

PayGroupsController ==
  LET Read(path) == Jwt("GET", <<"payroll", "pay-groups">> \o path, {"payroll.paygroup.read"})
      Write(path) == Jwt("POST", <<"payroll", "pay-groups">> \o path, {"payroll.paygroup.manage"})
  IN << Write(<<>>), Read(<<>>), Read(<<":">>), Write(<<":", "periods">>),
        Read(<<":", "periods">>), Write(<<":", "members">>) >>

RunsController ==
  LET Read(path) == Jwt("GET", <<"payroll", "runs">> \o path, {"payroll.run.read"})
      Make(path) == Jwt("POST", <<"payroll", "runs">> \o path, {"payroll.run.manage"})
      Check(path) == Jwt("POST", <<"payroll", "runs">> \o path, {"payroll.run.approve"})
  IN << Make(<<>>), Read(<<>>), Read(<<":">>), Read(<<":", "lines">>),
        Read(<<":", "anomalies">>), Read(<<":", "bank-file">>),
        Read(<<":", "payslips", ":">>), Make(<<":", "calculate">>), Make(<<":", "submit">>),
        Check(<<":", "approve">>), Check(<<":", "reject">>), Make(<<":", "publish">>) >>

LeaveController ==
  LET Read(path) == Jwt("GET", <<"leave">> \o path, {"org.leave.read"})
      Do(path, need) == Jwt("POST", <<"leave">> \o path, {need})
  IN << Do(<<"types">>, "org.leave.manage"), Read(<<"types">>),
        Do(<<"balances">>, "org.leave.manage"), Read(<<"balances", "me">>),
        Read(<<"balances">>), Do(<<"requests">>, "org.leave.request"),
        Read(<<"requests", "me">>), Read(<<"requests">>), Read(<<"requests", ":">>),
        Do(<<"requests", ":", "approve">>, "org.leave.approve"),
        Do(<<"requests", ":", "reject">>, "org.leave.approve"),
        Do(<<"requests", ":", "cancel">>, "org.leave.request") >>

\* Faulty variant: the route with a parameter is declared before "/claims/me".
ClaimsByIdFirst ==
  << Jwt("GET", <<"claims", ":">>, {"org.claim.read"}),
     Jwt("GET", <<"claims", "me">>, {"org.claim.read"}) >>

ClaimsController ==
  LET Read(path) == Jwt("GET", <<"claims">> \o path, {"org.claim.read"})
      Do(path, need) == Jwt("POST", <<"claims">> \o path, {need})
  IN << Do(<<>>, "org.claim.request"), Read(<<"me">>), Read(<<>>), Read(<<":">>),
        Do(<<":", "attachments">>, "org.claim.request"), Read(<<":", "attachments", ":">>),
        Do(<<":", "approve">>, "org.claim.approve"), Do(<<":", "reject">>, "org.claim.approve") >>

InsightsController ==
  LET Read(method, path) == Jwt(method, <<"insights">> \o path, {"insights.report.read"})
      Manage(method, path) == Jwt(method, <<"insights">> \o path, {"insights.report.manage"})
  IN << Read("GET", <<"datasets">>), Read("GET", <<"dashboards", "prebuilt">>),
        Read("GET", <<"dashboards", "prebuilt", ":">>), Read("POST", <<"reports", "run">>),
        Manage("POST", <<"reports">>), Read("GET", <<"reports">>), Read("GET", <<"reports", ":">>),
        Manage("PATCH", <<"reports", ":">>), Manage("DELETE", <<"reports", ":">>),
        Read("POST", <<"reports", ":", "run">>), Read("GET", <<"reports", ":", "export">>),
        Manage("POST", <<"reports", ":", "schedules">>), Read("GET", <<"schedules">>),
        Manage("PATCH", <<"schedules", ":">>), Manage("DELETE", <<"schedules", ":">>) >>

AssistController ==
  LET Use(method, path) == Jwt(method, <<"assist">> \o path, {"assist.use"})
      Manage(method, path) == Jwt(method, <<"assist">> \o path, {"assist.knowledge.manage"})
  IN << Use("POST", <<"messages">>), Use("GET", <<"conversations">>),
        Use("GET", <<"conversations", ":">>), Use("GET", <<"knowledge">>),
        Manage("POST", <<"knowledge">>), Manage("PATCH", <<"knowledge", ":">>),
        Manage("DELETE", <<"knowledge", ":">>) >>

IntegrationsControllers ==
  LET Read(path) == Jwt("GET", path, {"integration.read"})
      Manage(method, path) == Jwt(method, path, {"integration.manage"})
  IN << Read(<<"integrations", "connectors">>), Manage("POST", <<"integrations">>),
        Read(<<"integrations">>), Read(<<"integrations", ":">>),
        Manage("POST", <<"integrations", ":", "runs">>), Read(<<"integrations", ":", "runs">>),
        Manage("POST", <<"webhooks">>), Read(<<"webhooks">>),
        Manage("DELETE", <<"webhooks", ":">>), Read(<<"webhooks", ":", "deliveries">>) >>

\* Nest registers the controllers of a module together, in declaration order.
AllRoutes ==
  AuthController \o SsoController \o ScimController \o UsersController \o TenantsController
  \o HealthController \o MeController \o EmployeesController \o OrgController
  \o PayGroupsController \o RunsController \o LeaveController \o ClaimsController
  \o InsightsController \o AssistController \o IntegrationsControllers

Routes == ToSet(AllRoutes)

-----------------------------------------------------------------------------
(* Dispatch and guards.                                                    *)

Matches(route, method, path) ==
  /\ route.method = method
  /\ Len(route.path) = Len(path)
  /\ \A i \in 1..Len(path) : route.path[i] \in {":", path[i]}

\* The first declared route that takes the request, as its index in AllRoutes.
Dispatch(method, path) ==
  SelectInSeq(AllRoutes, LAMBDA route : Matches(route, method, path))

\* Faulty variant: the class's metadata wins.
RequiredByClass(route) == IF route.class # None THEN route.class ELSE route.handler

\* getAllAndOverride: the handler's metadata, if any, hides the class's.
Required(route) == IF route.handler # None THEN route.handler ELSE route.class

\* A principal is what the authentication guard attached to the request.
Principal == [kind : {"anonymous", "scim", "platform"}, roles : {None}]
             \cup [kind : {"user"}, roles : SUBSET RoleKeys]

Authenticates(principal, route) ==
  CASE route.auth = "public"   -> TRUE
    [] route.auth = "jwt"      -> principal.kind = "user"
    [] route.auth = "scim"     -> principal.kind = "scim"
    [] route.auth = "platform" -> principal.kind = "platform"

PermissionsOf(principal) ==
  IF principal.kind = "platform" THEN PLATFORM_PERMISSIONS
  ELSE collectPermissions(principal.roles)

PermissionsGuard(principal, route) == Required(route) \subseteq PermissionsOf(principal)

Allowed(principal, route) ==
  Authenticates(principal, route) /\ PermissionsGuard(principal, route)

-----------------------------------------------------------------------------
(* One request by one principal: made, then answered.                      *)

CONSTANT MaxRoles                \* how many roles a user of the checked instance holds
ASSUME MaxRolesAssumption == MaxRoles \in Nat

VARIABLES caller, request, answer
accessVars == <<caller, request, answer>>

\* The request that is meant for a route: any segment stands for a parameter.
Addressing(route) ==
  [method |-> route.method,
   path |-> [i \in 1..Len(route.path) |-> IF route.path[i] = ":" THEN "id" ELSE route.path[i]]]

\* Where the request for the i-th route ends up.
Reached(i) ==
  LET asked == Addressing(AllRoutes[i]) IN AllRoutes[Dispatch(asked.method, asked.path)]

AccessInit ==
  /\ caller \in {p \in Principal : Cardinality(p.roles) <= MaxRoles}
  /\ request \in 1..Len(AllRoutes)
  /\ answer = "none"

\* The authentication guard, the permissions guard, the handler.
Handle ==
  /\ answer = "none"
  /\ answer' = IF ~Authenticates(caller, Reached(request)) THEN "401"
               ELSE IF ~PermissionsGuard(caller, Reached(request)) THEN "403" ELSE "served"
  /\ UNCHANGED <<caller, request>>

AccessNext == Handle

AccessSpec == AccessInit /\ [][AccessNext]_accessVars

-----------------------------------------------------------------------------
(* Properties.                                                             *)

\* No route shadows another: a route with a parameter ("/claims/:id") that is declared
\* earlier never takes the requests meant for a later one ("/claims/me").
RoutesReachable == answer # "none" => Reached(request) = AllRoutes[request]

\* POST routes that compute a report and store nothing.
ReadRoutes == {route \in Routes : \/ route.method = "GET"
                                  \/ /\ route.path[1] = "insights"
                                     /\ Last(route.path) = "run"}

\* Who holds no role but auditor changes nothing that a permission guards, however the
\* class and handler requirements of the controllers combine.
AuditorReadsOnly ==
  (answer = "served" /\ caller.kind = "user" /\ caller.roles = {"auditor"}) =>
    Required(Reached(request)) = None \/ Reached(request) \in ReadRoutes
=============================================================================
