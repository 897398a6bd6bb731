-------------------------------- MODULE Rbac --------------------------------
(***************************************************************************)
(* packages/rbac: the permission catalog, the roles seeded into every      *)
(* tenant and the union of a user's roles.                                 *)
(***************************************************************************)

SelfService == {"org.leave.read", "org.leave.request", "org.claim.read",
                "org.claim.request", "assist.use", "self.read"}

AuditorPermissions ==
  {"audit.read", "identity.user.read", "org.employee.read", "payroll.paygroup.read",
   "payroll.run.read", "org.leave.read", "org.claim.read", "insights.report.read",
   "integration.read", "self.read"}

PERMISSIONS ==
  SelfService \cup AuditorPermissions \cup
  {"platform.tenant.create", "platform.tenant.read", "identity.user.invite",
   "identity.role.assign", "identity.sso.manage", "org.manage", "org.employee.manage",
   "payroll.paygroup.manage", "payroll.run.manage", "payroll.run.approve",
   "org.leave.manage", "org.leave.approve", "org.claim.approve",
   "insights.report.manage", "assist.knowledge.manage", "integration.manage"}

PLATFORM_PERMISSIONS == {"platform.tenant.create", "platform.tenant.read", "audit.read"}

\* What tenants.service writes into the role rows of a new tenant.
TENANT_SYSTEM_ROLES ==
  [tenant_admin     |-> PERMISSIONS \ {"platform.tenant.create", "platform.tenant.read"},
   payroll_operator |-> {"identity.user.read", "org.employee.read", "payroll.paygroup.read",
                         "payroll.paygroup.manage", "payroll.run.read", "payroll.run.manage",
                         "org.leave.read", "org.claim.read", "insights.report.read",
                         "assist.use", "self.read"},
   payroll_approver |-> {"payroll.paygroup.read", "payroll.run.read",
                         "payroll.run.approve", "self.read"},
   hr_manager       |-> {"identity.user.read", "org.employee.read", "org.employee.manage",
                         "payroll.paygroup.read", "org.leave.read", "org.leave.manage",
                         "org.leave.approve", "org.claim.read", "org.claim.approve",
                         "insights.report.read", "insights.report.manage", "assist.use",
                         "assist.knowledge.manage", "self.read"},
   employee         |-> SelfService,
   auditor          |-> AuditorPermissions]

RoleKeys == DOMAIN TENANT_SYSTEM_ROLES

\* A user's permissions are the union of those of the user's roles.
collectPermissions(roles) == UNION {TENANT_SYSTEM_ROLES[r] : r \in roles}
=============================================================================
