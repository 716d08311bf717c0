------------------------------- MODULE Routes --------------------------------
(***************************************************************************)
(* The routes of the controllers that JwtAuthGuard and RolesGuard protect, *)
(* and the roles that may use them.  A route is named by the operation it  *)
(* calls; routes that only hand out one row or list are left out, and so   *)
(* are formats, rate limits and the documents for the API's description.   *)
(*                                                                         *)
(* DEVELOPER may do here what CUSTOMER may.                                *)
(***************************************************************************)

Role == {"CUSTOMER", "INSPECTOR", "REVIEWER", "ADMIN", "SUPERADMIN"}
Admins == {"ADMIN", "SUPERADMIN"}
Staff == Admins \cup {"REVIEWER"}

(* src/inspections/inspections.controller.ts *)

CreateRoute == [o \in {"create"} |-> {"INSPECTOR"}]

UpdateRoute == [o \in {"update"} |-> Staff]

\* In a batch, or a single one.
AddPhotosRoutes == [o \in {"addPhotos"} |-> {"ADMIN", "REVIEWER", "INSPECTOR"}]

PhotoRoutes == [o \in {"updatePhoto", "deletePhoto"} |-> Staff]

\* No @Roles: whoever is signed in.
SearchRoute == [o \in {"search"} |-> Role]

ListRoute == [o \in {"pages"} |-> Staff]

FindRoute == [o \in {"find"} |-> Staff]

ApproveRoutes == [o \in {"approve", "bulkApprove"} |-> Staff]

ArchiveRoute == [o \in {"archive"} |-> Staff]

\* For a client that signs with its own wallet.
ClientArchiveRoutes == [o \in {"buildArchive", "confirm"} |-> Staff]

ActivationRoutes == [o \in {"deactivate", "activate"} |-> Staff]

DeleteInspectionRoute == [o \in {"deleteInspection"} |-> {"SUPERADMIN"}]

RevertRoutes == [o \in {"rollback", "revert"} |-> {"SUPERADMIN"}]

(* src/inspection-branches/inspection-branches.controller.ts *)

CreateBranchRoute == [o \in {"createBranch"} |-> Admins]

BranchRoutes == [o \in {"updateBranch", "removeBranch", "toggleActive"} |-> Admins]

(* src/dashboard/dashboard.controller.ts *)

DashboardRoutes ==
    [o \in {"counters", "trend", "distribution"} |-> IF o = "counters" THEN Staff ELSE Admins]

(* src/users/users.controller.ts *)

CreateAdminRoute == [o \in {"createAdmin"} |-> {"SUPERADMIN"}]

RoleAndInspectorRoutes == [o \in {"updateRole", "createInspector"} |-> Admins]

UpdateUserRoutes == [o \in {"updateUser", "updateInspector"} |-> Admins]

PinAndDeleteRoutes == [o \in {"generatePin", "deleteUser"} |-> Admins]

(* src/auth/auth.controller.ts *)

LogoutRoute == [o \in {"logout"} |-> Role]

Routing ==
    {CreateRoute, UpdateRoute, AddPhotosRoutes, PhotoRoutes, SearchRoute, ListRoute, FindRoute,
     ApproveRoutes, ArchiveRoute, ClientArchiveRoutes, ActivationRoutes, DeleteInspectionRoute,
     RevertRoutes, CreateBranchRoute, BranchRoutes, DashboardRoutes, CreateAdminRoute,
     RoleAndInspectorRoutes, UpdateUserRoutes, PinAndDeleteRoutes, LogoutRoute}

GuardedOps == UNION {DOMAIN f : f \in Routing}

\* Every route is in one of them.
MayCall(o) == (CHOOSE f \in Routing : o \in DOMAIN f)[o]
=============================================================================
