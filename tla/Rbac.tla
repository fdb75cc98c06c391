-------------------------------- MODULE Rbac --------------------------------
(***************************************************************************)
(* Roles and statuses as package rbac normalizes them, and the roles that  *)
(* the gateway and the services behind it want for each API.  Documents    *)
(* written by older versions hold lowercase values (LegacyRoleMap).        *)
(***************************************************************************)

Roles == {"USER", "ADMIN", "SUPERADMIN"}

UserStatuses == {"ACTIVE", "BLOCKED"}

LegacyRoleMap ==
    [r \in {"user", "guest", "admin", "owner", "superadmin", "super_admin", "super admin"} |->
        CASE r \in {"user", "guest"} -> "USER"
          [] r \in {"admin", "owner"} -> "ADMIN"
          [] OTHER -> "SUPERADMIN"]

LegacyStatusMap == [active |-> "ACTIVE", blocked |-> "BLOCKED"]

RawRoles == Roles \cup DOMAIN LegacyRoleMap

RawStatuses == UserStatuses \cup DOMAIN LegacyStatusMap

NormalizeRole(value) ==
    IF value \in DOMAIN LegacyRoleMap THEN LegacyRoleMap[value]
    ELSE IF value \in Roles THEN value ELSE "USER"

NormalizeStatus(value) ==
    IF value \in DOMAIN LegacyStatusMap THEN LegacyStatusMap[value]
    ELSE IF value \in UserStatuses THEN value ELSE "ACTIVE"

InventoryRoles == {"ADMIN", "SUPERADMIN"}

\* Who passes attachAuth; requireRoles of the service asks for the same.
ApiRoles ==
    [users |-> Roles, bookings |-> Roles, wallet |-> Roles, payments |-> Roles,
     owner |-> InventoryRoles, admin |-> InventoryRoles, superadmin |-> {"SUPERADMIN"}]

Admits(api, role) == role \in ApiRoles[api]
=============================================================================
