--------------------------- MODULE AuditOwnership ---------------------------
(* How an audit row is classified from the organisations that resolved        *)
(* relations name for its target, never from the row's own metadata.          *)
(*   apps/api/src/audit/audit-ownership.plan.ts                               *)
EXTENDS Naturals, FiniteSets

CONSTANT NoOrg   \* no organisation

\* classifyAuditOwnership of a row whose candidates name these organisations.
classifyAuditOwnership(supported, existing, ids) ==
  IF ~supported THEN "unsupported_event_shape"
  ELSE IF existing # NoOrg
       THEN IF ids \subseteq {existing} THEN "already_scoped" ELSE "ambiguous"
  ELSE IF Cardinality(ids) > 1 THEN "ambiguous"
  ELSE IF ids = {} THEN "orphaned" ELSE "authoritatively_attributable"
=============================================================================
