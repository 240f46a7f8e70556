---------------------------- MODULE Permissions ----------------------------
(***************************************************************************)
(* The write gate of core/permissions.ts and the credential ceilings of    *)
(* mcp/scopes.ts and core/mcpTokens.ts.  A write has one of two ORDERED    *)
(* tiers; the configuration grants an instance some of the two flags, and  *)
(* the credential of the request puts a ceiling on the tiers.              *)
(***************************************************************************)

\* The value `source.get` returns for a service config.yaml does not name.
CONSTANT NotConfigured

Tiers == {"safe", "destructive"}

\* One service's `permissions` block, as the set of the flags it turns on.
Flags == {"safe_write", "destructive"}

Grant == SUBSET Flags \cup {NotConfigured}

(* The tiers a credential may use: none (a read token, an unknown caller), *)
(* safe only, or both.                                                     *)
Ceilings == {{}, {"safe"}, {"safe", "destructive"}}

(* checkPermission: the ceiling first, then the file.  `destructive` grants *)
(* both tiers, `safe_write` only the safe one.                             *)
Permitted(tier, ceiling, grant) ==
  /\ tier \in ceiling
  /\ grant # NotConfigured
  /\ \/ "destructive" \in grant
     \/ tier = "safe" /\ "safe_write" \in grant

=============================================================================
