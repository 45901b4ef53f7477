------------------------ MODULE MCCacheInvalidation ------------------------
(* Model-checking instances of CacheInvalidation. *)
EXTENDS CacheInvalidation, TLC

CONSTANTS ga, gb, codeA, codeB, sg, k1

\* Two gateways of one region with codes of their own, on one Redis.
MCGatewayOf == (ga :> codeA) @@ (gb :> codeB)
MCRegionOf == (ga :> sg) @@ (gb :> sg)

Notice(scope, gateway) == [scope |-> scope, gateway |-> gateway, region |-> sg]

\* A key change is addressed to one gateway, a configuration change to both.
MCNotices == {Notice("key:snapshot", codeA), Notice("config:snapshot", Everyone)}
=============================================================================
