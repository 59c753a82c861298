----------------------------- MODULE MCRpcClient -----------------------------
(* An instance of RpcClient for TLC: two callers, five tokens. *)
EXTENDS RpcClient, TLC

CONSTANTS c1, c2, a, b, s, g, r

MCNature == (a :> "good") @@ (b :> "good") @@ (s :> "silent") @@ (g :> "garbled")
                @@ (r :> "reverts")

MCCodeNature == (a :> "good") @@ (b :> "good") @@ (s :> "silent") @@ (g :> "silent")
                @@ (r :> "reverts")

Op(k, args) == [kind |-> k, args |-> args]

\* One caller has the operations of several requests, the other contends.
MCOperations ==
    (c1 :> {Op("once", <<a>>), Op("pair", <<a, b>>), Op("decimals", <<a, s>>), Op("decimals", <<a, b>>),
            Op("token", <<g>>), Op("metadata", <<a, r, b>>), Op("metadata", <<g, a, s, b>>),
            Op("scan", <<s, a, b>>)}) @@
    (c2 :> {Op("once", <<a>>), Op("blocks", <<a, b>>)})
=============================================================================
