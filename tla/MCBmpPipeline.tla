--------------------------- MODULE MCBmpPipeline ----------------------------
(* BmpPipeline on small sets of routers and connections, with no filter.     *)
EXTENDS BmpPipeline, TLC

CONSTANTS s1, s2, p1, p2

OwnPeers    == s1 :> {p1} @@ s2 :> {p2}
SinglePeers == s1 :> {p1}
=============================================================================
