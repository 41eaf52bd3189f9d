----------------------------- MODULE MCRouter -----------------------------
\* three_router_topo.py without its third router: h1 - r1 - r2 - h2.
EXTENDS Router

At(n, net) == <<n, net>>

TwoRouters == {At("r1", 1), At("r1", 2), At("r2", 2), At("r2", 4)}

Connected(net) == [nets |-> {net}, len |-> 24, gw |-> NoGw, out |-> net]
By(nets, len, gw) == [nets |-> nets, len |-> len, gw |-> gw, out |-> gw[2]]

\* r1 sends what it does not know better to r2, by a short prefix.
Tables == [r1 |-> <<By({1, 2, 4, 5}, 16, At("r2", 2)), Connected(1), Connected(2),
                    By({4}, 24, At("r2", 2))>>,
           r2 |-> <<Connected(2), Connected(4), By({1}, 24, At("r1", 2))>>]

Addrs == [h1 |-> At("h1", 1), h2 |-> At("h2", 4)]
Gates == [h1 |-> At("r1", 1), h2 |-> At("r2", 4)]

\* To the other host and a dead address beside it, to both routers' sides of each
\* link, to a net nobody knows; with little time to live.
To(a, ttl) == [dst |-> a, ttl |-> ttl]
FromH1 == {<<To(Addrs["h2"], 4), To(At("dead", 4), 4)>>, <<To(At("dead", 4), 4), To(At("dead", 4), 4)>>,
           <<To(Addrs["h2"], 1), To(Addrs["h2"], 2)>>, <<To(At("r2", 2), 4), To(At("r2", 4), 4)>>,
           <<To(At("r1", 1), 4), To(At("x", 5), 4)>>}

Trips == [h1 |-> FromH1, h2 |-> {<<>>}]

ASSUME OrderlyNetwork
=============================================================================
