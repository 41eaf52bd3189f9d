------------------------------ MODULE MCMospf ------------------------------
\* The four routers of topo.py: a ring.
EXTENDS Mospf

Ring == {{1, 2}, {1, 3}, {2, 4}, {3, 4}}
=============================================================================
