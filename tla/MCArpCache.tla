----------------------------- MODULE MCArpCache -----------------------------
\* Two threads send to a neighbour that is up and to one that is down.
EXTENDS ArpCache

Traffic == [app   |-> <<[no |-> 1, to |-> "a"], [no |-> 2, to |-> "dead"]>>,
            timer |-> <<[no |-> 3, to |-> "a"]>>]
=============================================================================
