------------------------------- MODULE MCAgent --------------------------------
EXTENDS Agent
\* The second client sends an option that the agent has not announced.
MCOptionLists == 1 :> {<<"filter", "trigger">>} @@ 2 :> {<<"depth", "unknown", "filter">>}
===============================================================================
