----------------------------- MODULE MCSessions -----------------------------
EXTENDS Sessions
CONSTANTS t1, t2, s1, s2
\* One tab with two requests in flight, losses and reloads, or two tabs with one each.
MCInstances == {[lanes |-> {<<t1, s1>>, <<t1, s2>>}, faults |-> 2],
                [lanes |-> {<<t1, s1>>, <<t2, s1>>}, faults |-> 0]}
=============================================================================
