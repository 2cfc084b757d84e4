------------------------------ MODULE MCServices ------------------------------
EXTENDS NodeServices

CONSTANTS n1, n2, g1, l1, l, a1, a2, a3

\* n2 has died for good and its key is in etcd for all the run.
MCNodes == {n1, n2}
MCGone == {n2}
MCTypeOf == [n \in {n1, n2} |-> IF n = n1 THEN "gateway" ELSE "lobby"]
MCTypes == <<"gateway", "lobby">>
MCTargetLists == {<<"lobby">>, <<"gateway", "gateway">>}
MCRequests == 1 .. 2
MCScripts == {<<<<"all", "update_load">>, <<"node", "shutdown">>>>,
              <<<<"all", "shutdown">>>>, <<<<"types", "shutdown">>>>, <<<<"type", "restart">>>>,
              <<<<"list", "none">>>>, <<<<"status", "none">>>>}

MCServicesFound == {g1, l1}
MCTypeOfService == [s \in {g1, l1} |-> IF s = g1 THEN "gateway" ELSE "login"]

\* Two objects with one ID and one with another.
MCIdOf == [o \in {a1, a2, a3} |-> IF o = a3 THEN "b" ELSE "a"]

=============================================================================
