---------------------------- MODULE MCBaseConnection ----------------------------
(***************************************************************************)
(* Values for the constants of BaseConnection: no configuration at first,  *)
(* and two that differ in both parameters.                                 *)
(***************************************************************************)
EXTENDS BaseConnection, TLC

At(host, data) == [hostname |-> host, database |-> data]

None == At("", "")
Hostnames == {"", "host1", "host2"}
Databases == {"", "data1", "data2"}
TwoConfigurations == {At("host1", "data1"), At("host2", "data2")}

\* With nullptr from PQsetdbLogin a detached run may reconnect, and does not
\* get parameters that belong together; without, it never reconnects.
JoinedOrDetached == {
    [joined |-> TRUE, faults |-> FaultKind],
    [joined |-> FALSE, faults |-> FaultKind],
    [joined |-> FALSE, faults |-> {"link"}] }

InterchangeableRuns == Permutations(Run)
=================================================================================
