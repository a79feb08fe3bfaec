------------------------------ MODULE MCLights -------------------------------
(* The watched lights of two tables and two callers. *)
EXTENDS LightsWatch

CONSTANTS t1, t2, c1, c2

MCTables == {t1, t2}
MCCallers == {c1, c2}
MCSwitches ==
    [to : {t1}, on : BOOLEAN] \cup [to : {All}, on : BOOLEAN]
==============================================================================
