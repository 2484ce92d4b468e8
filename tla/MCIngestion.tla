---------------------------- MODULE MCIngestion ----------------------------
EXTENDS Ingestion

MCDeviceOf == [j \in Jobs |-> IF j = 2 THEN "d2" ELSE "d1"]
MCSessionOf == [j \in Jobs |-> j]
=============================================================================
