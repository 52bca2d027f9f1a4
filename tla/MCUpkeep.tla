------------------------------ MODULE MCUpkeep ------------------------------
EXTENDS Upkeep
CONSTANTS broken, healthy, url, t1
MCInstances == <<broken, healthy>>
MCHome      == [k \in Keys |-> healthy]
MCPrUrl     == [i \in TaskIds |-> url]
MCReviewId  == [u \in {url, None} |-> IF u = url THEN t1 ELSE None]
=============================================================================
