------------------------------- MODULE MCDns --------------------------------
EXTENDS Dns
CONSTANTS x, y, ads, custom

McRank == [l \in Lists |-> IF l = ads THEN 1 ELSE 2]
McBlocks == [l \in Lists |-> IF l = ads THEN {x} ELSE {x, y}]
=============================================================================
