---------------------------- MODULE MCIngestion ----------------------------
EXTENDS Ingestion
CONSTANTS feed, replay, points
Item(i, t) == [id |-> i, text |-> t]
Held2 == <<Item(2, 1), Item(1, 1)>>
Arrived == <<Item(2, 1), Item(1, 1), Item(2, 2)>>
Corpora == [s \in Sources |-> IF s = replay THEN Arrived ELSE IF s = feed THEN Held2 ELSE <<Item(1, 1)>>]
MostItems == [s \in Sources |-> IF s = feed THEN 3 ELSE IF s = replay THEN 2 ELSE 1]
MorePoints == [s \in Sources |-> 2]
=============================================================================
