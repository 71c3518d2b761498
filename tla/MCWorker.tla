------------------------------ MODULE MCWorker ------------------------------
(* An order handed over twice, two events of it and a price question.      *)
EXTENDS Worker
CONSTANTS first, again, event, later, price, o1
MCKindOf == [d \in Deliveries |->
    IF d \in {first, again} THEN "order" ELSE IF d = price THEN "quote" ELSE "event"]
MCOrderOf == [d \in Deliveries |-> IF d = price THEN NoOrder ELSE o1]
=============================================================================
