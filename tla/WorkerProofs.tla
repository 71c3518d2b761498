---------------------------- MODULE WorkerProofs ----------------------------
(***************************************************************************)
(* Proofs about Worker, ScanJobs and MerchantGate: the places where works  *)
(* race that share an order, a scan, or a merchant's places.               *)
(*                                                                         *)
(* The merchant's worker, for any messages, any number of orders and any   *)
(* room.                                                                   *)
(*                                                                         *)
(* Works are serialised only by what each one was told to follow when it   *)
(* was scheduled, and by the last work of its order.  The invariant puts   *)
(* the works of an order in hand in one line: each follows the one before, *)
(* the first follows nothing in hand, and the order's tail is the last.    *)
(* Only the first may have begun, so only it may end.                      *)
(***************************************************************************)
EXTENDS Worker, FiniteSetTheorems, ScanJobs, MerchantGate, SequenceTheorems,
        WellFoundedInduction, TLAPS

\* f lists the n works of order o in hand, oldest first.
WorkLine(o, n, f) ==
    /\ f \in [1..n -> taken]
    /\ \A i \in 1..n : OrderOf[f[i]] = o
    /\ \A d \in taken : OrderOf[d] = o => \E i \in 1..n : f[i] = d
    /\ \A i, j \in 1..n : f[i] = f[j] => i = j
    /\ \A i \in 2..n : after[f[i]] = f[i - 1]
    /\ n > 0 => after[f[1]] \notin taken
    /\ tails[o] = IF n = 0 THEN NoDelivery ELSE f[n]

InLine == \A o \in Orders : \E n \in Nat : \E f \in [1..n -> Deliveries] : WorkLine(o, n, f)

\* Work that has begun follows nothing that is still in hand.
BegunIsFirst == \A d \in taken : phase[d] # "waiting" => after[d] \notin taken

\* Of an order's fulfilments one is in hand.
OneFulfilment ==
    \A d, e \in taken : d # e /\ OrderOf[d] = OrderOf[e] =>
        ~(KindOf[d] = "order" /\ KindOf[e] = "order")

\* A message not yet scheduled is new to everyone.
Fresh ==
    /\ \A i, j \in 1..Len(batch) : batch[i] = batch[j] => i = j
    /\ \A i \in 1..Len(batch) :
         /\ batch[i] \in handed \ (taken \cup called \cup arrived \cup abandoned)
         /\ \A d \in taken : after[d] # batch[i]
    /\ \A d \in taken : after[d] \in handed \cup {NoDelivery}
    /\ loop \in {"room", "polling", "out"} => batch = <<>>

\* What the phases say of calls and answers, and the give-up of the phases.
PhasesTell ==
    /\ \A d \in called : phase[d] # "waiting"
    /\ \A d \in arrived : phase[d] = "sending"
    /\ \A d \in abandoned : /\ phase[d] = "sending" => said[d] = "sending"
                            /\ said[d] = "waiting" => phase[d] = "waiting"

\* Nothing a poll brought is lost from sight.
InSight ==
    /\ handed \subseteq accounted \cup taken \cup Unread
    /\ abandoned \subseteq accounted
    /\ ended = TRUE => loop = "out" /\ handed \subseteq accounted
    /\ abandoned # {} => ended = TRUE

IInv ==
    /\ TypeOK /\ IsFiniteSet(taken)
    /\ InLine /\ BegunIsFirst /\ OneFulfilment
    /\ Fresh /\ PhasesTell /\ InSight

-----------------------------------------------------------------------------

LEMMA OneHandler == IInv => OneHandlerPerOrder
<1> SUFFICES ASSUME IInv, NEW d \in taken, NEW e \in taken, d # e,
                    OrderOf[d] = OrderOf[e], OrderOf[d] # NoOrder
             PROVE  /\ phase[d] = "waiting" \/ phase[e] = "waiting"
                    /\ ~(KindOf[d] = "order" /\ KindOf[e] = "order")
  BY DEF OneHandlerPerOrder, IInv
<1>1. OrderOf[d] \in Orders
  BY DEF Orders, IInv, TypeOK
<1>2a. PICK n \in Nat : \E f \in [1..n -> Deliveries] : WorkLine(OrderOf[d], n, f)
  BY <1>1 DEF IInv, InLine
<1>2. PICK f \in [1..n -> Deliveries] : WorkLine(OrderOf[d], n, f)
  BY <1>2a
<1>3. PICK i \in 1..n : f[i] = d
  BY <1>2 DEF WorkLine
<1>4. PICK j \in 1..n : f[j] = e
  BY <1>2 DEF WorkLine
<1>5. ASSUME NEW k \in 1..n, after[f[k]] \notin taken PROVE k = 1
  <2>1. k \in 2..n => after[f[k]] = f[k - 1] /\ k - 1 \in 1..n
    BY <1>2 DEF WorkLine
  <2> QED BY <1>2, <1>5, <2>1 DEF WorkLine
<1>6. phase[d] = "waiting" \/ phase[e] = "waiting"
  BY <1>3, <1>4, <1>5 DEF IInv, BegunIsFirst
<1> QED BY <1>6 DEF IInv, OneFulfilment

LEMMA GivenUp == IInv => GivenUpStaysGivenUp
BY DEF IInv, PhasesTell, InSight, GivenUpStaysGivenUp

LEMMA InitIInv == Init => IInv
<1> SUFFICES ASSUME Init PROVE IInv
  OBVIOUS
<1>1. stopping \in BOOLEAN /\ ended \in BOOLEAN /\ ended = FALSE
  BY DEF Init
<1>2. IsFiniteSet(taken) /\ Cardinality(taken) = 0
  BY FS_EmptySet DEF Init
<1>3. TypeOK
  BY <1>1, <1>2, WorkerAssumption DEF Init, TypeOK
<1>4. InLine
  <2>1. ASSUME NEW o \in Orders PROVE WorkLine(o, 0, [i \in 1..0 |-> NoDelivery])
    BY DEF WorkLine, Init
  <2>2. [i \in 1..0 |-> NoDelivery] \in [1..0 -> Deliveries]
    OBVIOUS
  <2> QED BY <2>1, <2>2 DEF InLine
<1>5. BegunIsFirst /\ OneFulfilment /\ Fresh /\ PhasesTell
  BY DEF BegunIsFirst, OneFulfilment, Fresh, PhasesTell, Init
<1>6. InSight
  BY <1>1 DEF InSight, Init
<1> QED BY <1>2, <1>3, <1>4, <1>5, <1>6 DEF IInv

-----------------------------------------------------------------------------
(* The end of a work, and the start of one.                                *)

\* The first of its line leaves it.
LEMMA LeavesTheLine ==
    ASSUME IInv, NEW d \in taken, after[d] \notin taken, Finishes(d)
    PROVE  InLine'
<1>0. taken \subseteq Deliveries /\ d \in Deliveries /\ NoDelivery \notin Deliveries
      /\ tails \in [Orders -> Deliveries \cup {NoDelivery}]
      /\ taken' = taken \ {d} /\ after' = after /\ tails' = TailsWithout(d)
  BY WorkerAssumption DEF IInv, TypeOK, Finishes
<1> SUFFICES ASSUME NEW o \in Orders
             PROVE  \E n \in Nat : \E f \in [1..n -> Deliveries] : WorkLine(o, n, f)'
  BY DEF InLine
<1>1a. PICK n \in Nat : \E f \in [1..n -> Deliveries] : WorkLine(o, n, f)
  BY DEF IInv, InLine
<1>1. PICK f \in [1..n -> Deliveries] : WorkLine(o, n, f)
  BY <1>1a
<1>2. tails'[o] = IF tails[o] = d THEN NoDelivery ELSE tails[o]
  BY <1>0 DEF TailsWithout
<1>3. CASE OrderOf[d] # o
  <2>1. WorkLine(o, n, f)'
    BY <1>0, <1>1, <1>2, <1>3 DEF WorkLine
  <2> QED BY <2>1
<1>4. CASE OrderOf[d] = o
  <2>1. n > 0 /\ f[1] = d
    <3>1. PICK i \in 1..n : f[i] = d
      BY <1>1, <1>4 DEF WorkLine
    <3>2. i \in 2..n => after[f[i]] = f[i - 1] /\ i - 1 \in 1..n
      BY <1>1 DEF WorkLine
    <3>3. i = 1
      BY <1>1, <3>1, <3>2 DEF WorkLine
    <3> QED BY <3>1, <3>3
  <2>2. PICK m \in Nat : m = n - 1
    BY <2>1
  <2>3. PICK g : g = [i \in 1..m |-> f[i + 1]]
    OBVIOUS
  <2>4. /\ g \in [1..m -> taken \ {d}] /\ g \in [1..m -> Deliveries]
        /\ \A i \in 1..m : g[i] = f[i + 1] /\ i + 1 \in 2..n
    BY <1>0, <1>1, <2>1, <2>2, <2>3 DEF WorkLine
  <2>5. \A e \in taken \ {d} : OrderOf[e] = o => \E i \in 1..m : g[i] = e
    <3> SUFFICES ASSUME NEW e \in taken \ {d}, OrderOf[e] = o PROVE \E i \in 1..m : g[i] = e
      OBVIOUS
    <3>1. PICK i \in 1..n : f[i] = e
      BY <1>1 DEF WorkLine
    <3>2. i - 1 \in 1..m
      BY <2>1, <2>2, <3>1
    <3> QED BY <2>4, <3>1, <3>2
  <2>6. \A i, j \in 1..m : g[i] = g[j] => i = j
    BY <1>1, <2>4 DEF WorkLine
  <2>7. \A i \in 2..m : after[g[i]] = g[i - 1]
    BY <1>1, <2>4 DEF WorkLine
  <2>8. m > 0 => after[g[1]] = d
    BY <1>1, <2>1, <2>4 DEF WorkLine
  <2>9. tails'[o] = IF m = 0 THEN NoDelivery ELSE g[m]
    BY <1>1, <1>2, <2>1, <2>2, <2>4 DEF WorkLine
  <2>10. WorkLine(o, m, g)'
    BY <1>0, <1>1, <2>4, <2>5, <2>6, <2>7, <2>8, <2>9 DEF WorkLine
  <2> QED BY <2>2, <2>4, <2>10
<1> QED BY <1>3, <1>4

LEMMA EndsWork ==
    ASSUME IInv, NEW d \in taken, after[d] \notin taken, Finishes(d),
           \/ accounted' = accounted \cup {d}
           \/ accounted' = accounted /\ d \in abandoned,
           UNCHANGED <<loop, batch, handed, stopping, ended, words, called, arrived>>
    PROVE  IInv'
<1> USE DEF IInv
<1>1. /\ taken' = taken \ {d} /\ phase' = phase /\ after' = after
      /\ UNCHANGED <<abandoned, said>> /\ tails' = TailsWithout(d)
  BY DEF Finishes, words
<1>2. IsFiniteSet(taken') /\ Cardinality(taken') <= HandlersAtOnce
  <2>1. Cardinality(taken) \in Nat /\ Cardinality(taken') = Cardinality(taken) - 1
        /\ IsFiniteSet(taken')
    BY <1>1, FS_RemoveElement, FS_CardinalityType
  <2> QED BY <2>1, WorkerAssumption DEF TypeOK
<1>3. tails' \in [Orders -> Deliveries \cup {NoDelivery}]
  BY <1>1 DEF TypeOK, TailsWithout
<1>4. stopping' \in BOOLEAN /\ ended' \in BOOLEAN
  BY DEF TypeOK
<1>5. TypeOK'
  BY <1>1, <1>2, <1>3, <1>4 DEF TypeOK
<1>6. BegunIsFirst' /\ OneFulfilment' /\ Fresh' /\ PhasesTell'
  BY <1>1 DEF BegunIsFirst, OneFulfilment, Fresh, PhasesTell
<1>7. InSight'
  <2>1. Unread' = Unread
    BY DEF Unread
  <2> QED BY <1>1, <2>1 DEF InSight
<1> QED BY <1>2, <1>5, <1>6, <1>7, LeavesTheLine

\* A work begins, or goes on to send its answer.
LEMMA GoesOn ==
    ASSUME IInv, NEW d \in taken, after[d] \notin taken, d \notin abandoned,
           NEW p \in {"in_handler", "sending"}, phase' = [phase EXCEPT ![d] = p],
           phase[d] # "sending", called' = called \/ called' = called \cup {d},
           UNCHANGED <<loop, batch, handed, stopping, ended, words, taken, after, tails,
                       arrived, accounted>>
    PROVE  IInv'
<1> USE DEF IInv
<1>1. stopping' \in BOOLEAN /\ ended' \in BOOLEAN /\ UNCHANGED <<abandoned, said>>
  BY DEF TypeOK, words
<1>2. /\ phase' \in [Deliveries -> {"waiting", "in_handler", "sending"}] /\ phase'[d] = p
      /\ \A e \in Deliveries \ {d} : phase'[e] = phase[e]
      /\ taken \subseteq handed /\ handed \subseteq Deliveries
      /\ called \subseteq handed /\ arrived \subseteq handed /\ abandoned \subseteq handed
  BY DEF TypeOK
<1>3. TypeOK'
  BY <1>1, <1>2 DEF TypeOK
<1>4. BegunIsFirst' /\ OneFulfilment'
  BY <1>2 DEF BegunIsFirst, OneFulfilment
<1>5. PhasesTell'
  BY <1>1, <1>2 DEF PhasesTell
<1>6. Fresh'
  BY <1>1 DEF Fresh
<1>7. InLine'
  BY DEF InLine, WorkLine
<1>8. InSight'
  <2>1. Unread' = Unread
    BY DEF Unread
  <2> QED BY <1>1, <2>1 DEF InSight
<1> QED BY <1>3, <1>4, <1>5, <1>6, <1>7, <1>8

LEMMA WorkSteps ==
    ASSUME IInv, NEW d \in Deliveries, Dispatch(d) \/ HandlerReturns(d) \/ SendEnds(d)
    PROVE  IInv'
<1>1. CASE Dispatch(d)
  <2>1. CASE d \in abandoned /\ Finishes(d) /\ UNCHANGED <<called, accounted>>
    BY <1>1, <2>1, EndsWork DEF Dispatch
  <2>2. CASE /\ d \notin abandoned /\ phase' = [phase EXCEPT ![d] = "in_handler"]
             /\ called' = called \cup {d} /\ UNCHANGED <<taken, after, tails, accounted>>
    BY <1>1, <2>2, GoesOn DEF Dispatch
  <2>3. CASE accounted' = accounted \cup {d} /\ Finishes(d) /\ UNCHANGED called
    BY <1>1, <2>3, EndsWork DEF Dispatch
  <2> QED BY <1>1, <2>1, <2>2, <2>3 DEF Dispatch
<1>2. CASE HandlerReturns(d)
  <2>1. d \in taken /\ phase[d] = "in_handler" /\ after[d] \notin taken
    BY <1>2 DEF HandlerReturns, IInv, BegunIsFirst
  <2>2. CASE /\ Sends(d) /\ phase' = [phase EXCEPT ![d] = "sending"]
             /\ UNCHANGED <<taken, after, tails, accounted>>
    BY <1>2, <2>1, <2>2, GoesOn DEF HandlerReturns, Sends
  <2>3. CASE Finishes(d) /\ accounted' = accounted \cup {d}
    BY <1>2, <2>1, <2>3, EndsWork DEF HandlerReturns
  <2> QED BY <1>2, <2>2, <2>3 DEF HandlerReturns
<1>3. CASE SendEnds(d)
  <2>1. d \in taken /\ after[d] \notin taken
    BY <1>3 DEF SendEnds, IInv, BegunIsFirst
  <2> QED BY <1>3, <2>1, EndsWork DEF SendEnds
<1> QED BY <1>1, <1>2, <1>3

LEMMA AnswerArrivesStep == ASSUME IInv, NEW d \in Deliveries, AnswerArrives(d) PROVE IInv'
<1> USE DEF IInv, AnswerArrives
<1>1. stopping' \in BOOLEAN /\ ended' \in BOOLEAN
      /\ UNCHANGED <<loop, batch, handed, abandoned, said, taken, phase, after, tails, called,
                     accounted, ended>>
  BY DEF TypeOK, words, work
<1>2. TypeOK'
  BY <1>1 DEF TypeOK
<1>3. PhasesTell' /\ Fresh'
  BY <1>1 DEF PhasesTell, Fresh
<1>4. InLine' /\ BegunIsFirst' /\ OneFulfilment'
  BY <1>1 DEF InLine, WorkLine, BegunIsFirst, OneFulfilment
<1>5. InSight'
  <2>1. Unread' = Unread
    BY <1>1 DEF Unread
  <2> QED BY <1>1, <2>1 DEF InSight
<1> QED BY <1>1, <1>2, <1>3, <1>4, <1>5

\* The loop, the stop and the end, which leave the works in hand alone.
LEMMA BesideTheWorks ==
    ASSUME IInv, UNCHANGED <<work, called, arrived>>,
           loop' \in {"room", "polling", "scheduling", "out"}, batch' \in Seq(Deliveries),
           handed \subseteq handed', handed' \subseteq Deliveries,
           abandoned' \subseteq handed', accounted' \subseteq handed',
           stopping' \in BOOLEAN, ended' \in BOOLEAN, Fresh', PhasesTell', InSight'
    PROVE  IInv'
<1> USE DEF IInv
<1>1. UNCHANGED <<taken, phase, after, tails>>
  BY DEF work
<1>2. TypeOK'
  BY <1>1 DEF TypeOK
<1>3. InLine' /\ BegunIsFirst' /\ OneFulfilment'
  BY <1>1 DEF InLine, WorkLine, BegunIsFirst, OneFulfilment
<1> QED BY <1>1, <1>2, <1>3

LEMMA LoopSteps ==
    ASSUME IInv, AskToPoll \/ Mismatch \/ BatchDone \/ Stop \/ AllFinished PROVE IInv'
<1> USE DEF IInv
<1>1. /\ UNCHANGED <<batch, handed, work, words, called, arrived, accounted>>
      /\ UNCHANGED <<taken, phase, after, tails, abandoned, said>>
  BY DEF AskToPoll, Mismatch, BatchDone, Stop, AllFinished, work, words
<1>2. stopping' \in BOOLEAN /\ ended' \in BOOLEAN
  BY DEF AskToPoll, Mismatch, BatchDone, Stop, AllFinished, TypeOK
<1>3. ended = FALSE \/ (ended' = ended /\ loop' = loop)
  <2>1. ended \in BOOLEAN /\ (ended = TRUE => loop = "out")
    BY DEF TypeOK, InSight
  <2> QED BY <2>1 DEF AskToPoll, Mismatch, BatchDone, Stop, AllFinished
<1>4. /\ loop' \in {"room", "polling", "scheduling", "out"}
      /\ loop' \in {"room", "polling", "out"} => batch = <<>>
  BY DEF AskToPoll, Mismatch, BatchDone, Stop, AllFinished, TypeOK, Fresh
<1>5. Fresh'
  BY <1>1, <1>4 DEF Fresh
<1>6. PhasesTell'
  BY <1>1 DEF PhasesTell
<1>7. InSight'
  <2>1. Unread' = Unread
    BY <1>1 DEF Unread
  <2>2. ended' = TRUE => loop' = "out" /\ handed' \subseteq accounted'
    <3>1. CASE AllFinished
      <4>1. batch = <<>> /\ taken = {} /\ loop' = "out"
        BY <3>1 DEF AllFinished, Fresh
      <4>2. Unread = {}
        BY <4>1 DEF Unread
      <4> QED BY <1>1, <4>1, <4>2 DEF InSight
    <3>2. CASE ~AllFinished
      <4>1. ended' = ended
        BY <3>2 DEF AskToPoll, Mismatch, BatchDone, Stop
      <4> QED BY <1>1, <1>3, <4>1 DEF InSight
    <3> QED BY <3>1, <3>2
  <2>3. abandoned' # {} => ended' = TRUE
    <3>1. ended = TRUE => ended' = TRUE
      BY <1>3 DEF AskToPoll, Mismatch, BatchDone, Stop, AllFinished
    <3> QED BY <1>1, <3>1 DEF InSight
  <2> QED BY <1>1, <2>1, <2>2, <2>3 DEF InSight
<1> QED BY <1>1, <1>2, <1>4, <1>5, <1>6, <1>7, BesideTheWorks DEF TypeOK

LEMMA PollAnsweredStep == ASSUME IInv, PollAnswered PROVE IInv'
<1> USE DEF IInv
<1>1. PICK size \in 0..MaxBatch : \E messages \in [1..size -> Deliveries \ handed] :
        /\ Cardinality({messages[i] : i \in 1..size}) = size
        /\ batch' = messages
        /\ handed' = handed \cup {messages[i] : i \in 1..size}
  BY DEF PollAnswered
<1>2. PICK messages \in [1..size -> Deliveries \ handed] :
        /\ Cardinality({messages[i] : i \in 1..size}) = size
        /\ batch' = messages
        /\ handed' = handed \cup {messages[i] : i \in 1..size}
  BY <1>1
<1>3. size \in Nat
  BY <1>1, WorkerAssumption
<1>4. batch' \in Seq(Deliveries) /\ Len(batch') = size
  BY <1>2, <1>3
<1>5. /\ loop = "polling" /\ loop' = "scheduling"
      /\ UNCHANGED <<stopping, ended, work, words, called, arrived, accounted>>
      /\ UNCHANGED <<taken, phase, after, tails, abandoned, said>>
  BY DEF PollAnswered, work, words
<1>6. batch = <<>> /\ Unread = {}
  BY <1>5 DEF Fresh, Unread
<1>7. \A i, j \in 1..size : messages[i] = messages[j] => i = j
  <2> DEFINE S == 1..size
             T == {messages[i] : i \in 1..size}
  <2>1. IsFiniteSet(S) /\ Cardinality(S) = size
    BY <1>3, FS_Interval
  <2>2. messages \in Surjection(S, T)
    BY <1>2 DEF Surjection
  <2>3. messages \in Injection(S, T)
    BY <1>2, <2>1, <2>2, FS_SurjSameCardinalityImpliesInj
  <2> QED BY <1>2, <2>3 DEF Injection, IsInjective
<1>8. Fresh'
  BY <1>2, <1>4, <1>5, <1>7, WorkerAssumption DEF Fresh, TypeOK
<1>9. PhasesTell'
  BY <1>5 DEF PhasesTell
<1>10. InSight'
  <2>1. Unread' = {messages[i] : i \in 1..size}
    BY <1>2, <1>4 DEF Unread
  <2>2. ended' = TRUE => FALSE
    BY <1>5 DEF InSight
  <2> QED BY <1>2, <1>5, <1>6, <2>1, <2>2 DEF InSight
<1>11. stopping' \in BOOLEAN /\ ended' \in BOOLEAN
  BY <1>5 DEF TypeOK
<1>12. handed \subseteq handed' /\ handed' \subseteq Deliveries
  BY <1>2 DEF TypeOK
<1> QED BY <1>4, <1>5, <1>8, <1>9, <1>10, <1>11, <1>12, BesideTheWorks DEF TypeOK

LEMMA LoopEndsStep == ASSUME IInv, LoopEnds PROVE IInv'
<1> USE DEF IInv
<1>1. /\ loop # "out" /\ loop' = "out" /\ batch' = <<>> /\ accounted' = accounted \cup Unread
      /\ UNCHANGED <<handed, stopping, ended, work, words, called, arrived>>
      /\ UNCHANGED <<taken, phase, after, tails, abandoned, said>>
  BY DEF LoopEnds, work, words
<1>2. Unread' = {} /\ Unread \subseteq handed
  BY <1>1 DEF Unread, Fresh
<1>3. Fresh' /\ PhasesTell'
  BY <1>1 DEF Fresh, PhasesTell
<1>4. InSight'
  <2>1. ended' = TRUE => FALSE
    BY <1>1 DEF InSight
  <2> QED BY <1>1, <1>2, <2>1 DEF InSight
<1>5. stopping' \in BOOLEAN /\ ended' \in BOOLEAN
  BY <1>1 DEF TypeOK
<1> QED BY <1>1, <1>2, <1>3, <1>4, <1>5, BesideTheWorks DEF TypeOK

LEMMA GiveUpStep == ASSUME IInv, GiveUp PROVE IInv'
<1> USE DEF IInv
<1>1. /\ loop = "out" /\ ended' = TRUE /\ abandoned' = taken
      /\ said' = [d \in Deliveries |-> IF d \in taken THEN phase[d] ELSE said[d]]
      /\ accounted' = accounted \cup taken
      /\ UNCHANGED <<loop, batch, handed, stopping, work, called, arrived>>
      /\ UNCHANGED <<taken, phase, after, tails>>
  BY DEF GiveUp, work
<1>2. batch = <<>> /\ Unread = {} /\ Unread' = {}
  BY <1>1 DEF Fresh, Unread
<1>3. Fresh'
  BY <1>1, <1>2 DEF Fresh
<1>4. PhasesTell'
  BY <1>1 DEF PhasesTell, TypeOK
<1>5. InSight'
  BY <1>1, <1>2 DEF InSight
<1>6. stopping' \in BOOLEAN /\ ended' \in BOOLEAN
  BY <1>1 DEF TypeOK
<1> QED BY <1>1, <1>3, <1>4, <1>5, <1>6, BesideTheWorks DEF TypeOK

-----------------------------------------------------------------------------
(* schedule.                                                               *)

\* The new work joins the end of its order's line.
LEMMA JoinsTheLine ==
    ASSUME IInv, NEW d \in Deliveries, d \notin taken, \A e \in taken : after[e] # d,
           taken' = taken \cup {d},
           after' = [after EXCEPT ![d] = IF OrderOf[d] = NoOrder THEN NoDelivery
                                         ELSE tails[OrderOf[d]]],
           tails' = IF OrderOf[d] = NoOrder THEN tails ELSE [tails EXCEPT ![OrderOf[d]] = d]
    PROVE  InLine'
<1>0. /\ taken \subseteq Deliveries /\ NoDelivery \notin Deliveries
      /\ after \in [Deliveries -> Deliveries \cup {NoDelivery}]
      /\ tails \in [Orders -> Deliveries \cup {NoDelivery}]
  BY WorkerAssumption DEF IInv, TypeOK
<1>1. \A e \in taken : after'[e] = after[e] /\ e # d
  BY <1>0
<1> SUFFICES ASSUME NEW o \in Orders
             PROVE  \E n \in Nat : \E f \in [1..n -> Deliveries] : WorkLine(o, n, f)'
  BY DEF InLine
<1>2. PICK n \in Nat : \E f \in [1..n -> Deliveries] : WorkLine(o, n, f)
  BY DEF IInv, InLine
<1>3. PICK f \in [1..n -> Deliveries] : WorkLine(o, n, f)
  BY <1>2
<1>4. o # NoOrder
  BY DEF Orders
<1>5. CASE OrderOf[d] # o
  <2>1. tails'[o] = tails[o]
    BY <1>0, <1>5
  <2>2. \A i \in 1..n : f[i] \in taken /\ after'[f[i]] = after[f[i]]
    BY <1>1, <1>3 DEF WorkLine
  <2>3. WorkLine(o, n, f)'
    BY <1>3, <1>5, <2>1, <2>2 DEF WorkLine
  <2> QED BY <2>3
<1>6. CASE OrderOf[d] = o
  <2>1. tails'[o] = d /\ after'[d] = tails[o]
    BY <1>0, <1>4, <1>6
  <2>2. PICK m \in Nat : m = n + 1
    OBVIOUS
  <2>3. PICK g : g = [i \in 1..m |-> IF i = m THEN d ELSE f[i]]
    OBVIOUS
  <2>4. \A i \in 1..n : i \in 1..m /\ g[i] = f[i] /\ f[i] \in taken /\ after'[f[i]] = after[f[i]]
    BY <1>1, <1>3, <2>2, <2>3 DEF WorkLine
  <2>5. \A i \in 1..m : i = m \/ i \in 1..n
    BY <2>2
  <2>6. g[m] = d /\ m \in 1..m
    BY <2>2, <2>3
  <2>7. g \in [1..m -> taken \cup {d}] /\ g \in [1..m -> Deliveries]
    BY <1>0, <2>3, <2>4, <2>5, <2>6
  <2>8. \A i \in 1..m : OrderOf[g[i]] = o
    BY <1>3, <1>6, <2>4, <2>5, <2>6 DEF WorkLine
  <2>9. \A e \in taken \cup {d} : OrderOf[e] = o => \E i \in 1..m : g[i] = e
    <3> SUFFICES ASSUME NEW e \in taken \cup {d}, OrderOf[e] = o PROVE \E i \in 1..m : g[i] = e
      OBVIOUS
    <3>1. CASE e = d
      BY <2>6, <3>1
    <3>2. CASE e \in taken
      <4>1. PICK i \in 1..n : f[i] = e
        BY <1>3, <3>2 DEF WorkLine
      <4> QED BY <2>4, <4>1
    <3> QED BY <3>1, <3>2
  <2>10. \A i, j \in 1..m : g[i] = g[j] => i = j
    <3> SUFFICES ASSUME NEW i \in 1..m, NEW j \in 1..m, g[i] = g[j] PROVE i = j
      OBVIOUS
    <3>1. CASE i \in 1..n /\ j \in 1..n
      <4>1. f[i] = f[j]
        BY <2>4, <3>1
      <4> QED BY <1>3, <3>1, <4>1 DEF WorkLine
    <3>2. CASE i = m \/ j = m
      <4>1. \A k \in 1..n : g[k] # d
        BY <1>1, <2>4
      <4> QED BY <2>5, <2>6, <3>2, <4>1
    <3> QED BY <2>5, <3>1, <3>2
  <2>11. \A i \in 2..m : after'[g[i]] = g[i - 1]
    <3> SUFFICES ASSUME NEW i \in 2..m PROVE after'[g[i]] = g[i - 1]
      OBVIOUS
    <3>1. CASE i = m
      <4>1. n > 0 /\ i - 1 = n /\ n \in 1..n
        BY <2>2, <3>1
      <4> QED BY <1>3, <2>1, <2>4, <2>6, <3>1, <4>1 DEF WorkLine
    <3>2. CASE i # m
      <4>1. i \in 2..n /\ i \in 1..n /\ i - 1 \in 1..n
        BY <2>2, <3>2
      <4> QED BY <1>3, <2>4, <4>1 DEF WorkLine
    <3> QED BY <3>1, <3>2
  <2>12. after'[g[1]] \notin taken \cup {d}
    <3>1. CASE n = 0
      BY <1>0, <1>3, <2>1, <2>2, <2>6, <3>1 DEF WorkLine
    <3>2. CASE n > 0
      <4>1. 1 \in 1..n
        BY <3>2
      <4> QED BY <1>3, <2>4, <3>2, <4>1 DEF WorkLine
    <3> QED BY <3>1, <3>2
  <2>13. WorkLine(o, m, g)'
    BY <2>1, <2>2, <2>6, <2>7, <2>8, <2>9, <2>10, <2>11, <2>12 DEF WorkLine
  <2> QED BY <2>2, <2>7, <2>13
<1> QED BY <1>5, <1>6

LEMMA ScheduleStep == ASSUME IInv, Schedule PROVE IInv'
<1> USE DEF IInv
<1>1. PICK d : d = Head(batch)
  OBVIOUS
<1>2. /\ loop = "scheduling" /\ batch # <<>> /\ batch \in Seq(Deliveries) /\ Room
      /\ batch' = Tail(batch)
      /\ UNCHANGED <<loop, handed, stopping, ended, words, called, arrived>>
      /\ UNCHANGED <<abandoned, said>>
  BY DEF Schedule, words, TypeOK
<1>3. /\ batch' \in Seq(Deliveries) /\ Len(batch) \in Nat \ {0} /\ d = batch[1]
      /\ Len(batch') = Len(batch) - 1 /\ d \in Deliveries
      /\ \A i \in 1..Len(batch') : batch'[i] = batch[i + 1] /\ i + 1 \in 1..Len(batch)
  BY <1>1, <1>2
<1>4. /\ d \in handed \ (taken \cup called \cup arrived \cup abandoned)
      /\ \A e \in taken : after[e] # d
      /\ \A i \in 1..Len(batch') : batch'[i] # d
  BY <1>3 DEF Fresh
<1>5. Unread \subseteq Unread' \cup {d}
  <2> SUFFICES ASSUME NEW i \in 1..Len(batch) PROVE batch[i] \in Unread' \cup {d}
    BY DEF Unread
  <2>1. CASE i = 1
    BY <1>3, <2>1
  <2>2. CASE i # 1
    <3>1. i - 1 \in 1..Len(batch') /\ batch'[i - 1] = batch[i]
      BY <1>3, <2>2
    <3> QED BY <3>1 DEF Unread
  <2> QED BY <2>1, <2>2
<1>6. stopping' \in BOOLEAN /\ ended' \in BOOLEAN /\ (ended' = TRUE => FALSE) /\ abandoned = {}
  <2>1. stopping' \in BOOLEAN /\ ended' \in BOOLEAN
    BY <1>2 DEF TypeOK
  <2>2. ended' = TRUE => FALSE
    BY <1>2 DEF InSight
  <2>3. abandoned = {}
    BY <1>2, <2>2 DEF InSight
  <2> QED BY <2>1, <2>2, <2>3
<1>7. CASE InHand(d)
  <2>1. accounted' = accounted \cup {d} /\ UNCHANGED work /\ UNCHANGED <<taken, phase, after, tails>>
    BY <1>1, <1>7 DEF Schedule, work
  <2>2. Fresh' /\ PhasesTell'
    BY <1>2, <1>3, <1>4, <2>1 DEF Fresh, PhasesTell
  <2>3. InSight'
    BY <1>2, <1>5, <1>6, <2>1 DEF InSight
  <2> QED BY <1>2, <1>3, <1>4, <1>6, <2>1, <2>2, <2>3, BesideTheWorks DEF TypeOK
<1>8. CASE ~InHand(d)
  <2>1. /\ taken' = taken \cup {d} /\ phase' = [phase EXCEPT ![d] = "waiting"]
        /\ after' = [after EXCEPT ![d] = IF OrderOf[d] = NoOrder THEN NoDelivery
                                         ELSE tails[OrderOf[d]]]
        /\ tails' = IF OrderOf[d] = NoOrder THEN tails ELSE [tails EXCEPT ![OrderOf[d]] = d]
        /\ accounted' = accounted
    BY <1>1, <1>8 DEF Schedule
  <2>2. OrderOf[d] = NoOrder \/ OrderOf[d] \in Orders
    BY <1>3 DEF Orders
  <2>3. after'[d] \in Deliveries \cup {NoDelivery}
        /\ \A e \in Deliveries \ {d} : after'[e] = after[e] /\ phase'[e] = phase[e]
    BY <1>3, <2>1, <2>2 DEF TypeOK
  <2>4. after'[d] \in taken \cup {NoDelivery}
    <3>1. CASE OrderOf[d] = NoOrder
      BY <1>3, <2>1, <3>1 DEF TypeOK
    <3>2. CASE OrderOf[d] \in Orders
      <4>1. PICK n \in Nat : \E f \in [1..n -> Deliveries] : WorkLine(OrderOf[d], n, f)
        BY <3>2 DEF InLine
      <4>2. PICK f \in [1..n -> Deliveries] : WorkLine(OrderOf[d], n, f)
        BY <4>1
      <4>3. n > 0 => f[n] \in taken
        BY <4>2 DEF WorkLine
      <4>4. tails[OrderOf[d]] \in taken \cup {NoDelivery}
        BY <4>2, <4>3 DEF WorkLine
      <4>5. OrderOf[d] # NoOrder
        BY <3>2 DEF Orders
      <4> QED BY <1>3, <2>1, <4>4, <4>5 DEF TypeOK
    <3> QED BY <2>2, <3>1, <3>2
  <2>5. IsFiniteSet(taken') /\ Cardinality(taken') <= HandlersAtOnce
    <3>1. /\ Cardinality(taken) \in Nat /\ Cardinality(taken') = Cardinality(taken) + 1
          /\ IsFiniteSet(taken')
      BY <1>4, <2>1, FS_AddElement, FS_CardinalityType
    <3> QED BY <1>2, <3>1, WorkerAssumption DEF Room
  <2>6. TypeOK'
    BY <1>2, <1>3, <1>4, <1>6, <2>1, <2>2, <2>3, <2>5 DEF TypeOK
  <2>7. InLine'
    BY <1>3, <1>4, <2>1, JoinsTheLine
  <2>8. BegunIsFirst'
    <3>1. phase'[d] = "waiting"
      BY <1>3, <2>1 DEF TypeOK
    <3> QED BY <1>4, <2>1, <2>3, <3>1 DEF BegunIsFirst, TypeOK
  <2>9. OneFulfilment'
    BY <1>8, <2>1 DEF OneFulfilment, InHand
  <2>10. Fresh'
    <3>1. \A i, j \in 1..Len(batch') : batch'[i] = batch'[j] => i = j
      BY <1>3 DEF Fresh
    <3>2. \A i \in 1..Len(batch') : batch'[i] \in handed \ (taken' \cup called \cup arrived \cup abandoned)
      BY <1>3, <1>4, <2>1 DEF Fresh
    <3>3. \A i \in 1..Len(batch') : batch'[i] \in Deliveries /\ batch'[i] \notin taken
      BY <1>3, <3>2, <2>1
    <3>4. \A i \in 1..Len(batch') : \A e \in taken' : after'[e] # batch'[i]
      BY <1>3, <1>4, <2>1, <2>3, <2>4, <3>3, WorkerAssumption DEF Fresh, TypeOK
    <3>5. \A e \in taken' : after'[e] \in handed \cup {NoDelivery}
      BY <1>4, <2>1, <2>3, <2>4 DEF Fresh, TypeOK
    <3> QED BY <1>2, <3>1, <3>2, <3>4, <3>5 DEF Fresh
  <2>11. PhasesTell'
    BY <1>2, <1>4, <1>6, <2>3 DEF PhasesTell, TypeOK
  <2>12. InSight'
    BY <1>2, <1>5, <1>6, <2>1 DEF InSight
  <2> QED BY <2>5, <2>6, <2>7, <2>8, <2>9, <2>10, <2>11, <2>12
<1> QED BY <1>7, <1>8

-----------------------------------------------------------------------------

LEMMA NextIInv == IInv /\ [Next]_vars => IInv'
<1> SUFFICES ASSUME IInv, [Next]_vars PROVE IInv'
  OBVIOUS
<1>1. CASE UNCHANGED vars
  <2>1. UNCHANGED <<loop, batch, handed, work, called, arrived, accounted, ended, stopping,
                    taken, phase, after, tails, abandoned, said>>
    BY <1>1 DEF vars, work
  <2>2. stopping' \in BOOLEAN /\ ended' \in BOOLEAN /\ Unread' = Unread
    BY <2>1 DEF IInv, TypeOK, Unread
  <2>3. Fresh' /\ PhasesTell' /\ InSight'
    BY <2>1, <2>2 DEF IInv, Fresh, PhasesTell, InSight
  <2> QED BY <2>1, <2>2, <2>3, BesideTheWorks DEF IInv, TypeOK
<1>2. CASE Loop
  BY <1>2, LoopSteps, PollAnsweredStep, ScheduleStep, LoopEndsStep DEF Loop
<1>3. ASSUME NEW d \in Deliveries,
             Dispatch(d) \/ HandlerReturns(d) \/ AnswerArrives(d) \/ SendEnds(d)
      PROVE  IInv'
  BY <1>3, WorkSteps, AnswerArrivesStep
<1> QED BY <1>1, <1>2, <1>3, LoopSteps, GiveUpStep DEF Next

(* The inductive invariant holds in every state of the worker.             *)
THEOREM Invariance == Spec => []IInv
BY InitIInv, NextIInv, PTL DEF Spec

(* One order is worked on by one handler at a time, and one fulfilment of  *)
(* it is in hand, for any messages and however often the gateway hands an  *)
(* order over (schedule's tails, dispatch).                                *)
THEOREM OneHandlerHolds == Spec => []OneHandlerPerOrder
BY Invariance, OneHandler, PTL

(* What a stop said of a message it gave up on stays true, and by its end  *)
(* every message a poll brought is answered, handled, shared or reported   *)
(* (finishOrGiveUp, send, run's report of unread messages).                *)
THEOREM GivenUpHolds == Spec => []GivenUpStaysGivenUp
BY Invariance, GivenUp, PTL

-----------------------------------------------------------------------------
(***************************************************************************)
(* The worker of a scan, for any set of checks and any deadlines.          *)
(*                                                                         *)
(* A score is of the stored checks because of what stands between a run's  *)
(* memory of what it has written and the rows: a run is fetched once, so   *)
(* it starts with nothing written, and while its attempt is the row's its  *)
(* writes are in the rows.                                                 *)
(***************************************************************************)

\* A run is fetched once: the queue's job waits for a run that has not begun.
FetchedOnce ==
    /\ retries = 0 => run[2] = "idle"
    /\ job = "waiting" => run[retries + 1] = "idle"

\* A run that has claimed nothing has written nothing.
NothingBeforeTheClaim == \A k \in Attempts : run[k] \in {"idle", "fetched"} => written[k] = {}

\* What the run of the row's attempt has seen written is in the rows.
WritesAreInTheRows ==
    \A k \in Attempts : attempt = k /\ run[k] = "scanning" =>
        \A c \in written[k] : checks[c] = k

\* A second attempt is never given back to the queue.
SecondIsTheLast == attempt = 2 => status # "queued"

ScanIInv ==
    /\ ScoreIsOfItsChecks
    /\ FetchedOnce /\ NothingBeforeTheClaim /\ WritesAreInTheRows /\ SecondIsTheLast

-----------------------------------------------------------------------------

USE DEF report, memory

LEMMA InitScan == ScanInit => ScanIInv
<1> SUFFICES ASSUME ScanInit PROVE ScanIInv
  OBVIOUS
<1> USE ScanJobsAssumption DEF ScanInit, Attempts, Status, Terminal, Step, Everything
<1>1. forgotten \in BOOLEAN
  OBVIOUS
<1>2. ScanTypeOK
  BY <1>1 DEF ScanTypeOK
<1>3. ScoreIsOfItsChecks
  BY <1>2 DEF ScoreIsOfItsChecks
<1> QED BY <1>3 DEF ScanIInv, FetchedOnce, NothingBeforeTheClaim, WritesAreInTheRows,
                   SecondIsTheLast

\* The end of a run, whatever the queue makes of it: no run becomes idle or
\* scanning, and the queue waits only for one that has not begun.
LEMMA EndOfARun ==
    ASSUME ScanIInv, NEW k \in Attempts, NEW failed \in BOOLEAN, Moves(k, "over"),
           Told(k, failed), run[k] # "idle"
    PROVE  /\ run' \in [Attempts -> Step]
           /\ job' \in {"waiting", "active", "done", "failed"} /\ retries' \in {0, 1}
           /\ held' = held
           /\ run'[k] = "over" /\ \A j \in Attempts \ {k} : run'[j] = run[j]
           /\ FetchedOnce'
<1> USE DEF ScanIInv, ScoreIsOfItsChecks, ScanTypeOK, Attempts
<1>1. run' = [run EXCEPT ![k] = "over"]
  BY DEF Moves
<1>2. /\ run' \in [Attempts -> Step] /\ run'[k] = "over"
      /\ \A j \in Attempts \ {k} : run'[j] = run[j]
  BY <1>1 DEF Step
<1>3. CASE job = "active" /\ k = retries + 1
  BY <1>1, <1>2, <1>3 DEF Told, FetchedOnce
<1>4. CASE ~(job = "active" /\ k = retries + 1)
  BY <1>1, <1>2, <1>4 DEF Told, FetchedOnce, queue
<1> QED BY <1>2, <1>3, <1>4

LEMMA FetchStep == ASSUME ScanIInv, NEW k \in Attempts, Fetch(k) PROVE ScanIInv'
<1> USE DEF ScanIInv, Attempts, Fetch, row, clocks
<1>1. /\ run[k] = "idle" /\ run' = [run EXCEPT ![k] = "fetched"]
  BY DEF FetchedOnce, Moves
<1>2. ScanTypeOK'
  BY <1>1, ScanJobsAssumption DEF ScoreIsOfItsChecks, ScanTypeOK, Step
<1>3. ScoreIsOfItsChecks'
  BY <1>2 DEF ScoreIsOfItsChecks
<1>4. FetchedOnce' /\ NothingBeforeTheClaim' /\ WritesAreInTheRows' /\ SecondIsTheLast'
  BY <1>1 DEF FetchedOnce, NothingBeforeTheClaim, WritesAreInTheRows, SecondIsTheLast,
             ScoreIsOfItsChecks, ScanTypeOK
<1> QED BY <1>3, <1>4

\* A run that does not own the scan ends and leaves the row as it was.
LEMMA LeavesTheRow ==
    ASSUME ScanIInv, NEW k \in Attempts, NEW failed \in BOOLEAN, run[k] # "idle",
           Moves(k, "over"), Told(k, failed), UNCHANGED <<row, memory, clocks>>
    PROVE  ScanIInv'
<1> USE DEF ScanIInv
<1>1. ScanTypeOK'
  BY EndOfARun DEF ScoreIsOfItsChecks, ScanTypeOK, row, clocks
<1>2. ScoreIsOfItsChecks'
  BY <1>1 DEF ScoreIsOfItsChecks, row
<1>3. NothingBeforeTheClaim' /\ WritesAreInTheRows' /\ SecondIsTheLast'
  BY EndOfARun DEF NothingBeforeTheClaim, WritesAreInTheRows, SecondIsTheLast, row
<1> QED BY <1>2, <1>3, EndOfARun

\* A run that owns the scan closes it without a score, or gives it back.
LEMMA ClosesTheRow ==
    ASSUME ScanIInv, NEW k \in Attempts, NEW failed \in BOOLEAN, run[k] # "idle", Owns(k),
           Moves(k, "over"), Told(k, failed),
           status' \in {"queued", "failed"}, status' = "queued" => k = 1, quiet' = 0,
           UNCHANGED <<attempt, report, score, forgotten, completed, memory, age>>
    PROVE  ScanIInv'
<1> USE DEF ScanIInv, Owns
<1>1. ScanTypeOK'
  BY EndOfARun, ScanJobsAssumption DEF ScoreIsOfItsChecks, ScanTypeOK, Status, Terminal
<1>2. ScoreIsOfItsChecks'
  BY <1>1 DEF ScoreIsOfItsChecks
<1>3. NothingBeforeTheClaim' /\ WritesAreInTheRows' /\ SecondIsTheLast'
  BY EndOfARun DEF NothingBeforeTheClaim, WritesAreInTheRows, SecondIsTheLast
<1> QED BY <1>2, <1>3, EndOfARun

LEMMA ClaimStep == ASSUME ScanIInv, NEW k \in Attempts, Claim(k) PROVE ScanIInv'
<1>1. CASE ~Claimable(k)
  BY <1>1, LeavesTheRow DEF Claim, Resolves
<1>2. CASE Claimable(k)
  <2> USE DEF ScanIInv, Attempts, Claim
  <2>1. /\ run[k] = "fetched" /\ run' = [run EXCEPT ![k] = ClaimedStep]
        /\ status' = "running" /\ attempt' = k /\ checks' = ChecksForClaim(k) /\ quiet' = 0
        /\ UNCHANGED <<basis, score, forgotten, completed, memory, age, queue>>
    BY <1>2 DEF Moves
  <2>2. ClaimedStep \in {"deleted", "expired", "scanning"}
    BY DEF ClaimedStep
  <2>3. /\ checks' \in [Checks -> Attempts \cup {0}]
        /\ \A c \in Checks : checks'[c] \in {0, k} /\ (checks'[c] # 0 => checks[c] # 0)
    BY <1>2, <2>1 DEF ScoreIsOfItsChecks, ScanTypeOK, ChecksForClaim, Claimable
  <2>4. ScanTypeOK'
    BY <2>1, <2>2, <2>3, ScanJobsAssumption
       DEF ScoreIsOfItsChecks, ScanTypeOK, Step, Status, queue
  <2>5. ScoreIsOfItsChecks'
    BY <1>2, <2>1, <2>3, <2>4 DEF ScoreIsOfItsChecks, Claimable, Terminal
  <2>6. FetchedOnce'
    BY <2>1, <2>2 DEF FetchedOnce, ScoreIsOfItsChecks, ScanTypeOK, queue
  <2>7. NothingBeforeTheClaim' /\ WritesAreInTheRows' /\ SecondIsTheLast'
    BY <2>1, <2>2 DEF NothingBeforeTheClaim, WritesAreInTheRows, SecondIsTheLast,
                     ScoreIsOfItsChecks, ScanTypeOK
  <2> QED BY <2>5, <2>6, <2>7
<1> QED BY <1>1, <1>2

LEMMA ClosesDeletedStep == ASSUME ScanIInv, NEW k \in Attempts, ClosesDeleted(k) PROVE ScanIInv'
<1>1. CASE Owns(k) /\ status' = "failed" /\ quiet' = 0 /\ Resolves(k)
  BY <1>1, ClosesTheRow DEF ClosesDeleted, Resolves
<1>2. CASE UNCHANGED <<status, quiet>> /\ (Resolves(k) \/ Throws(k))
  BY <1>2, LeavesTheRow DEF ClosesDeleted, Resolves, Throws, row, clocks
<1> QED BY <1>1, <1>2 DEF ClosesDeleted

LEMMA MarkFailureStep == ASSUME ScanIInv, NEW k \in Attempts, MarkFailure(k) PROVE ScanIInv'
<1>1. CASE Owns(k) /\ status' = FailureStatus(k) /\ quiet' = 0
  <2>1. status' \in {"queued", "failed"} /\ (status' = "queued" => k = 1)
    BY <1>1 DEF FailureStatus, Attempts
  <2> QED BY <1>1, <2>1, ClosesTheRow DEF MarkFailure, Throws
<1>2. CASE UNCHANGED <<status, quiet>>
  BY <1>2, LeavesTheRow DEF MarkFailure, Throws, row, clocks
<1> QED BY <1>1, <1>2 DEF MarkFailure

\* A check is written no sooner than what its result is made of is fetched.
LEMMA WrittenInTime ==
    \A c \in Checks : /\ WrittenAfter(c) \in 0..Everything /\ MadeOf(c) \in 0..Everything
                      /\ MadeOf(c) <= WrittenAfter(c)
BY ScanJobsAssumption DEF WrittenAfter, MadeOf, Everything

LEMMA FetchMoreStep == ASSUME ScanIInv, NEW k \in Attempts, FetchMore(k) PROVE ScanIInv'
<1> USE DEF ScanIInv, FetchMore, row, queue, clocks
<1>1. ScanTypeOK'
  <2>1. fetched' \in [Attempts -> 0..Everything]
    BY DEF ScoreIsOfItsChecks, ScanTypeOK, Everything
  <2> QED BY <2>1 DEF ScoreIsOfItsChecks, ScanTypeOK
<1>2. ScoreIsOfItsChecks'
  BY <1>1 DEF ScoreIsOfItsChecks
<1> QED BY <1>2 DEF FetchedOnce, NothingBeforeTheClaim, WritesAreInTheRows, SecondIsTheLast

LEMMA WriteCheckStep ==
    ASSUME ScanIInv, NEW k \in Attempts, NEW c \in Checks, WriteCheck(k, c) PROVE ScanIInv'
<1>1. CASE Owns(k)
  <2> USE DEF ScanIInv, WriteCheck, Owns
  <2>1. /\ checks' = [checks EXCEPT ![c] = k] /\ written' = [written EXCEPT ![k] = @ \cup {c}]
        /\ basis' = [basis EXCEPT ![c] = fetched[k]] /\ WrittenAfter(c) <= fetched[k]
        /\ fetched' = fetched /\ status = "running" /\ attempt = k /\ run[k] = "scanning"
        /\ UNCHANGED <<status, attempt, score, forgotten, completed, clocks, run, queue>>
    BY <1>1
  <2>2. ScanTypeOK'
    BY <2>1 DEF ScoreIsOfItsChecks, ScanTypeOK, clocks, queue
  <2>3. ScoreIsOfItsChecks'
    <3>1. basis'[c] >= MadeOf(c)
      BY <2>1, WrittenInTime DEF ScoreIsOfItsChecks, ScanTypeOK, Everything
    <3> QED BY <2>1, <2>2, <3>1 DEF ScoreIsOfItsChecks, ScanTypeOK
  <2>4. NothingBeforeTheClaim' /\ WritesAreInTheRows'
    BY <2>1 DEF NothingBeforeTheClaim, WritesAreInTheRows, ScoreIsOfItsChecks, ScanTypeOK
  <2> QED BY <2>1, <2>3, <2>4 DEF FetchedOnce, SecondIsTheLast, queue
<1>2. CASE ~Owns(k)
  BY <1>2, LeavesTheRow DEF WriteCheck, Resolves, row, clocks
<1> QED BY <1>1, <1>2

LEMMA CommitStep == ASSUME ScanIInv, NEW k \in Attempts, Commit(k) PROVE ScanIInv'
<1>1. CASE Owns(k) /\ status' = "failed" /\ quiet' = 0 /\ UNCHANGED <<score, completed>> /\ Resolves(k)
  BY <1>1, ClosesTheRow DEF Commit, Resolves
<1>2. CASE /\ Owns(k) /\ status' \in {"completed", "partial"} /\ quiet' = 0
           /\ score' = k /\ completed' = completed + 1 /\ Resolves(k)
  <2> USE DEF ScanIInv, Commit, Owns
  <2>1. /\ run[k] = "scanning" /\ written[k] = Checks /\ status = "running" /\ attempt = k
        /\ UNCHANGED <<attempt, report, forgotten, memory, age>>
    BY <1>2
  <2>2. /\ run'[k] = "over" /\ \A j \in Attempts \ {k} : run'[j] = run[j]
        /\ FetchedOnce' /\ held' = held /\ run' \in [Attempts -> Step]
        /\ job' \in {"waiting", "active", "done", "failed"} /\ retries' \in {0, 1}
    BY <1>2, <2>1, EndOfARun DEF Resolves
  <2>3. ScanTypeOK'
    BY <1>2, <2>1, <2>2, ScanJobsAssumption DEF ScoreIsOfItsChecks, ScanTypeOK, Status, Terminal
  <2>4. \A c \in Checks : checks[c] = k
    BY <2>1 DEF WritesAreInTheRows
  <2>5. ScoreIsOfItsChecks'
    BY <1>2, <2>1, <2>3, <2>4 DEF ScoreIsOfItsChecks, Attempts
  <2>6. NothingBeforeTheClaim' /\ WritesAreInTheRows' /\ SecondIsTheLast'
    BY <1>2, <2>1, <2>2 DEF NothingBeforeTheClaim, WritesAreInTheRows, SecondIsTheLast
  <2> QED BY <2>2, <2>5, <2>6
<1>3. CASE /\ Owns(k) /\ Moves(k, "failing") /\ UNCHANGED <<status, score, completed, quiet, queue>>
  <2> USE DEF ScanIInv, Commit
  <2>1. /\ run[k] = "scanning" /\ run' = [run EXCEPT ![k] = "failing"] /\ UNCHANGED <<row, memory, age, quiet, queue>>
    BY <1>3 DEF Moves, row
  <2>2. ScanTypeOK'
    BY <2>1 DEF ScoreIsOfItsChecks, ScanTypeOK, Step, queue, row
  <2>3. ScoreIsOfItsChecks'
    BY <2>1, <2>2 DEF ScoreIsOfItsChecks, row
  <2> QED BY <2>1, <2>3 DEF FetchedOnce, NothingBeforeTheClaim, WritesAreInTheRows,
                          SecondIsTheLast, ScoreIsOfItsChecks, ScanTypeOK, queue, row, Attempts
<1>4. CASE Resolves(k) /\ UNCHANGED <<status, score, completed, quiet>>
  BY <1>4, LeavesTheRow DEF Commit, Resolves, row, clocks
<1> QED BY <1>1, <1>2, <1>3, <1>4 DEF Commit

\* A run under way moves on, or dies, and touches nothing else.
LEMMA MovesOn ==
    ASSUME ScanIInv, NEW k \in Attempts, run[k] # "idle", NEW step \in {"failing", "over"},
           Moves(k, step), UNCHANGED <<row, memory, queue, clocks>>
    PROVE  ScanIInv'
<1> USE DEF ScanIInv, row, queue, clocks
<1>1. run' = [run EXCEPT ![k] = step]
  BY DEF Moves
<1>2. ScanTypeOK'
  BY <1>1 DEF ScoreIsOfItsChecks, ScanTypeOK, Step
<1>3. ScoreIsOfItsChecks'
  BY <1>2 DEF ScoreIsOfItsChecks
<1> QED BY <1>1, <1>3 DEF FetchedOnce, NothingBeforeTheClaim, WritesAreInTheRows,
                        SecondIsTheLast, ScoreIsOfItsChecks, ScanTypeOK, Attempts

LEMMA RunStep ==
    ASSUME ScanIInv, NEW k \in Attempts,
           ClaimFails(k) \/ Fails(k) \/ Heartbeat(k) \/ Dies(k)
    PROVE  ScanIInv'
<1>1. CASE ClaimFails(k)
  BY <1>1, LeavesTheRow DEF ClaimFails, Throws
<1>2. CASE Fails(k)
  BY <1>2, MovesOn DEF Fails
<1>3. CASE Heartbeat(k)
  <2> USE <1>3 DEF ScanIInv, Heartbeat, row, queue
  <2>1. ScanTypeOK'
    BY ScanJobsAssumption DEF ScoreIsOfItsChecks, ScanTypeOK
  <2>2. ScoreIsOfItsChecks'
    BY <2>1 DEF ScoreIsOfItsChecks
  <2> QED BY <2>2 DEF FetchedOnce, NothingBeforeTheClaim, WritesAreInTheRows, SecondIsTheLast
<1>4. CASE Dies(k)
  BY <1>4, MovesOn DEF Dies
<1> QED BY <1>1, <1>2, <1>3, <1>4

\* The queue, the sweeper, the deletion and the clock.
LEMMA AroundStep == ASSUME ScanIInv, JobExpires \/ Sweep \/ Forget \/ Tick PROVE ScanIInv'
<1> USE DEF ScanIInv
<1>1. CASE JobExpires
  <2> USE <1>1 DEF JobExpires, row, clocks
  <2>1. ScanTypeOK'
    BY DEF ScoreIsOfItsChecks, ScanTypeOK
  <2>2. ScoreIsOfItsChecks'
    BY <2>1 DEF ScoreIsOfItsChecks
  <2> QED BY <2>2 DEF FetchedOnce, NothingBeforeTheClaim, WritesAreInTheRows, SecondIsTheLast,
                      ScoreIsOfItsChecks, ScanTypeOK
<1>2. CASE Sweep
  <2> USE <1>2 DEF Sweep, Lost, Terminal, queue
  <2>1. ScanTypeOK'
    BY ScanJobsAssumption DEF ScoreIsOfItsChecks, ScanTypeOK, Status
  <2>2. ScoreIsOfItsChecks'
    BY <2>1 DEF ScoreIsOfItsChecks
  <2> QED BY <2>2 DEF FetchedOnce, NothingBeforeTheClaim, WritesAreInTheRows, SecondIsTheLast
<1>3. CASE Forget
  <2> USE <1>3 DEF Forget, queue, clocks
  <2>1. forgotten' \in BOOLEAN
    OBVIOUS
  <2>2. ScanTypeOK'
    BY <2>1 DEF ScoreIsOfItsChecks, ScanTypeOK
  <2>3. ScoreIsOfItsChecks'
    BY <2>2 DEF ScoreIsOfItsChecks
  <2> QED BY <2>3 DEF FetchedOnce, NothingBeforeTheClaim, WritesAreInTheRows, SecondIsTheLast
<1>4. CASE Tick
  <2> USE <1>4 DEF Tick, row
  <2>1. ScanTypeOK'
    BY ScanJobsAssumption DEF ScoreIsOfItsChecks, ScanTypeOK, Older
  <2>2. ScoreIsOfItsChecks'
    BY <2>1 DEF ScoreIsOfItsChecks
  <2> QED BY <2>2 DEF FetchedOnce, NothingBeforeTheClaim, WritesAreInTheRows, SecondIsTheLast
<1> QED BY <1>1, <1>2, <1>3, <1>4

LEMMA NextScan == ScanIInv /\ [ScanNext]_scanVars => ScanIInv'
<1> SUFFICES ASSUME ScanIInv, [ScanNext]_scanVars PROVE ScanIInv'
  OBVIOUS
<1>1. ASSUME NEW k \in Attempts, Works(k) PROVE ScanIInv'
  BY <1>1, FetchStep, ClaimStep, ClosesDeletedStep, FetchMoreStep, CommitStep, MarkFailureStep,
     WriteCheckStep DEF Works
<1>2. CASE UNCHANGED scanVars
  BY <1>2 DEF ScanIInv, ScoreIsOfItsChecks, ScanTypeOK, FetchedOnce, NothingBeforeTheClaim,
             WritesAreInTheRows, SecondIsTheLast, scanVars
<1> QED BY <1>1, <1>2, RunStep, AroundStep DEF ScanNext

-----------------------------------------------------------------------------

(* The inductive invariant holds in every state a scan can be in.          *)
THEOREM ScanInvariant == ScanSpec => []ScanIInv
BY InitScan, NextScan, PTL DEF ScanSpec

(* A published score is the score of exactly the checks stored beside it,  *)
(* and scan_completed is emitted for it once, however a first worker the   *)
(* queue gave up on interleaves its writes with the second (claim,         *)
(* upsertCheck, commitTerminal), and no check stored early was worked out  *)
(* before what it is made of was fetched (emitChecks, evaluateChecks).     *)
THEOREM ScoreHolds == ScanSpec => []ScoreIsOfItsChecks
<1>1. ScanIInv => ScoreIsOfItsChecks
  BY DEF ScanIInv
<1> QED BY <1>1, ScanInvariant, PTL

\* What a step may do to a scan's result.
Stands ==
    /\ status \in Terminal => UNCHANGED <<status, attempt, score, report, completed>>
    /\ attempt' >= attempt
    /\ attempt = 2 => status' # "queued"

LEMMA StepStands == ScanIInv /\ [ScanNext]_scanVars => [Stands]_scanVars
<1> SUFFICES ASSUME ScanIInv, ScanNext PROVE Stands
  BY DEF scanVars
<1> USE DEF Stands
<1>1. attempt \in Attempts /\ attempt \in Nat /\ (attempt = 2 => status # "queued")
  BY DEF ScanIInv, ScoreIsOfItsChecks, ScanTypeOK, SecondIsTheLast, Attempts
<1>2. ASSUME NEW k \in Attempts, Works(k) PROVE Stands
  <2>1. CASE Fetch(k)
    BY <1>1, <2>1 DEF Fetch, row
  <2>2. CASE Claim(k)
    BY <1>1, <2>2 DEF Claim, Claimable, row, Attempts
  <2>3. CASE ClosesDeleted(k)
    BY <1>1, <2>3 DEF ClosesDeleted, Owns, Terminal
  <2>4. CASE Commit(k)
    BY <1>1, <2>4 DEF Commit, Owns, Terminal
  <2>5. CASE MarkFailure(k)
    BY <1>1, <2>5 DEF MarkFailure, FailureStatus, Owns, Terminal, Attempts
  <2>6. CASE \E c \in Checks : WriteCheck(k, c)
    BY <1>1, <2>6 DEF WriteCheck, Owns, Terminal
  <2>7. CASE FetchMore(k)
    BY <1>1, <2>7 DEF FetchMore, row
  <2> QED BY <1>2, <2>1, <2>2, <2>3, <2>4, <2>5, <2>6, <2>7 DEF Works
<1>3. ASSUME NEW k \in Attempts, ClaimFails(k) \/ Fails(k) \/ Heartbeat(k) \/ Dies(k)
      PROVE  Stands
  BY <1>1, <1>3 DEF ClaimFails, Fails, Heartbeat, Dies, row
<1>4. ASSUME JobExpires \/ Sweep \/ Forget \/ Tick PROVE Stands
  BY <1>1, <1>4 DEF JobExpires, Sweep, Lost, Forget, Tick, row
<1> QED BY <1>2, <1>3, <1>4 DEF ScanNext

(* A scan that is over stays as it is, and an attempt never goes back: no  *)
(* late worker, late failure or sweep changes a result, and once a second  *)
(* attempt has begun the scan is given back neither to the first nor to    *)
(* the queue (claim, markSystemFailure).                                   *)
THEOREM ResultStandsHolds == ScanSpec => ResultStands
<1>1. ScanSpec => [][Stands]_scanVars
  BY ScanInvariant, StepStands, PTL DEF ScanSpec
<1> QED BY <1>1 DEF ResultStands, Stands

HIDE DEF report, memory

-----------------------------------------------------------------------------
(***************************************************************************)
(* A merchant's line at a MerchantGate, for any callers, payers, limits    *)
(* and rate.                                                               *)
(*                                                                         *)
(* The pass of #next is a fold over the line.  Its recursion is unfolded   *)
(* first: it has one solution, by the least counterexample among the sets  *)
(* of places, so the line after k waiters is the line after k - 1 of them  *)
(* with the k-th let in or left.  Along it (Passed) the counters are those *)
(* inside and those let in, the rest stands in line as it came, and none   *)
(* of them could be let in, as a place once taken or a payer once held     *)
(* only makes that harder.  The invariant GateIInv says the same of a      *)
(* state: the counters are the places held (Counts), the line is the       *)
(* callers that wait, each once (Queues), no payer twice (Apart), and      *)
(* nobody waits that could be let in (Fair).                               *)
(***************************************************************************)

(* Among some subsets of a finite set there is a smallest one.             *)
LEMMA SmallestSet ==
    ASSUME NEW S, IsFiniteSet(S), NEW B, B \subseteq SUBSET S, B # {}
    PROVE  \E X \in B : \A Y \in B : Y \subseteq X => Y = X
<1>1. B \subseteq FiniteSubsetsOf(S)
  BY FS_Subset DEF FiniteSubsetsOf
<1>2. IsWellFoundedOn(StrictSubsetOrdering(S), FiniteSubsetsOf(S))
  BY FS_StrictSubsetOrderingWellFounded
<1>3. PICK X \in B : \A Y \in B : ~(<<Y, X>> \in StrictSubsetOrdering(S))
  BY <1>1, <1>2, WFMin
<1>4. ASSUME NEW Y \in B, Y \subseteq X, Y # X PROVE FALSE
  <2>1. <<Y, X>> \in StrictSubsetOrdering(S)
    BY <1>4 DEF StrictSubsetOrdering
  <2> QED BY <1>3, <2>1
<1> QED BY <1>4

(* A set of natural numbers has a least one, because the intervals below   *)
(* its members are finite sets.                                            *)
LEMMA LeastNatural ==
    ASSUME NEW T, T \subseteq Nat, T # {}
    PROVE  \E x \in T : \A y \in T : x <= y
<1> DEFINE F == {1..n : n \in T}
<1>1. F \subseteq FiniteSubsetsOf(Nat)
  <2>1. \A n \in Nat : IsFiniteSet(1..n) /\ 1..n \subseteq Nat
    BY FS_Interval
  <2>2. \A n \in Nat : 1..n \in FiniteSubsetsOf(Nat)
    BY <2>1 DEF FiniteSubsetsOf
  <2> QED BY <2>2
<1>2. IsWellFoundedOn(StrictSubsetOrdering(Nat), FiniteSubsetsOf(Nat))
  BY FS_StrictSubsetOrderingWellFounded
<1>3. F # {}
  OBVIOUS
<1>4. PICK X \in F : \A Y \in F : ~(<<Y, X>> \in StrictSubsetOrdering(Nat))
  <2> HIDE DEF F
  <2> QED BY <1>1, <1>2, <1>3, WFMin
<1>5. PICK x \in T : X = 1..x
  OBVIOUS
<1>6. ASSUME NEW y \in T, y < x PROVE FALSE
  <2>1. 1..y \in F /\ 1..y \subseteq 1..x /\ 1..y # 1..x
    BY <1>6
  <2>2. <<1..y, X>> \in StrictSubsetOrdering(Nat)
    BY <1>5, <2>1 DEF StrictSubsetOrdering
  <2> QED BY <1>4, <2>1, <2>2
<1> QED BY <1>6

\* The place a pass over some places comes to last is one of them.
LEMMA MaxIsIn ==
    ASSUME NEW n \in Nat, NEW s \in SUBSET (1..n), s # {}
    PROVE  Max(s) \in s /\ \A y \in s : Max(s) >= y
<1> DEFINE B == {x \in 0..n : \A y \in s : x >= y}
<1>1. B \subseteq Nat /\ B # {}
  <2>1. n \in B
    OBVIOUS
  <2> QED BY <2>1
<1>2. PICK x \in B : \A y \in B : x <= y
  <2> HIDE DEF B
  <2> QED BY <1>1, LeastNatural
<1>3. x \in s
  <2> SUFFICES ASSUME x \notin s PROVE FALSE
    OBVIOUS
  <2>1. \A y \in s : y \in 1..n /\ x >= y /\ x # y
    OBVIOUS
  <2>2. PICK y0 \in s : TRUE
    OBVIOUS
  <2>3. x - 1 \in 0..n /\ \A y \in s : x - 1 >= y
    BY <2>1, <2>2, x \in 0..n, y0 \in 1..n
  <2>4. x - 1 \in B
    BY <2>3
  <2> QED BY <1>2, <2>4
<1>4. \E z \in s : \A y \in s : z >= y
  BY <1>3
<1> QED BY <1>4 DEF Max

\* g solves the recursion of the pass over the callers w from l, on the places S.
Passes(l, w, S, g) ==
    g = [s \in SUBSET S |-> IF s = {} THEN l ELSE LetIn(g[s \ {Max(s)}], w[Max(s)])]

\* The line the pass over the places S leaves.
After(l, w, S) == (CHOOSE g : Passes(l, w, S, g))[S]

\* The fold of #next is the pass over all places.
LEMMA PassIs ==
    ASSUME NEW l, NEW w
    PROVE  FoldLeft(LetIn, l, w) = After(l, w, DOMAIN w)
  BY DEF FoldLeft, MapThenFoldSet, After, Passes

\* The place a pass comes to last is one of those it passes over.
Places(S) == IsFiniteSet(S) /\ \A s \in SUBSET S : s # {} => Max(s) \in s

\* The places of a line are such.
LEMMA PlacesUpTo ==
    ASSUME NEW n \in Nat
    PROVE  Places(1..n)
<1>1. IsFiniteSet(1..n)
  BY FS_Interval
<1>2. \A s \in SUBSET (1..n) : s # {} => Max(s) \in s
  BY MaxIsIn
<1> QED BY <1>1, <1>2 DEF Places

\* Fewer places are places.
LEMMA FewerPlaces ==
    ASSUME NEW S, Places(S), NEW T, T \subseteq S
    PROVE  Places(T)
  BY FS_Subset DEF Places

\* A solution unfolded at some of the places.
LEMMA PassesAt ==
    ASSUME NEW l, NEW w, NEW S, NEW g, Passes(l, w, S, g), NEW s \in SUBSET S
    PROVE  g[s] = IF s = {} THEN l ELSE LetIn(g[s \ {Max(s)}], w[Max(s)])
  BY DEF Passes

\* Two solutions agree where both are defined.
LEMMA PassesAgree ==
    ASSUME NEW l, NEW w, NEW S, Places(S), NEW T, T \subseteq S,
           NEW g, NEW h, Passes(l, w, S, g), Passes(l, w, T, h)
    PROVE  g[T] = h[T]
<1>1. IsFiniteSet(T) /\ \A s \in SUBSET T : s # {} => Max(s) \in s
  BY FewerPlaces DEF Places
<1>2. \A s \in SUBSET S : g[s] = IF s = {} THEN l ELSE LetIn(g[s \ {Max(s)}], w[Max(s)])
  BY PassesAt
<1>3. \A s \in SUBSET T : h[s] = IF s = {} THEN l ELSE LetIn(h[s \ {Max(s)}], w[Max(s)])
  BY PassesAt
<1> DEFINE B == {s \in SUBSET T : g[s] # h[s]}
<1>4. B = {}
  <2> SUFFICES ASSUME B # {} PROVE FALSE
    OBVIOUS
  <2>1. PICK s \in B : \A t \in B : t \subseteq s => t = s
    <3>1. B \subseteq SUBSET T
      OBVIOUS
    <3> HIDE DEF B
    <3> QED BY <1>1, <3>1, SmallestSet
  <2>2. s \in SUBSET T /\ s \in SUBSET S /\ g[s] # h[s]
    OBVIOUS
  <2>3. /\ g[s] = IF s = {} THEN l ELSE LetIn(g[s \ {Max(s)}], w[Max(s)])
        /\ h[s] = IF s = {} THEN l ELSE LetIn(h[s \ {Max(s)}], w[Max(s)])
    BY <2>2, <1>2, <1>3
  <2>4. s # {}
    BY <2>2, <2>3
  <2>5. Max(s) \in s
    BY <1>1, <2>2, <2>4
  <2>6. s \ {Max(s)} \in SUBSET T /\ s \ {Max(s)} # s /\ s \ {Max(s)} \subseteq s
    BY <2>2, <2>5
  <2>7. g[s \ {Max(s)}] = h[s \ {Max(s)}]
    BY <2>1, <2>6
  <2> QED BY <2>2, <2>3, <2>4, <2>7
<1> QED BY <1>4

\* The pass over places whose recursion has solutions, as its last step.
LEMMA PassUnfolds ==
    ASSUME NEW l, NEW w, NEW S, Places(S),
           \A T \in SUBSET S : \E g : Passes(l, w, T, g)
    PROVE  After(l, w, S) =
             IF S = {} THEN l ELSE LetIn(After(l, w, S \ {Max(S)}), w[Max(S)])
<1> DEFINE G(T) == CHOOSE g : Passes(l, w, T, g)
<1>1. \A T \in SUBSET S : Passes(l, w, T, G(T))
  <2> SUFFICES ASSUME NEW T \in SUBSET S PROVE Passes(l, w, T, G(T))
    OBVIOUS
  <2>1. \E g : Passes(l, w, T, g)
    OBVIOUS
  <2> HIDE DEF Passes
  <2> QED BY <2>1
<1>2. \A T : After(l, w, T) = G(T)[T]
  BY DEF After
<1> HIDE DEF G
<1>3. G(S)[S] = IF S = {} THEN l ELSE LetIn(G(S)[S \ {Max(S)}], w[Max(S)])
  BY <1>1, PassesAt
<1>4. G(S)[S \ {Max(S)}] = G(S \ {Max(S)})[S \ {Max(S)}]
  BY <1>1, PassesAgree
<1> QED BY <1>2, <1>3, <1>4

\* The recursion of a pass has a solution.
LEMMA PassExists ==
    ASSUME NEW l, NEW w, NEW S, Places(S)
    PROVE  \A T \in SUBSET S : \E g : Passes(l, w, T, g)
<1> DEFINE B == {T \in SUBSET S : ~\E g : Passes(l, w, T, g)}
<1> SUFFICES ASSUME B # {} PROVE FALSE
  OBVIOUS
<1>1. PICK X \in B : \A Y \in B : Y \subseteq X => Y = X
  <2>1. B \subseteq SUBSET S /\ IsFiniteSet(S)
    BY DEF Places
  <2> HIDE DEF B
  <2> QED BY <2>1, SmallestSet
<1>2. Places(X)
  BY FewerPlaces
<1>3. \A T \in SUBSET X : T # X => \E g : Passes(l, w, T, g)
  BY <1>1
<1>4. ASSUME NEW s \in SUBSET X, s # X, s # {}
      PROVE  After(l, w, s) = LetIn(After(l, w, s \ {Max(s)}), w[Max(s)])
  <2>1. Places(s)
    BY <1>2, FewerPlaces
  <2>2. \A T \in SUBSET s : T \in SUBSET X /\ T # X
    BY <1>4
  <2>3. \A T \in SUBSET s : \E g : Passes(l, w, T, g)
    BY <1>3, <2>2
  <2> QED BY <1>4, <2>1, <2>3, PassUnfolds
<1>5. X # {} => After(l, w, {}) = l
  <2> SUFFICES ASSUME X # {} PROVE After(l, w, {}) = l
    OBVIOUS
  <2>1. \A T \in SUBSET {} : \E g : Passes(l, w, T, g)
    BY <1>3
  <2>2. Places({})
    BY <1>2, FewerPlaces
  <2> QED BY <2>1, <2>2, PassUnfolds
<1> DEFINE v(s) == IF s = {} THEN l
                   ELSE IF s = X THEN LetIn(After(l, w, X \ {Max(X)}), w[Max(X)])
                   ELSE After(l, w, s)
           g == [s \in SUBSET X |-> v(s)]
<1>6. \A s \in SUBSET X : v(s) = IF s = {} THEN l ELSE LetIn(g[s \ {Max(s)}], w[Max(s)])
  <2> SUFFICES ASSUME NEW s \in SUBSET X, s # {}
               PROVE  v(s) = LetIn(g[s \ {Max(s)}], w[Max(s)])
    OBVIOUS
  <2>1. Max(s) \in s
    BY <1>2 DEF Places
  <2>2. s \ {Max(s)} \in SUBSET X /\ s \ {Max(s)} # X
    BY <2>1
  <2>3. g[s \ {Max(s)}] = After(l, w, s \ {Max(s)})
    BY <1>5, <2>2
  <2>4. v(s) = LetIn(After(l, w, s \ {Max(s)}), w[Max(s)])
    BY <1>4
  <2> QED BY <2>3, <2>4
<1>7. Passes(l, w, X, g)
  <2> HIDE DEF v
  <2>1. g = [s \in SUBSET X |-> IF s = {} THEN l ELSE LetIn(g[s \ {Max(s)}], w[Max(s)])]
    BY <1>6
  <2> QED BY <2>1 DEF Passes
<1> QED BY <1>7

(* #next passes over the line from its head: the line after k waiters is    *)
(* the line after k - 1 of them with the k-th let in or left where it was.  *)
LEMMA PassSteps ==
    ASSUME NEW l, NEW w, NEW n \in Nat
    PROVE  /\ After(l, w, 1..0) = l
           /\ \A k \in 1..n : After(l, w, 1..k) = LetIn(After(l, w, 1..(k - 1)), w[k])
<1>1. \A S : Places(S) => After(l, w, S) =
               IF S = {} THEN l ELSE LetIn(After(l, w, S \ {Max(S)}), w[Max(S)])
  <2> SUFFICES ASSUME NEW S, Places(S)
               PROVE  After(l, w, S) =
                 IF S = {} THEN l ELSE LetIn(After(l, w, S \ {Max(S)}), w[Max(S)])
    OBVIOUS
  <2>1. \A T \in SUBSET S : \E g : Passes(l, w, T, g)
    BY PassExists
  <2> QED BY <2>1, PassUnfolds
<1>2. After(l, w, 1..0) = l
  <2>1. Places(1..0) /\ 1..0 = {}
    BY PlacesUpTo
  <2> QED BY <1>1, <2>1
<1>3. ASSUME NEW k \in 1..n
      PROVE  After(l, w, 1..k) = LetIn(After(l, w, 1..(k - 1)), w[k])
  <2>1. Places(1..k)
    BY PlacesUpTo
  <2>2. 1..k # {} /\ (1..k) \ {k} = 1..(k - 1) /\ k \in 1..k
    OBVIOUS
  <2>3. Max(1..k) \in 1..k /\ Max(1..k) >= k
    <3>1. \A s \in SUBSET (1..k) : s # {} => Max(s) \in s /\ \A y \in s : Max(s) >= y
      BY MaxIsIn
    <3>2. 1..k \in SUBSET (1..k)
      OBVIOUS
    <3> QED BY <2>2, <3>1, <3>2
  <2>4. Max(1..k) = k
    BY <2>3
  <2> QED BY <1>1, <2>1, <2>2, <2>4
<1> QED BY <1>2, <1>3

-----------------------------------------------------------------------------
(* What the pass keeps.                                                    *)
Gain(k) == IF PerSecond = Unbounded THEN 0 ELSE k

\* No two of these callers act for one payer.
Apart(S) == \A c, d \in S : c # d => Payers(c) \cap Payers(d) = {}

\* The counters are what the callers In hold and what n seconds have seen.
Counts(l, In, n) ==
    /\ In \subseteq Callers /\ Apart(In)
    /\ l.active = Cardinality(In) /\ l.active <= AtOnce
    /\ l.recent = n /\ (PerSecond # Unbounded => n <= PerSecond)
    /\ l.holding = UNION {Payers(c) : c \in In}

\* The line is the callers W, each once.
Queues(w, W) ==
    /\ W = {w[i] : i \in 1..Len(w)}
    /\ \A i, j \in 1..Len(w) : w[i] = w[j] => i = j

Fair(l, W) == \A c \in W : ~Admissible(l, c)

\* Whoever of w was passed by one of S has a payer that holds a place.
InTurn(l, w, k, S) ==
    \A i, j \in 1..k : i < j /\ w[i] \notin S /\ w[j] \in S =>
        Payers(w[i]) \cap l.holding # {}

\* The first k callers of w have been passed over and S of them let in.
Passed(m, w, k, In, n, S) ==
    /\ m \in Line /\ S \subseteq {w[i] : i \in 1..k}
    /\ Counts(m, In \cup S, n + Gain(Cardinality(S)))
    /\ Queues(m.waiting, {w[i] : i \in 1..k} \ S) /\ Len(m.waiting) <= k
    /\ Fair(m, {w[i] : i \in 1..k} \ S)
    /\ InTurn(m, w, k, S)

\* One more caller takes a place.
LEMMA AdmitIs ==
    ASSUME NEW l \in Line, NEW c \in Callers
    PROVE  /\ Admit(l, c) \in Line
           /\ Admit(l, c).active = l.active + 1
           /\ Admit(l, c).recent = l.recent + Gain(1)
           /\ Admit(l, c).holding = l.holding \cup Payers(c)
           /\ Admit(l, c).waiting = l.waiting
<1>1. Payers(c) \subseteq {PayerOf[d] : d \in Callers}
  BY DEF Payers
<1>2. PICK g : g = IF PerSecond = Unbounded THEN l.recent ELSE l.recent + 1
  OBVIOUS
<1>3. g \in Nat /\ g = l.recent + Gain(1)
  BY <1>2 DEF Line, Gain
<1>4. PICK Q : Q = Payers(c) /\ Q \subseteq {PayerOf[d] : d \in Callers}
  BY <1>1
<1>5. Admit(l, c) = [l EXCEPT !.active = @ + 1, !.holding = @ \cup Q, !.recent = g]
  BY <1>2, <1>4 DEF Admit
<1>6. PICK m : m = [l EXCEPT !.active = @ + 1, !.holding = @ \cup Q, !.recent = g]
  OBVIOUS
<1>7. /\ m \in Line /\ m.active = l.active + 1 /\ m.recent = g
      /\ m.holding = l.holding \cup Q /\ m.waiting = l.waiting
  <2>1. PICK X, Y : X = {PayerOf[d] : d \in Callers} /\ Y = Seq(Callers)
    OBVIOUS
  <2>2. Line = [active : Nat, recent : Nat, holding : SUBSET X, waiting : Y]
    BY <2>1 DEF Line
  <2>3. Q \subseteq X
    BY <1>4, <2>1
  <2>4. l.holding \cup Q \in SUBSET X /\ l.active + 1 \in Nat
    BY <2>2, <2>3
  <2>5. PICK a, h : a = l.active + 1 /\ h = l.holding \cup Q
    OBVIOUS
  <2>6. m = [l EXCEPT !.active = a, !.holding = h, !.recent = g]
    BY <1>6, <2>5
  <2>7. /\ m \in Line /\ m.active = a /\ m.recent = g
        /\ m.holding = h /\ m.waiting = l.waiting
    BY <1>3, <2>2, <2>4, <2>5, <2>6
  <2> QED BY <2>5, <2>7
<1> QED BY <1>3, <1>4, <1>5, <1>6, <1>7

\* The counters count whoever is admitted.
LEMMA AdmitCounts ==
    ASSUME NEW l \in Line, NEW In, NEW n \in Nat, Counts(l, In, n),
           NEW c \in Callers, c \notin In, Admissible(l, c)
    PROVE  Counts(Admit(l, c), In \cup {c}, n + Gain(1))
<1>1. IsFiniteSet(In)
  BY GateAssumption, FS_Subset DEF Counts
<1>2. Cardinality(In \cup {c}) = Cardinality(In) + 1 /\ Cardinality(In) \in Nat
  BY <1>1, FS_AddElement, FS_CardinalityType
<1>3. Payers(c) \cap l.holding = {} /\ l.active < AtOnce /\ AtOnce \in Nat
  BY GateAssumption DEF Admissible, HasRoom
<1>4. \A d \in In : Payers(c) \cap Payers(d) = {} /\ Payers(d) \cap Payers(c) = {}
  BY <1>3 DEF Counts
<1>5. Apart(In \cup {c})
  BY <1>4 DEF Apart, Counts
<1>6. Admit(l, c).holding = UNION {Payers(d) : d \in In \cup {c}}
  BY AdmitIs DEF Counts
<1>7. PerSecond # Unbounded => PerSecond \in Nat /\ n < PerSecond
  BY GateAssumption DEF Admissible, HasRoom, Counts
<1>8. /\ Admit(l, c).active = l.active + 1 /\ Admit(l, c).recent = l.recent + Gain(1)
  BY AdmitIs
<1>9. n + Gain(1) \in Nat /\ (PerSecond # Unbounded => n + Gain(1) <= PerSecond)
  BY <1>7 DEF Gain
<1>10. l.active = Cardinality(In) /\ l.recent = n /\ In \subseteq Callers
  BY DEF Counts
<1>11. Cardinality(In \cup {c}) <= AtOnce
  BY <1>2, <1>3, <1>10
<1> QED BY <1>2, <1>5, <1>6, <1>8, <1>9, <1>10, <1>11 DEF Counts

\* Whoever could not be let in cannot be once one more is inside.
LEMMA StillFair ==
    ASSUME NEW l \in Line, NEW c \in Callers, NEW W, Fair(l, W)
    PROVE  Fair(Admit(l, c), W)
<1> SUFFICES ASSUME NEW d \in W, Admissible(Admit(l, c), d) PROVE Admissible(l, d)
  BY DEF Fair
<1>1. /\ Admit(l, c).active = l.active + 1
      /\ Admit(l, c).recent = l.recent + Gain(1)
      /\ Admit(l, c).holding = l.holding \cup Payers(c)
  BY AdmitIs
<1>2. l.active \in Nat /\ l.recent \in Nat
  BY DEF Line
<1>3. AtOnce \in Nat /\ (PerSecond = Unbounded \/ PerSecond \in Nat)
  BY GateAssumption
<1>4. HasRoom(Admit(l, c)) /\ Payers(d) \cap Admit(l, c).holding = {}
  BY DEF Admissible
<1>5. HasRoom(l)
  BY <1>1, <1>2, <1>3, <1>4 DEF HasRoom, Gain
<1>6. Payers(d) \cap l.holding = {}
  BY <1>1, <1>4
<1> QED BY <1>5, <1>6 DEF Admissible

\* A caller left in line.
LEMMA StaysIs ==
    ASSUME NEW l \in Line, NEW c \in Callers
    PROVE  LET m == [l EXCEPT !.waiting = Append(@, c)] IN
           /\ m \in Line /\ m.active = l.active /\ m.recent = l.recent
           /\ m.holding = l.holding /\ m.waiting = Append(l.waiting, c)
  BY DEF Line

\* A line with one more caller at its end.
LEMMA QueuesOn ==
    ASSUME NEW w \in Seq(Callers), NEW W, Queues(w, W), NEW c \in Callers, c \notin W
    PROVE  Queues(Append(w, c), W \cup {c})
<1>1. /\ Len(Append(w, c)) = Len(w) + 1 /\ Len(w) \in Nat
      /\ \A i \in 1..Len(w) : Append(w, c)[i] = w[i]
      /\ Append(w, c)[Len(w) + 1] = c
  OBVIOUS
<1>2. \A i \in 1..(Len(w) + 1) : i \in 1..Len(w) \/ i = Len(w) + 1
  BY <1>1
<1>3. \A i \in 1..Len(w) : i \in 1..(Len(w) + 1) /\ w[i] # c
  BY <1>1 DEF Queues
<1>4. W \cup {c} = {Append(w, c)[i] : i \in 1..(Len(w) + 1)}
  <2>1. Len(w) + 1 \in 1..(Len(w) + 1)
    BY <1>1
  <2> QED BY <1>1, <1>2, <1>3, <2>1 DEF Queues
<1>5. \A i, j \in 1..(Len(w) + 1) : Append(w, c)[i] = Append(w, c)[j] => i = j
  BY <1>1, <1>2, <1>3 DEF Queues
<1> QED BY <1>1, <1>4, <1>5 DEF Queues

\* What is counted is read from the counters, not from the line.
LEMMA SameCounters ==
    ASSUME NEW l, NEW m, m.active = l.active, m.recent = l.recent, m.holding = l.holding
    PROVE  /\ \A In, n : Counts(l, In, n) => Counts(m, In, n)
           /\ \A W : Fair(l, W) => Fair(m, W)
           /\ \A c : Admissible(l, c) <=> Admissible(m, c)
           /\ \A w, k, S : InTurn(l, w, k, S) => InTurn(m, w, k, S)
  BY DEF Counts, Fair, Admissible, HasRoom, InTurn

\* One step of the pass.
LEMMA PassedOn ==
    ASSUME NEW w \in Seq(Callers), \A i, j \in 1..Len(w) : w[i] = w[j] => i = j,
           NEW k \in 1..Len(w), NEW In, \A i \in 1..Len(w) : w[i] \notin In,
           NEW n \in Nat, NEW m, NEW S, Passed(m, w, k - 1, In, n, S)
    PROVE  \E T : Passed(LetIn(m, w[k]), w, k, In, n, T)
<1> DEFINE c == w[k]
           V == {w[i] : i \in 1..(k - 1)}
           U == {w[i] : i \in 1..k}
<1>1. /\ c \in Callers /\ Len(w) \in Nat /\ k \in Nat /\ k - 1 \in Nat /\ k \in 1..k
      /\ \A i \in 1..k : i \in 1..Len(w)
      /\ \A i \in 1..k : i \in 1..(k - 1) \/ i = k
      /\ \A i \in 1..(k - 1) : i \in 1..k /\ i # k
  OBVIOUS
<1>2. U = V \cup {c} /\ c \notin V
  BY <1>1
<1>3. /\ m \in Line /\ S \subseteq V /\ Counts(m, In \cup S, n + Gain(Cardinality(S)))
      /\ Queues(m.waiting, V \ S) /\ Len(m.waiting) <= k - 1
      /\ Fair(m, V \ S) /\ InTurn(m, w, k - 1, S)
  BY DEF Passed
<1>4. c \notin In \cup S /\ S \subseteq Callers /\ V \subseteq Callers
  BY <1>1, <1>2, <1>3
<1>5. IsFiniteSet(S)
  BY <1>4, GateAssumption, FS_Subset
<1>6. m.waiting \in Seq(Callers)
  BY <1>3 DEF Line
<1> HIDE DEF c, V
<1>7. CASE Admissible(m, c)
  <2>1. LetIn(m, c) = Admit(m, c)
    BY <1>7 DEF LetIn
  <2>2. /\ Admit(m, c) \in Line /\ Admit(m, c).waiting = m.waiting
        /\ Admit(m, c).holding = m.holding \cup Payers(c)
    BY <1>1, <1>3, AdmitIs
  <2>3. n + Gain(Cardinality(S)) \in Nat
    BY <1>5, FS_CardinalityType DEF Gain
  <2>4. Counts(Admit(m, c), (In \cup S) \cup {c}, n + Gain(Cardinality(S)) + Gain(1))
    BY <1>1, <1>3, <1>4, <1>7, <2>3, AdmitCounts
  <2>5. Cardinality(S \cup {c}) = Cardinality(S) + 1 /\ Cardinality(S) \in Nat
    BY <1>4, <1>5, FS_AddElement, FS_CardinalityType
  <2>6. n + Gain(Cardinality(S)) + Gain(1) = n + Gain(Cardinality(S \cup {c}))
    BY <2>5 DEF Gain
  <2>7. (In \cup S) \cup {c} = In \cup (S \cup {c})
    OBVIOUS
  <2>8. U \ (S \cup {c}) = V \ S /\ S \cup {c} \subseteq U
    BY <1>2, <1>3
  <2>9. Fair(Admit(m, c), V \ S)
    BY <1>1, <1>3, StillFair
  <2>10. Len(m.waiting) <= k
    BY <1>1, <1>3, <1>6
  <2>11. InTurn(Admit(m, c), w, k, S \cup {c})
    <3> SUFFICES ASSUME NEW i \in 1..k, NEW j \in 1..k, i < j, w[i] \notin S \cup {c},
                        w[j] \in S \cup {c}
                 PROVE  Payers(w[i]) \cap Admit(m, c).holding # {}
      BY DEF InTurn
    <3>1. i \in 1..(k - 1)
      BY <1>1
    <3>2. CASE j \in 1..(k - 1)
      <4>1. w[j] # c
        BY <1>2, <3>2 DEF V
      <4>2. Payers(w[i]) \cap m.holding # {}
        BY <1>3, <3>1, <3>2, <4>1 DEF InTurn
      <4> QED BY <2>2, <4>2
    <3>3. CASE j = k
      <4>1. w[i] \in V \ S
        BY <3>1 DEF V
      <4>2. ~Admissible(m, w[i])
        BY <1>3, <4>1 DEF Fair
      <4>3. Payers(w[i]) \cap m.holding # {}
        BY <1>7, <4>2 DEF Admissible
      <4> QED BY <2>2, <4>3
    <3> QED BY <1>1, <3>2, <3>3
  <2>12. Passed(Admit(m, c), w, k, In, n, S \cup {c})
    BY <1>3, <2>2, <2>4, <2>6, <2>7, <2>8, <2>9, <2>10, <2>11 DEF Passed
  <2> QED BY <2>1, <2>12 DEF c
<1>8. CASE ~Admissible(m, c)
  <2> DEFINE p == [m EXCEPT !.waiting = Append(@, c)]
  <2>1. LetIn(m, c) = p
    BY <1>8 DEF LetIn
  <2>2. /\ p \in Line /\ p.active = m.active /\ p.recent = m.recent
        /\ p.holding = m.holding /\ p.waiting = Append(m.waiting, c)
    BY <1>1, <1>3, StaysIs
  <2> HIDE DEF p
  <2>3. U \ S = (V \ S) \cup {c} /\ S \subseteq U
    BY <1>2, <1>3
  <2>4. Counts(p, In \cup S, n + Gain(Cardinality(S)))
    BY <1>3, <2>2, SameCounters
  <2>5. Queues(p.waiting, (V \ S) \cup {c})
    <3>1. PICK q, W : q = m.waiting /\ W = V \ S
      OBVIOUS
    <3>2. q \in Seq(Callers) /\ Queues(q, W) /\ c \in Callers /\ c \notin W
      BY <1>1, <1>2, <1>3, <1>6, <3>1
    <3>3. Queues(Append(q, c), W \cup {c})
      BY <3>2, QueuesOn
    <3> QED BY <2>2, <3>1, <3>3
  <2>6. Len(p.waiting) <= k
    <3>1. Len(p.waiting) = Len(m.waiting) + 1 /\ Len(m.waiting) \in Nat
      BY <1>1, <1>6, <2>2
    <3> QED BY <1>1, <1>3, <3>1
  <2>7. Fair(p, (V \ S) \cup {c})
    BY <1>3, <1>8, <2>2, SameCounters DEF Fair
  <2>8. InTurn(p, w, k, S)
    <3> SUFFICES ASSUME NEW i \in 1..k, NEW j \in 1..k, i < j, w[i] \notin S, w[j] \in S
                 PROVE  Payers(w[i]) \cap p.holding # {}
      BY DEF InTurn
    <3>1. w[k] \notin S
      BY <1>4 DEF c
    <3>2. j \in 1..(k - 1) /\ i \in 1..(k - 1)
      BY <1>1, <3>1
    <3> QED BY <1>3, <2>2, <3>2 DEF InTurn
  <2>9. Passed(p, w, k, In, n, S)
    BY <1>3, <2>2, <2>3, <2>4, <2>5, <2>6, <2>7, <2>8 DEF Passed
  <2> QED BY <2>1, <2>9 DEF c
<1> QED BY <1>7, <1>8

\* A line whose counters and callers are In and W.
Ready(l, In, W, n) ==
    /\ l \in Line /\ n \in Nat /\ Counts(l, In, n)
    /\ Queues(l.waiting, W) /\ Apart(W) /\ Len(l.waiting) <= WaitingAtMost
    /\ In \cap W = {} /\ W \subseteq Callers

\* The line the first k callers of l have been passed over on.
PassedBy(l, k) == After([l EXCEPT !.waiting = <<>>], l.waiting, 1..k)

(* Along the whole line, by the least place where it would go wrong.       *)
LEMMA PassGoesOn ==
    ASSUME NEW l, NEW In, NEW W, NEW n, Ready(l, In, W, n)
    PROVE  \E S : Passed(PassedBy(l, Len(l.waiting)), l.waiting, Len(l.waiting), In, n, S)
<1>1. /\ l \in Line /\ n \in Nat /\ Counts(l, In, n) /\ In \cap W = {} /\ Queues(l.waiting, W)
  BY DEF Ready
<1>2. PICK w : w = l.waiting
  OBVIOUS
<1>3. w \in Seq(Callers) /\ Len(w) \in Nat
  BY <1>1, <1>2 DEF Line
<1>4. /\ \A i, j \in 1..Len(w) : w[i] = w[j] => i = j
      /\ \A i \in 1..Len(w) : w[i] \notin In
  <2>1. Queues(w, W)
    BY <1>1, <1>2
  <2> QED BY <1>1, <2>1 DEF Queues
<1>5. PICK e : e = [l EXCEPT !.waiting = <<>>]
  OBVIOUS
<1>6. /\ e \in Line /\ e.waiting = <<>> /\ e.active = l.active
      /\ e.recent = l.recent /\ e.holding = l.holding
  <2>1. <<>> \in Seq(Callers)
    OBVIOUS
  <2> QED BY <1>1, <1>5, <2>1 DEF Line
<1>7. /\ After(e, w, 1..0) = e
      /\ \A k \in 1..Len(w) : After(e, w, 1..k) = LetIn(After(e, w, 1..(k - 1)), w[k])
  <2>1. PICK q \in Nat : q = Len(w)
    BY <1>3
  <2>2. /\ After(e, w, 1..0) = e
        /\ \A k \in 1..q : After(e, w, 1..k) = LetIn(After(e, w, 1..(k - 1)), w[k])
    BY PassSteps
  <2> QED BY <2>1, <2>2
<1>8. Passed(e, w, 0, In, n, {})
  <2>1. Counts(e, In \cup {}, n + Gain(Cardinality({})))
    <3>1. In \cup {} = In /\ n + Gain(Cardinality({})) = n
      BY <1>1, FS_EmptySet DEF Gain
    <3>2. Counts(e, In, n)
      BY <1>1, <1>6, SameCounters
    <3> QED BY <3>1, <3>2
  <2>2. {w[i] : i \in 1..0} = {} /\ Len(e.waiting) = 0
    BY <1>6
  <2>3. Queues(e.waiting, {}) /\ Fair(e, {}) /\ InTurn(e, w, 0, {})
    BY <1>6 DEF Queues, Fair, InTurn
  <2>4. Queues(e.waiting, {w[i] : i \in 1..0} \ {}) /\ Fair(e, {w[i] : i \in 1..0} \ {})
    BY <2>2, <2>3
  <2> QED BY <1>6, <2>1, <2>2, <2>3, <2>4 DEF Passed
<1> DEFINE B == {k \in 0..Len(w) : ~\E S : Passed(After(e, w, 1..k), w, k, In, n, S)}
<1>9. B = {}
  <2> SUFFICES ASSUME B # {} PROVE FALSE
    OBVIOUS
  <2>1. PICK k \in B : \A j \in B : k <= j
    <3>1. B \subseteq Nat
      BY <1>3
    <3> HIDE DEF B
    <3> QED BY <3>1, LeastNatural
  <2>2. k # 0
    BY <1>7, <1>8
  <2>3. k \in 1..Len(w) /\ k - 1 \in 0..Len(w) /\ ~(k <= k - 1)
    BY <1>3, <2>2
  <2>4. PICK S : Passed(After(e, w, 1..(k - 1)), w, k - 1, In, n, S)
    BY <2>1, <2>3
  <2>5. \E T : Passed(LetIn(After(e, w, 1..(k - 1)), w[k]), w, k, In, n, T)
    <3> HIDE DEF B
    <3>1. PICK m : m = After(e, w, 1..(k - 1))
      OBVIOUS
    <3>2. Passed(m, w, k - 1, In, n, S)
      BY <2>4, <3>1
    <3>3. \E T : Passed(LetIn(m, w[k]), w, k, In, n, T)
      BY <1>1, <1>3, <1>4, <2>3, <3>2, PassedOn
    <3> QED BY <3>1, <3>3
  <2> QED BY <1>7, <2>3, <2>5
<1>10. \E S : Passed(After(e, w, 1..Len(w)), w, Len(w), In, n, S)
  BY <1>3, <1>9
<1> HIDE DEF B
<1> QED BY <1>2, <1>5, <1>10 DEF PassedBy

(* A line that is forgotten held nothing and nobody, so the one that comes *)
(* back in its place is the same (#forgetIfIdle, #lineOf).                 *)
LEMMA NothingIsForgotten ==
    ASSUME NEW l, NEW In, NEW n, l \in Line, Counts(l, In, n)
    PROVE  ForgetIfIdle(l) = l
<1> SUFFICES ASSUME Idle(l) PROVE l = EmptyLine
  BY DEF ForgetIfIdle
<1>1. IsFiniteSet(In) /\ Cardinality(In) = 0
  BY GateAssumption, FS_Subset DEF Counts, Idle
<1>2. In = {}
  BY <1>1, FS_EmptySet
<1>3. l.holding = {}
  BY <1>2 DEF Counts
<1>4. l.active = 0 /\ l.recent = 0 /\ l.waiting = <<>>
  BY DEF Idle
<1> QED BY <1>3, <1>4 DEF EmptyLine, Line

(* #next lets in some of those waiting: what it counts is what is held,    *)
(* nobody is left that could be let in, and nobody is passed over whose    *)
(* payer holds no place.                                                   *)
LEMMA NextInIs ==
    ASSUME NEW l, NEW In, NEW W, NEW n, Ready(l, In, W, n)
    PROVE  \E S \in SUBSET W :
             /\ Ready(NextIn(l), In \cup S, W \ S, n + Gain(Cardinality(S)))
             /\ Fair(NextIn(l), W \ S)
             /\ InTurn(NextIn(l), l.waiting, Len(l.waiting), S)
<1>1. /\ l \in Line /\ n \in Nat /\ In \cap W = {} /\ Queues(l.waiting, W) /\ W \subseteq Callers
      /\ Apart(W) /\ Len(l.waiting) <= WaitingAtMost
  BY DEF Ready
<1>2. PICK S, m : /\ m = PassedBy(l, Len(l.waiting))
                  /\ Passed(m, l.waiting, Len(l.waiting), In, n, S)
  BY PassGoesOn
<1>3. l.waiting \in Seq(Callers) /\ Len(l.waiting) \in Nat
  BY <1>1 DEF Line
<1>4. FoldLeft(LetIn, [l EXCEPT !.waiting = <<>>], l.waiting) = m
  <2>1. DOMAIN l.waiting = 1..Len(l.waiting)
    BY <1>3
  <2>2. \A e, w : FoldLeft(LetIn, e, w) = After(e, w, DOMAIN w)
    BY PassIs
  <2> QED BY <1>2, <2>1, <2>2 DEF PassedBy
<1>5. {l.waiting[i] : i \in 1..Len(l.waiting)} = W
  BY <1>1 DEF Queues
<1>6. /\ m \in Line /\ S \subseteq W /\ Counts(m, In \cup S, n + Gain(Cardinality(S)))
      /\ Queues(m.waiting, W \ S) /\ Len(m.waiting) <= Len(l.waiting)
      /\ Fair(m, W \ S) /\ InTurn(m, l.waiting, Len(l.waiting), S)
  BY <1>2, <1>5 DEF Passed
<1>7. NextIn(l) = m
  <2>1. ForgetIfIdle(m) = m
    BY <1>6, NothingIsForgotten
  <2> QED BY <1>4, <2>1 DEF NextIn
<1>8. Len(m.waiting) <= WaitingAtMost
  <2>1. m.waiting \in Seq(Callers)
    BY <1>6 DEF Line
  <2>2. Len(m.waiting) \in Nat /\ WaitingAtMost \in Nat
    BY <2>1, GateAssumption
  <2> QED BY <1>1, <1>3, <1>6, <2>2
<1>9. n + Gain(Cardinality(S)) \in Nat
  <2>1. IsFiniteSet(S)
    BY <1>1, <1>6, GateAssumption, FS_Subset
  <2> QED BY <1>1, <2>1, FS_CardinalityType DEF Gain
<1>10. Apart(W \ S) /\ (In \cup S) \cap (W \ S) = {} /\ W \ S \subseteq Callers
  BY <1>1 DEF Apart
<1>11. Ready(m, In \cup S, W \ S, n + Gain(Cardinality(S)))
  BY <1>6, <1>8, <1>9, <1>10 DEF Ready
<1> QED BY <1>6, <1>7, <1>11

-----------------------------------------------------------------------------
(* The invariant: the line's counters are the places held, the line is the *)
(* callers that wait, and none of them could be let in.                    *)
Taken(p) == {c \in Callers : p[c] = "inside"}
Queued(p) == {c \in Callers : p[c] = "waiting"}

GateIInv ==
    /\ GateTypeOK
    /\ Ready(line, Taken(place), Queued(place), seconds)
    /\ Fair(line, Queued(place))

\* What PlacesGoInTurn says of one step.
TurnStep ==
    \A v, w \in Callers :
       /\ place[w] # "inside" /\ place'[w] = "inside"
       /\ place[v] = "waiting" /\ place'[v] = "waiting"
       /\ place[w] = "outside" \/ \E i, j \in DOMAIN line.waiting :
             i < j /\ line.waiting[i] = v /\ line.waiting[j] = w
       => Payers(v) \cap line'.holding # {}

\* Those a step hands a place to at once.
Handed(moved) == {c \in Callers : place[c] = "outside" /\ moved[c] = "inside"}

(* The step that leaves l lets in the callers S that l no longer queues.   *)
LEMMA BecomesIs ==
    ASSUME GateTypeOK, NEW moved \in [Callers -> Place], NEW l, NEW over, NEW S,
           S \subseteq Queued(place) \cap Queued(moved),
           l \in Line, Queues(l.waiting, Queued(moved) \ S), Becomes(l, moved, over)
    PROVE  /\ line' = l
           /\ place' = [c \in Callers |-> IF c \in S THEN "inside" ELSE moved[c]]
           /\ seconds' = (seconds - over) + Gain(Cardinality(S \cup Handed(moved)))
<1>1. Range(l.waiting) = Queued(moved) \ S
  <2>1. l.waiting \in Seq(Callers)
    BY DEF Line
  <2>2. DOMAIN l.waiting = 1..Len(l.waiting)
    BY <2>1
  <2> QED BY <2>2 DEF Range, Queues
<1>2. {c \in Callers : place[c] = "waiting" /\ moved[c] = "waiting"} \ Range(l.waiting) = S
  BY <1>1 DEF Queued
<1> QED BY <1>2 DEF Becomes, Gain, Handed

\* A step that leaves such a line keeps the invariant.
LEMMA Arrives ==
    ASSUME GateTypeOK, NEW moved \in [Callers -> Place], NEW l, NEW over, NEW S,
           S \subseteq Queued(place) \cap Queued(moved), Becomes(l, moved, over),
           Ready(l, Taken(moved) \cup S, Queued(moved) \ S,
                 (seconds - over) + Gain(Cardinality(S \cup Handed(moved)))),
           Fair(l, Queued(moved) \ S), told' \in {"none", "payer", "full"}
    PROVE  /\ GateIInv' /\ line' = l
           /\ place' = [c \in Callers |-> IF c \in S THEN "inside" ELSE moved[c]]
<1>1. l \in Line /\ Queues(l.waiting, Queued(moved) \ S)
  BY DEF Ready
<1>2. /\ line' = l
      /\ place' = [c \in Callers |-> IF c \in S THEN "inside" ELSE moved[c]]
      /\ seconds' = (seconds - over) + Gain(Cardinality(S \cup Handed(moved)))
  BY <1>1, BecomesIs
<1>3. \A c \in S : c \in Callers /\ moved[c] = "waiting"
  BY DEF Queued
<1>4. Taken(place') = Taken(moved) \cup S /\ Queued(place') = Queued(moved) \ S
  BY <1>2, <1>3 DEF Taken, Queued
<1>5. place' \in [Callers -> Place]
  BY <1>2 DEF Place
<1>6. Ready(line', Taken(place'), Queued(place'), seconds') /\ Fair(line', Queued(place'))
  BY <1>2, <1>4
<1>7. GateTypeOK'
  BY <1>2, <1>5, <1>6 DEF GateTypeOK, Ready
<1> QED BY <1>2, <1>6, <1>7 DEF GateIInv

(* Nobody is handed a place past a waiter.                                 *)
LEMMA NobodyEnters ==
    ASSUME \A c \in Callers : place'[c] = "inside" => place[c] = "inside"
    PROVE  TurnStep
  BY DEF TurnStep

\* After a pass, those it let in came in turn.
LEMMA PassTakesTurns ==
    ASSUME GateIInv, NEW moved \in [Callers -> Place], NEW S,
           Queued(moved) = Queued(place), Taken(moved) \subseteq Taken(place),
           S \subseteq Queued(place), InTurn(line', line.waiting, Len(line.waiting), S),
           place' = [c \in Callers |-> IF c \in S THEN "inside" ELSE moved[c]]
    PROVE  TurnStep
<1> SUFFICES ASSUME NEW v \in Callers, NEW w \in Callers,
                    place[w] # "inside", place'[w] = "inside",
                    place[v] = "waiting", place'[v] = "waiting",
                    place[w] = "outside" \/ \E i, j \in DOMAIN line.waiting :
                       i < j /\ line.waiting[i] = v /\ line.waiting[j] = w
             PROVE  Payers(v) \cap line'.holding # {}
  BY DEF TurnStep
<1>1. line.waiting \in Seq(Callers)
  BY DEF GateIInv, GateTypeOK, Line
<1>2. DOMAIN line.waiting = 1..Len(line.waiting)
  BY <1>1
<1>3. v \notin S
  BY DEF Queued
<1>4. w \in S
  BY DEF Taken
<1>5. place[w] = "waiting"
  BY <1>4 DEF Queued
<1>6. PICK i, j \in 1..Len(line.waiting) :
             i < j /\ line.waiting[i] = v /\ line.waiting[j] = w
  BY <1>2, <1>5
<1> QED BY <1>3, <1>4, <1>6 DEF InTurn

\* A pass over a line that was put right.
LEMMA PassKeeps ==
    ASSUME GateIInv, NEW l, NEW moved \in [Callers -> Place], NEW over,
           Queued(moved) = Queued(place), Taken(moved) \subseteq Taken(place),
           l.waiting = line.waiting,
           Ready(l, Taken(moved), Queued(moved), seconds - over),
           Becomes(NextIn(l), moved, over), told' = "none"
    PROVE  GateIInv' /\ TurnStep
<1>1. PICK S \in SUBSET Queued(moved) :
          /\ Ready(NextIn(l), Taken(moved) \cup S, Queued(moved) \ S,
                   (seconds - over) + Gain(Cardinality(S)))
          /\ Fair(NextIn(l), Queued(moved) \ S)
          /\ InTurn(NextIn(l), l.waiting, Len(l.waiting), S)
  BY NextInIs
<1>2. Handed(moved) = {}
  BY DEF Handed, Taken
<1>3. S \cup Handed(moved) = S
  BY <1>2
<1>4. GateTypeOK
  BY DEF GateIInv
<1>5. PICK m : m = NextIn(l)
  OBVIOUS
<1>6. /\ GateIInv' /\ line' = m
      /\ place' = [c \in Callers |-> IF c \in S THEN "inside" ELSE moved[c]]
  <2>1. Becomes(m, moved, over) /\ Fair(m, Queued(moved) \ S)
    BY <1>1, <1>5
  <2>2. S \subseteq Queued(place) \cap Queued(moved)
    OBVIOUS
  <2>3. Ready(m, Taken(moved) \cup S, Queued(moved) \ S,
              (seconds - over) + Gain(Cardinality(S \cup Handed(moved))))
    BY <1>1, <1>3, <1>5
  <2>4. told' \in {"none", "payer", "full"}
    OBVIOUS
  <2> QED BY <1>4, <2>1, <2>2, <2>3, <2>4, Arrives
<1>7. InTurn(line', line.waiting, Len(line.waiting), S)
  BY <1>1, <1>5, <1>6
<1>8. TurnStep
  BY <1>6, <1>7, PassTakesTurns
<1> QED BY <1>6, <1>8

-----------------------------------------------------------------------------
(* A step for each action.                                                 *)
\* The facts of a state the actions start from.
LEMMA GateFacts ==
    ASSUME GateIInv
    PROVE  /\ GateTypeOK /\ line \in Line /\ seconds \in Nat /\ place \in [Callers -> Place]
           /\ line.waiting \in Seq(Callers) /\ Len(line.waiting) \in Nat
           /\ DOMAIN line.waiting = 1..Len(line.waiting)
           /\ Len(line.waiting) <= WaitingAtMost
           /\ Range(line.waiting) = Queued(place)
           /\ Counts(line, Taken(place), seconds) /\ Queues(line.waiting, Queued(place))
           /\ Apart(Queued(place)) /\ Fair(line, Queued(place))
           /\ ForgetIfIdle(line) = line
<1>1. /\ GateTypeOK /\ line \in Line /\ seconds \in Nat /\ place \in [Callers -> Place]
      /\ Len(line.waiting) <= WaitingAtMost
      /\ Counts(line, Taken(place), seconds) /\ Queues(line.waiting, Queued(place))
      /\ Apart(Queued(place)) /\ Fair(line, Queued(place))
  BY DEF GateIInv, GateTypeOK, Ready
<1>2. line.waiting \in Seq(Callers)
  BY <1>1 DEF Line
<1>3. DOMAIN line.waiting = 1..Len(line.waiting) /\ Len(line.waiting) \in Nat
  BY <1>2
<1>4. Range(line.waiting) = Queued(place)
  BY <1>1, <1>3 DEF Range, Queues
<1>5. ForgetIfIdle(line) = line
  BY <1>1, NothingIsForgotten
<1> QED BY <1>1, <1>2, <1>3, <1>4, <1>5

\* A caller takes a place without waiting.
LEMMA EnterAtOnce ==
    ASSUME GateIInv, NEW c \in Callers, place[c] = "outside", Admissible(line, c),
           Becomes(Admit(line, c), [place EXCEPT ![c] = "inside"], 0), told' = "none"
    PROVE  GateIInv' /\ TurnStep
<1>1. /\ GateTypeOK /\ line \in Line /\ seconds \in Nat /\ place \in [Callers -> Place]
      /\ Len(line.waiting) <= WaitingAtMost
      /\ Counts(line, Taken(place), seconds) /\ Queues(line.waiting, Queued(place))
      /\ Apart(Queued(place)) /\ Fair(line, Queued(place))
  BY GateFacts
<1>2. PICK moved : moved = [place EXCEPT ![c] = "inside"]
  OBVIOUS
<1>3. /\ moved \in [Callers -> Place] /\ Taken(moved) = Taken(place) \cup {c}
      /\ Queued(moved) = Queued(place) /\ Handed(moved) = {c} /\ c \notin Taken(place)
  BY <1>1, <1>2 DEF Place, Taken, Queued, Handed
<1>4. PICK l : l = Admit(line, c)
  OBVIOUS
<1>5. /\ l \in Line /\ l.waiting = line.waiting /\ l.holding = line.holding \cup Payers(c)
  BY <1>1, <1>4, AdmitIs
<1>6. Cardinality({} \cup Handed(moved)) = 1
  <2>1. {} \cup Handed(moved) = {c}
    BY <1>3
  <2> QED BY <2>1, FS_Singleton
<1>7. Counts(l, Taken(moved), seconds + Gain(1))
  BY <1>1, <1>3, <1>4, AdmitCounts
<1>8. Fair(l, Queued(moved))
  BY <1>1, <1>3, <1>4, StillFair
<1>9. (seconds - 0) + Gain(Cardinality({} \cup Handed(moved))) = seconds + Gain(1)
  BY <1>1, <1>6
<1>10. seconds + Gain(1) \in Nat
  BY <1>1 DEF Gain
<1>11. Taken(moved) \cap Queued(moved) = {} /\ Queued(moved) \subseteq Callers
  BY DEF Taken, Queued
<1>12. Ready(l, Taken(moved), Queued(moved), seconds + Gain(1))
  BY <1>1, <1>3, <1>5, <1>7, <1>10, <1>11 DEF Ready
<1>13. Taken(moved) \cup {} = Taken(moved) /\ Queued(moved) \ {} = Queued(moved)
  OBVIOUS
<1>14. GateIInv' /\ line' = l
  <2>1. Becomes(l, moved, 0) /\ told' \in {"none", "payer", "full"}
    BY <1>2, <1>4
  <2>2. Ready(l, Taken(moved) \cup {}, Queued(moved) \ {},
              (seconds - 0) + Gain(Cardinality({} \cup Handed(moved))))
    BY <1>9, <1>12, <1>13
  <2>3. Fair(l, Queued(moved) \ {})
    BY <1>8, <1>13
  <2>4. {} \subseteq Queued(place) \cap Queued(moved)
    OBVIOUS
  <2> QED BY <1>1, <1>3, <2>1, <2>2, <2>3, <2>4, Arrives
<1>15. TurnStep
  <2> SUFFICES ASSUME NEW v \in Callers, place[v] = "waiting"
               PROVE  Payers(v) \cap line'.holding # {}
    BY DEF TurnStep
  <2>1. ~Admissible(line, v)
    BY <1>1 DEF Fair, Queued
  <2>2. Payers(v) \cap line.holding # {}
    BY <2>1 DEF Admissible
  <2> QED BY <1>5, <1>14, <2>2
<1> QED BY <1>14, <1>15

\* A step that hands out nothing and lets nobody in.
LEMMA NothingHandedOut ==
    ASSUME GateIInv, NEW moved \in [Callers -> Place], NEW l,
           Taken(moved) = Taken(place), Becomes(l, moved, 0),
           Ready(l, Taken(place), Queued(moved), seconds), Fair(l, Queued(moved)),
           told' \in {"none", "payer", "full"}
    PROVE  GateIInv' /\ TurnStep
<1>1. GateTypeOK /\ seconds \in Nat
  BY GateFacts
<1>2. Handed(moved) = {}
  BY DEF Handed, Taken
<1>0. PICK S : S = {}
  OBVIOUS
<1>3. (seconds - 0) + Gain(Cardinality(S \cup Handed(moved))) = seconds
  <2>1. Cardinality(S \cup Handed(moved)) = 0
    BY <1>2, <1>0, FS_EmptySet
  <2> QED BY <1>1, <2>1 DEF Gain
<1>4. Taken(moved) \cup S = Taken(place) /\ Queued(moved) \ S = Queued(moved)
  BY <1>0
<1>5. /\ GateIInv'
      /\ place' = [c \in Callers |-> IF c \in S THEN "inside" ELSE moved[c]]
  <2>1. Ready(l, Taken(moved) \cup S, Queued(moved) \ S,
              (seconds - 0) + Gain(Cardinality(S \cup Handed(moved))))
    BY <1>3, <1>4
  <2>2. Fair(l, Queued(moved) \ S)
    BY <1>4
  <2>3. S \subseteq Queued(place) \cap Queued(moved)
    BY <1>0
  <2> QED BY <1>1, <2>1, <2>2, <2>3, Arrives
<1>6. \A c \in Callers : place'[c] = "inside" => place[c] = "inside"
  BY <1>5, <1>0 DEF Taken
<1> QED BY <1>5, <1>6, NobodyEnters

\* One more caller in line.
LEMMA EnterLater ==
    ASSUME GateIInv, NEW c \in Callers, place[c] = "outside", ~AlreadyWaiting(c),
           ~Admissible(line, c), Len(line.waiting) < WaitingAtMost,
           Becomes([line EXCEPT !.waiting = Append(@, c)], [place EXCEPT ![c] = "waiting"], 0),
           told' = "none"
    PROVE  GateIInv' /\ TurnStep
<1>1. /\ line \in Line /\ seconds \in Nat /\ place \in [Callers -> Place]
      /\ line.waiting \in Seq(Callers) /\ Len(line.waiting) \in Nat
      /\ Range(line.waiting) = Queued(place)
      /\ Counts(line, Taken(place), seconds) /\ Queues(line.waiting, Queued(place))
      /\ Apart(Queued(place)) /\ Fair(line, Queued(place))
  BY GateFacts
<1>2. PICK moved : moved = [place EXCEPT ![c] = "waiting"]
  OBVIOUS
<1>3. /\ moved \in [Callers -> Place] /\ Taken(moved) = Taken(place)
      /\ Queued(moved) = Queued(place) \cup {c} /\ c \notin Queued(place)
  BY <1>1, <1>2 DEF Place, Taken, Queued
<1>4. PICK l : l = [line EXCEPT !.waiting = Append(@, c)]
  OBVIOUS
<1>5. /\ l \in Line /\ l.active = line.active /\ l.recent = line.recent
      /\ l.holding = line.holding /\ l.waiting = Append(line.waiting, c)
  BY <1>1, <1>4, StaysIs
<1>6. Counts(l, Taken(place), seconds) /\ Fair(l, Queued(place)) /\ ~Admissible(l, c)
  BY <1>1, <1>5, SameCounters
<1>7. Queues(l.waiting, Queued(moved))
  <2>1. PICK q, W : q = line.waiting /\ W = Queued(place)
    OBVIOUS
  <2>2. q \in Seq(Callers) /\ Queues(q, W) /\ c \notin W
    BY <1>1, <1>3, <2>1
  <2>3. Queues(Append(q, c), W \cup {c})
    BY <2>2, QueuesOn
  <2> QED BY <1>3, <1>5, <2>1, <2>3
<1>8. Len(l.waiting) <= WaitingAtMost
  <2>1. Len(l.waiting) = Len(line.waiting) + 1 /\ WaitingAtMost \in Nat
    BY <1>1, <1>5, GateAssumption
  <2> QED BY <1>1, <2>1
<1>9. Apart(Queued(moved))
  <2>1. \A d \in Queued(place) : Payers(c) \cap Payers(d) = {} /\ Payers(d) \cap Payers(c) = {}
    BY <1>1 DEF AlreadyWaiting
  <2> QED BY <1>1, <1>3, <2>1 DEF Apart
<1>10. Fair(l, Queued(moved))
  BY <1>3, <1>6 DEF Fair
<1>11. Taken(place) \cap Queued(moved) = {} /\ Queued(moved) \subseteq Callers
  <2>1. Taken(moved) \cap Queued(moved) = {} /\ Queued(moved) \subseteq Callers
    BY DEF Taken, Queued
  <2> QED BY <1>3, <2>1
<1>12. Ready(l, Taken(place), Queued(moved), seconds)
  BY <1>1, <1>5, <1>6, <1>7, <1>8, <1>9, <1>11 DEF Ready
<1>13. Becomes(l, moved, 0) /\ told' \in {"none", "payer", "full"}
  BY <1>2, <1>4
<1> QED BY <1>3, <1>10, <1>12, <1>13, NothingHandedOut

LEMMA EnterStep ==
    ASSUME GateIInv, NEW c \in Callers, NEW patient \in BOOLEAN, Enter(c, patient)
    PROVE  GateIInv' /\ TurnStep
<1>1. /\ line \in Line /\ place \in [Callers -> Place] /\ ForgetIfIdle(line) = line
      /\ Range(line.waiting) = Queued(place) /\ Fair(line, Queued(place))
      /\ Len(line.waiting) \in Nat
      /\ Ready(line, Taken(place), Queued(place), seconds)
  BY GateFacts DEF GateIInv
<1>2. place[c] = "outside"
  BY DEF Enter
<1>3. CASE /\ Admissible(line, c)
           /\ Becomes(Admit(line, c), [place EXCEPT ![c] = "inside"], 0) /\ told' = "none"
  BY <1>2, <1>3, EnterAtOnce
<1>4. CASE UNCHANGED <<line, place, seconds>> /\ told' = "payer"
  <2>1. GateIInv'
    BY <1>4 DEF GateIInv, GateTypeOK
  <2>2. TurnStep
    BY <1>4, NobodyEnters
  <2> QED BY <2>1, <2>2
<1>5. CASE Becomes(ForgetIfIdle(line), place, 0) /\ told' = "full"
  <2>1. Becomes(line, place, 0) /\ told' \in {"none", "payer", "full"}
    BY <1>1, <1>5
  <2> QED BY <1>1, <2>1, NothingHandedOut
<1>6. CASE /\ ~AlreadyWaiting(c) /\ ~(~patient \/ Len(line.waiting) >= WaitingAtMost)
           /\ ~Admissible(line, c) \/ \E w \in Range(line.waiting) : Admissible(line, w)
           /\ Becomes([line EXCEPT !.waiting = Append(@, c)], [place EXCEPT ![c] = "waiting"], 0)
           /\ told' = "none"
  <2>1. ~Admissible(line, c)
    BY <1>1, <1>6 DEF Fair
  <2>2. Len(line.waiting) < WaitingAtMost
    BY <1>1, <1>6, GateAssumption
  <2> QED BY <1>2, <1>6, <2>1, <2>2, EnterLater
<1> QED BY <1>3, <1>4, <1>5, <1>6 DEF Enter

\* A line with one caller taken out of it.
LEMMA QueuesWithout ==
    ASSUME NEW w \in Seq(Callers), NEW W, Queues(w, W), NEW i \in 1..Len(w)
    PROVE  /\ RemoveAt(w, i) \in Seq(Callers) /\ Len(RemoveAt(w, i)) = Len(w) - 1
           /\ Queues(RemoveAt(w, i), W \ {w[i]})
<1>1. PICK a, b : a = SubSeq(w, 1, i - 1) /\ b = SubSeq(w, i + 1, Len(w))
  OBVIOUS
<1>2. Len(w) \in Nat /\ i \in Nat /\ i >= 1 /\ i <= Len(w)
  OBVIOUS
<1>3. /\ a \in Seq(Callers) /\ Len(a) = i - 1
      /\ \A j \in 1..(i - 1) : a[j] = w[j]
  BY <1>1, <1>2
<1>4. /\ b \in Seq(Callers) /\ Len(b) = Len(w) - i
      /\ \A j \in 1..(Len(w) - i) : b[j] = w[i + j]
  BY <1>1, <1>2
<1>5. PICK r : r = a \o b
  OBVIOUS
<1>6. /\ r \in Seq(Callers) /\ Len(r) = Len(w) - 1
      /\ \A j \in 1..(i - 1) : r[j] = a[j]
      /\ \A j \in 1..(Len(w) - 1) : j > i - 1 => r[j] = b[j - (i - 1)]
  <2>1. Len(a) \in Nat /\ Len(b) \in Nat /\ Len(a) + Len(b) = Len(w) - 1
    BY <1>2, <1>3, <1>4
  <2>2. /\ r \in Seq(Callers) /\ Len(r) = Len(a) + Len(b)
        /\ \A j \in 1..(Len(a) + Len(b)) :
             r[j] = IF j <= Len(a) THEN a[j] ELSE b[j - Len(a)]
    BY <1>3, <1>4, <1>5, ConcatProperties
  <2>3. ASSUME NEW j \in 1..(i - 1) PROVE r[j] = a[j]
    <3>1. j \in 1..(Len(a) + Len(b)) /\ j <= Len(a)
      BY <1>2, <1>3, <2>1
    <3> QED BY <2>2, <3>1
  <2>4. ASSUME NEW j \in 1..(Len(w) - 1), j > i - 1 PROVE r[j] = b[j - (i - 1)]
    <3>1. j \in 1..(Len(a) + Len(b)) /\ ~(j <= Len(a)) /\ Len(a) = i - 1
      BY <1>2, <1>3, <2>1, <2>4
    <3> QED BY <2>2, <3>1
  <2> QED BY <2>1, <2>2, <2>3, <2>4
<1>7. \A j \in 1..(Len(w) - 1) : r[j] = IF j < i THEN w[j] ELSE w[j + 1]
  <2> SUFFICES ASSUME NEW j \in 1..(Len(w) - 1)
               PROVE  r[j] = IF j < i THEN w[j] ELSE w[j + 1]
    OBVIOUS
  <2>1. CASE j < i
    BY <1>2, <1>3, <1>6, <2>1
  <2>2. CASE j >= i
    <3>1. j - (i - 1) \in 1..(Len(w) - i) /\ i + (j - (i - 1)) = j + 1
      BY <1>2, <2>2
    <3>2. b[j - (i - 1)] = w[i + (j - (i - 1))]
      BY <1>4, <3>1
    <3> QED BY <1>2, <1>6, <2>2, <3>1, <3>2
  <2> QED BY <1>2, <2>1, <2>2
<1>8. \A j \in 1..(Len(w) - 1) : j \in 1..Len(w) /\ j + 1 \in 1..Len(w)
  BY <1>2
<1>9. \A j, k \in 1..(Len(w) - 1) : r[j] = r[k] => j = k
  <2> SUFFICES ASSUME NEW j \in 1..(Len(w) - 1), NEW k \in 1..(Len(w) - 1), r[j] = r[k]
               PROVE  j = k
    OBVIOUS
  <2>1. PICK x \in 1..Len(w) : r[j] = w[x] /\ x = IF j < i THEN j ELSE j + 1
    BY <1>7, <1>8
  <2>2. PICK y \in 1..Len(w) : r[k] = w[y] /\ y = IF k < i THEN k ELSE k + 1
    BY <1>7, <1>8
  <2>3. x = y
    BY <2>1, <2>2 DEF Queues
  <2> QED BY <1>2, <2>1, <2>2, <2>3
<1>10. W \ {w[i]} = {r[j] : j \in 1..(Len(w) - 1)}
  <2>1. ASSUME NEW j \in 1..(Len(w) - 1) PROVE r[j] \in W \ {w[i]}
    <3>1. PICK x \in 1..Len(w) : r[j] = w[x] /\ x = IF j < i THEN j ELSE j + 1
      BY <1>7, <1>8
    <3>2. x # i
      BY <1>2, <3>1
    <3> QED BY <3>1, <3>2 DEF Queues
  <2>2. ASSUME NEW c \in W \ {w[i]} PROVE \E j \in 1..(Len(w) - 1) : r[j] = c
    <3>1. PICK x \in 1..Len(w) : w[x] = c /\ x # i
      BY DEF Queues
    <3>2. PICK j : j = IF x < i THEN x ELSE x - 1
      OBVIOUS
    <3>3. j \in 1..(Len(w) - 1) /\ x = IF j < i THEN j ELSE j + 1
      BY <1>2, <3>1, <3>2
    <3> QED BY <1>7, <3>1, <3>3
  <2> QED BY <2>1, <2>2
<1>11. Queues(r, W \ {w[i]})
  BY <1>6, <1>9, <1>10 DEF Queues
<1> QED BY <1>1, <1>5, <1>6, <1>11 DEF RemoveAt

LEMMA TimeOutStep ==
    ASSUME GateIInv, NEW c \in Callers, TimeOut(c)
    PROVE  GateIInv' /\ TurnStep
<1>1. /\ line \in Line /\ seconds \in Nat /\ place \in [Callers -> Place]
      /\ line.waiting \in Seq(Callers) /\ Len(line.waiting) \in Nat
      /\ DOMAIN line.waiting = 1..Len(line.waiting)
      /\ Len(line.waiting) <= WaitingAtMost
      /\ Counts(line, Taken(place), seconds) /\ Queues(line.waiting, Queued(place))
      /\ Apart(Queued(place)) /\ Fair(line, Queued(place))
  BY GateFacts
<1>2. PICK i \in 1..Len(line.waiting) :
          /\ line.waiting[i] = c
          /\ Becomes(ForgetIfIdle([line EXCEPT !.waiting = RemoveAt(@, i)]),
                     [place EXCEPT ![c] = "outside"], 0)
  BY <1>1 DEF TimeOut
<1>3. place[c] = "waiting" /\ told' \in {"none", "payer", "full"}
  BY DEF TimeOut
<1>4. PICK moved : moved = [place EXCEPT ![c] = "outside"]
  OBVIOUS
<1>5. /\ moved \in [Callers -> Place] /\ Taken(moved) = Taken(place)
      /\ Queued(moved) = Queued(place) \ {c}
  BY <1>1, <1>3, <1>4 DEF Place, Taken, Queued
<1>6. PICK q, W : q = line.waiting /\ W = Queued(place)
  OBVIOUS
<1>7. PICK r : r = RemoveAt(q, i)
  OBVIOUS
<1>8. r \in Seq(Callers) /\ Len(r) = Len(q) - 1 /\ Queues(r, W \ {c})
  <2>1. q \in Seq(Callers) /\ Queues(q, W) /\ i \in 1..Len(q) /\ q[i] = c
    BY <1>1, <1>2, <1>6
  <2> QED BY <1>7, <2>1, QueuesWithout
<1>9. PICK l : l = [line EXCEPT !.waiting = r]
  OBVIOUS
<1>10. /\ l \in Line /\ l.active = line.active /\ l.recent = line.recent
       /\ l.holding = line.holding /\ l.waiting = r
  BY <1>1, <1>8, <1>9 DEF Line
<1>11. Counts(l, Taken(place), seconds) /\ Fair(l, Queued(place))
  BY <1>1, <1>10, SameCounters
<1>12. ForgetIfIdle(l) = l
  BY <1>10, <1>11, NothingIsForgotten
<1>13. Becomes(l, moved, 0)
  BY <1>2, <1>4, <1>6, <1>7, <1>9, <1>12
<1>14. Fair(l, Queued(moved)) /\ Apart(Queued(moved))
  BY <1>1, <1>5, <1>11 DEF Fair, Apart
<1>15. Len(l.waiting) <= WaitingAtMost
  BY <1>1, <1>6, <1>8, <1>10, GateAssumption
<1>16. Taken(place) \cap Queued(moved) = {} /\ Queued(moved) \subseteq Callers
  BY <1>5 DEF Taken, Queued
<1>17. Ready(l, Taken(place), Queued(moved), seconds)
  BY <1>1, <1>5, <1>6, <1>8, <1>10, <1>11, <1>14, <1>15, <1>16 DEF Ready
<1> QED BY <1>3, <1>5, <1>13, <1>14, <1>17, NothingHandedOut

LEMMA LeaveStep ==
    ASSUME GateIInv, NEW c \in Callers, Leave(c)
    PROVE  GateIInv' /\ TurnStep
<1>1. /\ line \in Line /\ seconds \in Nat /\ place \in [Callers -> Place]
      /\ line.waiting \in Seq(Callers)
      /\ Len(line.waiting) <= WaitingAtMost
      /\ Counts(line, Taken(place), seconds) /\ Queues(line.waiting, Queued(place))
      /\ Apart(Queued(place))
  BY GateFacts
<1>2. CASE place[c] # "inside"
  <2>1. UNCHANGED <<line, place, seconds>> /\ told' = "none"
    BY <1>2 DEF Leave, HasAPlace
  <2>2. GateIInv'
    BY <2>1 DEF GateIInv, GateTypeOK
  <2>3. TurnStep
    BY <2>1, NobodyEnters
  <2> QED BY <2>2, <2>3
<1>3. CASE place[c] = "inside"
  <2>1. PICK moved : moved = [place EXCEPT ![c] = "left"]
    OBVIOUS
  <2>2. /\ moved \in [Callers -> Place] /\ Taken(moved) = Taken(place) \ {c}
        /\ Queued(moved) = Queued(place) /\ c \in Taken(place)
    BY <1>1, <1>3, <2>1 DEF Place, Taken, Queued
  <2>3. PICK P : P = Payers(c)
    OBVIOUS
  <2>4. PICK l : l = [line EXCEPT !.active = @ - 1, !.holding = @ \ P]
    OBVIOUS
  <2>5. Becomes(NextIn(l), moved, 0) /\ told' = "none"
    BY <1>3, <2>1, <2>3, <2>4 DEF Leave, HasAPlace
  <2>6. /\ IsFiniteSet(Taken(place)) /\ Cardinality(Taken(place)) \in Nat
        /\ Cardinality(Taken(place) \ {c}) = Cardinality(Taken(place)) - 1
        /\ Cardinality(Taken(place) \ {c}) \in Nat
    <3>1. IsFiniteSet(Taken(place)) /\ IsFiniteSet(Taken(place) \ {c})
      BY <1>1, GateAssumption, FS_Subset DEF Counts
    <3> QED BY <2>2, <3>1, FS_RemoveElement, FS_CardinalityType
  <2>7. line.active = Cardinality(Taken(place))
    BY <1>1 DEF Counts
  <2>8. /\ l \in Line /\ l.active = line.active - 1 /\ l.recent = line.recent
        /\ l.holding = line.holding \ P /\ l.waiting = line.waiting
    <3>1. line.active - 1 \in Nat
      BY <2>6, <2>7
    <3> QED BY <1>1, <2>4, <3>1 DEF Line
  <2>9. l.holding = UNION {Payers(d) : d \in Taken(place) \ {c}}
    <3>1. line.holding = UNION {Payers(d) : d \in Taken(place)} /\ Apart(Taken(place))
      BY <1>1 DEF Counts
    <3>2. \A d \in Taken(place) \ {c} : Payers(d) \cap P = {}
      BY <2>2, <2>3, <3>1 DEF Apart
    <3> QED BY <2>2, <2>3, <2>8, <3>1, <3>2
  <2>10. Counts(l, Taken(moved), seconds)
    <3>1. Taken(moved) \subseteq Callers /\ Apart(Taken(moved))
      BY <1>1, <2>2 DEF Counts, Apart
    <3>2. l.active = Cardinality(Taken(moved)) /\ l.active <= AtOnce
      BY <1>1, <2>2, <2>6, <2>7, <2>8, GateAssumption DEF Counts
    <3>3. l.recent = seconds /\ (PerSecond # Unbounded => seconds <= PerSecond)
      BY <1>1, <2>8 DEF Counts
    <3> QED BY <2>2, <2>9, <3>1, <3>2, <3>3 DEF Counts
  <2>11. Taken(moved) \cap Queued(moved) = {} /\ Queued(moved) \subseteq Callers
    BY DEF Taken, Queued
  <2>12. seconds - 0 = seconds
    BY <1>1
  <2>13. Ready(l, Taken(moved), Queued(moved), seconds - 0)
    BY <1>1, <2>2, <2>8, <2>10, <2>11, <2>12 DEF Ready
  <2>14. Taken(moved) \subseteq Taken(place)
    BY <2>2
  <2> QED BY <2>2, <2>5, <2>8, <2>13, <2>14, PassKeeps
<1> QED BY <1>2, <1>3

LEMMA SecondEndsStep ==
    ASSUME GateIInv, SecondEnds
    PROVE  GateIInv' /\ TurnStep
<1>1. /\ line \in Line /\ seconds \in Nat /\ place \in [Callers -> Place]
      /\ Len(line.waiting) <= WaitingAtMost
      /\ Counts(line, Taken(place), seconds) /\ Queues(line.waiting, Queued(place))
      /\ Apart(Queued(place))
  BY GateFacts
<1>2. PICK l : l = [line EXCEPT !.recent = @ - 1]
  OBVIOUS
<1>3. Becomes(NextIn(l), place, 1) /\ told' = "none" /\ seconds - 1 \in Nat
  BY <1>1, <1>2 DEF SecondEnds
<1>4. line.recent = seconds
  BY <1>1 DEF Counts
<1>5. /\ l \in Line /\ l.active = line.active /\ l.recent = seconds - 1
      /\ l.holding = line.holding /\ l.waiting = line.waiting
  BY <1>1, <1>2, <1>3, <1>4 DEF Line
<1>6. PerSecond # Unbounded => seconds - 1 <= PerSecond
  BY <1>1, GateAssumption DEF Counts
<1>7. Counts(l, Taken(place), seconds - 1)
  BY <1>1, <1>5, <1>6 DEF Counts
<1>8. Taken(place) \cap Queued(place) = {} /\ Queued(place) \subseteq Callers
  BY DEF Taken, Queued
<1>9. Ready(l, Taken(place), Queued(place), seconds - 1)
  BY <1>1, <1>3, <1>5, <1>7, <1>8 DEF Ready
<1> QED BY <1>1, <1>3, <1>5, <1>9, PassKeeps

LEMMA DoneStep ==
    ASSUME GateIInv, NEW c \in Callers, Done(c)
    PROVE  GateIInv' /\ TurnStep
<1>1. place[c] = "left" /\ place' = [place EXCEPT ![c] = "outside"] /\ told' = "none"
      /\ line' = line /\ seconds' = seconds
  BY DEF Done
<1>2. place \in [Callers -> Place]
  BY GateFacts
<1>3. Taken(place') = Taken(place) /\ Queued(place') = Queued(place)
  BY <1>1, <1>2 DEF Taken, Queued
<1>4. place' \in [Callers -> Place]
  BY <1>1, <1>2 DEF Place
<1>5. GateTypeOK'
  BY <1>1, <1>4 DEF GateIInv, GateTypeOK
<1>6. Ready(line', Taken(place'), Queued(place'), seconds') /\ Fair(line', Queued(place'))
  BY <1>1, <1>3 DEF GateIInv
<1>7. GateIInv'
  BY <1>5, <1>6 DEF GateIInv
<1>8. TurnStep
  BY <1>1, <1>2, NobodyEnters
<1> QED BY <1>7, <1>8

LEMMA GateStep ==
    ASSUME GateIInv, [GateNext]_gateVars
    PROVE  GateIInv' /\ (gateVars' # gateVars => TurnStep)
<1>1. CASE UNCHANGED gateVars
  BY <1>1 DEF gateVars, GateIInv, GateTypeOK
<1>2. CASE GateNext
  BY <1>2, EnterStep, TimeOutStep, LeaveStep, DoneStep, SecondEndsStep DEF GateNext
<1> QED BY <1>1, <1>2

LEMMA GateStarts ==
    ASSUME GateInit
    PROVE  GateIInv
<1>1. /\ line = EmptyLine /\ place = [c \in Callers |-> "outside"] /\ seconds = 0
      /\ told = "none"
  BY DEF GateInit
<1>2. Taken(place) = {} /\ Queued(place) = {}
  BY <1>1 DEF Taken, Queued
<1>3. /\ line \in Line /\ line.active = 0 /\ line.recent = 0 /\ line.holding = {}
      /\ line.waiting = <<>>
  BY <1>1 DEF EmptyLine, Line
<1>4. Cardinality({}) = 0 /\ AtOnce \in Nat /\ WaitingAtMost \in Nat
      /\ (PerSecond # Unbounded => PerSecond \in Nat)
  BY GateAssumption, FS_EmptySet
<1>5. Counts(line, {}, 0)
  BY <1>3, <1>4 DEF Counts, Apart
<1>6. Queues(line.waiting, {}) /\ Len(line.waiting) <= WaitingAtMost
  BY <1>3, <1>4 DEF Queues
<1>7. Ready(line, {}, {}, 0) /\ Fair(line, {})
  BY <1>3, <1>5, <1>6 DEF Ready, Fair, Apart
<1>8. GateTypeOK
  BY <1>1, <1>3 DEF GateTypeOK, Place
<1> QED BY <1>1, <1>2, <1>7, <1>8 DEF GateIInv

(* A merchant's line is always what its callers say it is.                 *)
THEOREM GateInvariant == GateSpec => []GateIInv
<1>1. GateInit => GateIInv
  BY GateStarts
<1>2. GateIInv /\ [GateNext]_gateVars => GateIInv'
  BY GateStep
<1> QED BY <1>1, <1>2, PTL DEF GateSpec

(* For any callers, payers, places, rate and length of line, a merchant's  *)
(* work stays within its limits and its counters are what is really held,  *)
(* whatever was given back twice, timed out or forgotten in between        *)
(* (enter, #admit, #next, #forgetIfIdle).                                  *)
THEOREM GateKeepsItsLimits == GateSpec => []LimitsHold
<1>1. GateIInv => LimitsHold
  <2> SUFFICES ASSUME GateIInv PROVE LimitsHold
    OBVIOUS
  <2>1. /\ GateTypeOK /\ Counts(line, Taken(place), seconds)
        /\ Apart(Queued(place)) /\ Len(line.waiting) <= WaitingAtMost
    BY GateFacts
  <2>2. Inside = Taken(place)
    BY DEF Inside, Taken
  <2>3. /\ line.active = Cardinality(Inside) /\ line.active <= AtOnce
        /\ line.recent = seconds /\ (PerSecond # Unbounded => seconds <= PerSecond)
        /\ line.holding = UNION {Payers(c) : c \in Inside}
        /\ Apart(Taken(place))
    BY <2>1, <2>2 DEF Counts
  <2>4. ASSUME NEW c \in Callers, NEW d \in Callers, c # d, Payers(c) \cap Payers(d) # {},
               NEW where \in {"inside", "waiting"}
        PROVE  ~(place[c] = where /\ place[d] = where)
    <3>1. CASE where = "inside"
      BY <2>3, <2>4, <3>1 DEF Apart, Taken
    <3>2. CASE where = "waiting"
      BY <2>1, <2>4, <3>2 DEF Apart, Queued
    <3> QED BY <3>1, <3>2
  <2> QED BY <2>1, <2>3, <2>4 DEF LimitsHold
<1> QED BY <1>1, GateInvariant, PTL

(* Every wake-up of #next reaches whoever can be let in: nobody waits for  *)
(* a place that is free.                                                   *)
THEOREM GateLeavesNoPlaceFree == GateSpec => []NobodyWaitsForAFreePlace
<1>1. GateIInv => NobodyWaitsForAFreePlace
  BY DEF GateIInv, Fair, Queued, NobodyWaitsForAFreePlace
<1> QED BY <1>1, GateInvariant, PTL

(* Places go to callers in the order they came, at a wake-up of #next and  *)
(* to a caller that enters: a waiter is passed over only while its payer   *)
(* holds a place.                                                          *)
THEOREM GateServesInTurn == GateSpec => PlacesGoInTurn
<1>1. GateIInv /\ [GateNext]_gateVars => [TurnStep]_gateVars
  BY GateStep
<1> QED BY <1>1, GateInvariant, PTL DEF GateSpec, PlacesGoInTurn, TurnStep
=============================================================================
