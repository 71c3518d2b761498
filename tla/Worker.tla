------------------------------- MODULE Worker -------------------------------
(***************************************************************************)
(* The merchant's worker: startWorker of src/packages/sdk/src/worker.ts.   *)
(* One loop polls and schedules, the work on the messages runs beside it,  *)
(* serialised for each order, and a stop waits for it only so long.        *)
(*                                                                         *)
(* A delivery is one message of one poll; an order handed over again is    *)
(* another delivery of the same order.  What a handler answers is left     *)
(* out, whether it returns, throws or never ends is not.                   *)
(***************************************************************************)
EXTENDS Integers, Sequences, FiniteSets

CONSTANTS
    Deliveries,       \* the messages the gateway hands over, each once
    KindOf, OrderOf,  \* KindOf[d] is order, event or quote; OrderOf[d] its order or NoOrder
    NoOrder, NoDelivery,
    HandlersAtOnce,   \* HANDLERS_AT_ONCE
    MaxBatch          \* bound: messages of one poll

ASSUME WorkerAssumption ==
    /\ KindOf \in [Deliveries -> {"order", "event", "quote"}]
    /\ NoDelivery \notin Deliveries
    /\ \A d \in Deliveries : KindOf[d] = "quote" <=> OrderOf[d] = NoOrder
    /\ HandlersAtOnce \in Nat \ {0} /\ MaxBatch \in Nat

Orders == {OrderOf[d] : d \in Deliveries} \ {NoOrder}

VARIABLES
    loop,        \* where run() is: asking for room, polling, scheduling a batch, or out
    batch,       \* what is left of the poll's messages
    handed,      \* the messages polls have brought so far
    stopping, ended,
    taken,       \* the messages in hand
    phase,       \* phase[d]: waiting, in_handler or sending
    after,       \* after[d]: the delivery whose work d's work follows
    tails,       \* tails[o]: the last delivery of order o in hand
    abandoned,   \* given up on by the stop
    said,        \* said[d]: the phase a give-up was reported with
    called,      \* messages a handler was called for
    arrived,     \* answers the gateway has
    accounted    \* messages answered, handled, shared with one in hand or reported

vars == <<loop, batch, handed, stopping, ended, taken, phase, after, tails,
          abandoned, said, called, arrived, accounted>>
work == <<taken, phase, after, tails>>
words == <<abandoned, said>>

Init ==
    /\ loop = "room" /\ batch = <<>> /\ handed = {}
    /\ stopping = FALSE /\ ended = FALSE
    /\ taken = {} /\ phase = [d \in Deliveries |-> "waiting"]
    /\ after = [d \in Deliveries |-> NoDelivery] /\ tails = [o \in Orders |-> NoDelivery]
    /\ abandoned = {} /\ said = [d \in Deliveries |-> "nothing"]
    /\ called = {} /\ arrived = {} /\ accounted = {}

-----------------------------------------------------------------------------
(* run: the loop.                                                          *)

\* room: what a message may be scheduled into.
Room == Cardinality(taken) < HandlersAtOnce

AskToPoll ==
    /\ loop = "room" /\ ~stopping /\ Room
    /\ loop' = "polling"
    /\ UNCHANGED <<batch, handed, stopping, ended, work, words, called, arrived, accounted>>

\* A poll that fails, and the wait after it, leave the loop where it was.
PollAnswered ==
    /\ loop = "polling"
    /\ \E size \in 0..MaxBatch : \E messages \in [1..size -> Deliveries \ handed] :
         /\ Cardinality({messages[i] : i \in 1..size}) = size
         /\ batch' = messages
         /\ handed' = handed \cup {messages[i] : i \in 1..size}
    /\ loop' = "scheduling"
    /\ UNCHANGED <<stopping, ended, work, words, called, arrived, accounted>>

\* Another contract version: no more work is taken.
Mismatch ==
    /\ loop = "polling" /\ ~stopping
    /\ stopping' = TRUE /\ loop' = "out"
    /\ UNCHANGED <<batch, handed, ended, work, words, called, arrived, accounted>>

InHand(d) == KindOf[d] = "order" /\ \E e \in taken : KindOf[e] = "order" /\ OrderOf[e] = OrderOf[d]

\* schedule: its work follows the work on the same order, and nothing else.
Schedule ==
    LET d == Head(batch) order == OrderOf[Head(batch)]
    IN  /\ loop = "scheduling" /\ batch # <<>> /\ ~stopping /\ Room
        /\ batch' = Tail(batch)
        /\ IF InHand(d)
           THEN /\ accounted' = accounted \cup {d}
                /\ UNCHANGED work
           ELSE /\ taken' = taken \cup {d}
                /\ phase' = [phase EXCEPT ![d] = "waiting"]
                /\ after' = [after EXCEPT ![d] = IF order = NoOrder THEN NoDelivery ELSE tails[order]]
                /\ tails' = IF order = NoOrder THEN tails ELSE [tails EXCEPT ![order] = d]
                /\ UNCHANGED accounted
        /\ UNCHANGED <<loop, handed, stopping, ended, words, called, arrived>>

BatchDone ==
    /\ loop = "scheduling" /\ batch = <<>>
    /\ loop' = "room"
    /\ UNCHANGED <<batch, handed, stopping, ended, work, words, called, arrived, accounted>>

\* Mutant: a stop is noticed only where there is room.
LeavesWithRoom == stopping /\ (loop = "polling" \/ Room)
\* The stop ends the parked poll and wakes the wait for room.
Leaves == stopping

\* The messages the loop leaves unread, which it reports.
Unread == {batch[i] : i \in 1..Len(batch)}

LoopEnds ==
    /\ loop \in {"room", "polling", "scheduling"} /\ Leaves
    /\ loop' = "out" /\ batch' = <<>>
    /\ accounted' = accounted \cup Unread
    /\ UNCHANGED <<handed, stopping, ended, work, words, called, arrived>>

Stop ==
    /\ ~stopping /\ stopping' = TRUE
    /\ UNCHANGED <<loop, batch, handed, ended, work, words, called, arrived, accounted>>

-----------------------------------------------------------------------------
(* The work on one message.                                                *)

\* Mutant: the tail is dropped whichever work ended.
TailsForgotten(d) == [o \in Orders |-> IF OrderOf[d] = o THEN NoDelivery ELSE tails[o]]
TailsWithout(d) == [o \in Orders |-> IF tails[o] = d THEN NoDelivery ELSE tails[o]]

Finishes(d) ==
    /\ taken' = taken \ {d}
    /\ tails' = TailsWithout(d)
    /\ UNCHANGED <<phase, after>>

\* dispatch: once the work ahead of it has ended.
Dispatch(d) ==
    /\ d \in taken /\ phase[d] = "waiting" /\ d \notin called
    /\ after[d] \notin taken
    /\ \/ /\ d \in abandoned
          /\ Finishes(d) /\ UNCHANGED <<called, accounted>>
       \/ /\ d \notin abandoned
          /\ phase' = [phase EXCEPT ![d] = "in_handler"]
          /\ called' = called \cup {d}
          /\ UNCHANGED <<taken, after, tails, accounted>>
       \/ \* no handler is registered for it, or the message cannot be read
          /\ d \notin abandoned
          /\ accounted' = accounted \cup {d}
          /\ Finishes(d) /\ UNCHANGED called
    /\ UNCHANGED <<loop, batch, handed, stopping, ended, words, arrived>>

\* Mutant: what the handler returned is sent whatever was said.
SendsAnyway(d) == KindOf[d] # "event"
\* send: nothing goes out for a message the stop gave up on.
Sends(d) == KindOf[d] # "event" /\ d \notin abandoned

HandlerReturns(d) ==
    /\ d \in taken /\ phase[d] = "in_handler"
    /\ \/ /\ Sends(d)
          /\ phase' = [phase EXCEPT ![d] = "sending"]
          /\ UNCHANGED <<taken, after, tails, accounted>>
       \/ \* it threw, its answer is none the contract carries, or none is due
          /\ Finishes(d)
          /\ accounted' = accounted \cup {d}
    /\ UNCHANGED <<loop, batch, handed, stopping, ended, words, called, arrived>>

\* The gateway takes the answer; the worker may not hear that it did.
AnswerArrives(d) ==
    /\ d \in taken /\ phase[d] = "sending"
    /\ arrived' = arrived \cup {d}
    /\ UNCHANGED <<loop, batch, handed, stopping, ended, work, words, called, accounted>>

\* The call ends: answered, failed, or cut off by the stop.
SendEnds(d) ==
    /\ d \in taken /\ phase[d] = "sending"
    /\ Finishes(d)
    /\ accounted' = accounted \cup {d}
    /\ UNCHANGED <<loop, batch, handed, stopping, ended, words, called, arrived>>

-----------------------------------------------------------------------------
(* finishOrGiveUp, once the loop is out.                                   *)
AllFinished ==
    /\ loop = "out" /\ ~ended /\ taken = {}
    /\ ended' = TRUE
    /\ UNCHANGED <<loop, batch, handed, stopping, work, words, called, arrived, accounted>>

GiveUp ==
    /\ loop = "out" /\ ~ended /\ taken # {}
    /\ abandoned' = taken
    /\ said' = [d \in Deliveries |-> IF d \in taken THEN phase[d] ELSE said[d]]
    /\ accounted' = accounted \cup taken
    /\ ended' = TRUE
    /\ UNCHANGED <<loop, batch, handed, stopping, work, called, arrived>>

Loop == AskToPoll \/ PollAnswered \/ Schedule \/ BatchDone \/ LoopEnds \/ AllFinished

Next ==
    \/ Loop \/ Mismatch \/ Stop \/ GiveUp
    \/ \E d \in Deliveries :
         Dispatch(d) \/ HandlerReturns(d) \/ AnswerArrives(d) \/ SendEnds(d)

Spec == Init /\ [][Next]_vars

(* The loop's own turns come, and the timer of the stop; nothing is        *)
(* assumed of handlers, which may never return, or of the gateway.         *)
LiveSpec == Spec /\ WF_vars(LoopEnds) /\ WF_vars(AllFinished) /\ WF_vars(GiveUp)

-----------------------------------------------------------------------------
(* Every variable has its type, and no more is in hand than there is room  *)
(* for.                                                                    *)
TypeOK ==
    /\ loop \in {"room", "polling", "scheduling", "out"}
    /\ batch \in Seq(Deliveries) /\ handed \subseteq Deliveries
    /\ stopping \in BOOLEAN /\ ended \in BOOLEAN
    /\ taken \subseteq handed /\ Cardinality(taken) <= HandlersAtOnce
    /\ phase \in [Deliveries -> {"waiting", "in_handler", "sending"}]
    /\ after \in [Deliveries -> Deliveries \cup {NoDelivery}]
    /\ tails \in [Orders -> Deliveries \cup {NoDelivery}]
    /\ abandoned \subseteq handed /\ called \subseteq handed
    /\ arrived \subseteq handed /\ accounted \subseteq handed

(* One order is worked on by one handler at a time, its events after its   *)
(* fulfilment, however often it is handed over and in whichever order the  *)
(* works ahead of it end.                                                  *)
OneHandlerPerOrder ==
    /\ TypeOK
    /\ \A d, e \in taken :
         (d # e /\ OrderOf[d] = OrderOf[e] /\ OrderOf[d] # NoOrder) =>
            /\ phase[d] = "waiting" \/ phase[e] = "waiting"
            /\ ~(KindOf[d] = "order" /\ KindOf[e] = "order")

(* What the stop said of a message it gave up on stays true: no answer of  *)
(* it arrives when none had left, and no handler is called for one that    *)
(* was still waiting, though its handler, or its turn, comes later.  And   *)
(* it said enough: every message a poll brought is answered, handled,      *)
(* shared or reported by the time the worker says it has ended.            *)
GivenUpStaysGivenUp ==
    /\ \A d \in abandoned :
         /\ said[d] # "sending" => d \notin arrived
         /\ said[d] = "waiting" => d \notin called
    /\ ended => handed \subseteq accounted

(* A stop ends, whatever the handlers do and however full the worker is.   *)
StopEnds == stopping ~> ended
=============================================================================
