----------------------------- MODULE MerchantGate -----------------------------
(***************************************************************************)
(* One merchant's line at a MerchantGate: how much of one kind of work it  *)
(* may have under way.  Callers take a place, wait in line for one, give   *)
(* up waiting and give places back, some of them twice.  The lines of two  *)
(* merchants share nothing, so one is kept here; a line that is forgotten  *)
(* comes back empty.                                                       *)
(***************************************************************************)
EXTENDS Naturals, Sequences, FiniteSets, SequencesExt

CONSTANTS Callers,        \* calls of enter
          PayerOf,        \* PayerOf[c]: the payer caller c acts for, or NoPayer
          NoPayer,
          AtOnce,         \* places held at once
          PerSecond,      \* places handed out within a second, Unbounded for no bound
          Unbounded,
          WaitingAtMost   \* callers in line

ASSUME GateAssumption ==
    /\ IsFiniteSet(Callers)
    /\ AtOnce \in Nat \ {0} /\ WaitingAtMost \in Nat
    /\ PerSecond \in Nat \/ PerSecond = Unbounded

VARIABLES
    line,     \* the Line kept for the merchant
    place,    \* place[c]: where caller c stands
    seconds,  \* places handed out less than a second ago
    told      \* the refusal the last step answered: NoPlace, or "none"

gateVars == <<line, place, seconds, told>>

Line == [active : Nat, recent : Nat, holding : SUBSET {PayerOf[c] : c \in Callers},
         waiting : Seq(Callers)]
EmptyLine == [active |-> 0, recent |-> 0, holding |-> {}, waiting |-> <<>>]

\* "left": the place is given back and the caller still has its function.
Place == {"outside", "waiting", "inside", "left"}

GateInit ==
    /\ line = EmptyLine
    /\ place = [c \in Callers |-> "outside"]
    /\ seconds = 0
    /\ told = "none"

-----------------------------------------------------------------------------
Payers(c) == {PayerOf[c]} \ {NoPayer}

HasRoom(l) == l.active < AtOnce /\ (PerSecond = Unbounded \/ l.recent < PerSecond)
Admissible(l, c) == HasRoom(l) /\ Payers(c) \cap l.holding = {}

\* #admit, on the line's side.
Admit(l, c) ==
    [l EXCEPT !.active = @ + 1,
              !.holding = @ \cup Payers(c),
              !.recent = IF PerSecond = Unbounded THEN @ ELSE @ + 1]

\* Mutant: a line with no place taken and nobody waiting is forgotten at once.
NobodyThere(l) == l.active = 0 /\ l.waiting = <<>>

Idle(l) == l.active = 0 /\ l.recent = 0 /\ l.waiting = <<>>

ForgetIfIdle(l) == IF Idle(l) THEN EmptyLine ELSE l

LetIn(l, c) ==
    IF Admissible(l, c) THEN Admit(l, c) ELSE [l EXCEPT !.waiting = Append(@, c)]

\* Mutant: whoever came last is let in first.
NextFromTheBack(l) ==
    LET passed == FoldLeft(LetIn, [l EXCEPT !.waiting = <<>>], Reverse(l.waiting))
    IN  ForgetIfIdle([passed EXCEPT !.waiting = Reverse(@)])

\* Mutant: the pass stops at the first waiter that cannot be let in.
NextAtTheHead(l) ==
    IF l.waiting # <<>> /\ Admissible(l, Head(l.waiting))
    THEN Admit([l EXCEPT !.waiting = Tail(@)], Head(l.waiting))
    ELSE ForgetIfIdle(l)

\* #next: one pass over the line, in the order the waiters came.
NextIn(l) == ForgetIfIdle(FoldLeft(LetIn, [l EXCEPT !.waiting = <<>>], l.waiting))

\* The line becomes l, `over` seconds are over, and whoever is no longer
\* waiting on it has been let in.
Becomes(l, moved, over) ==
    LET letIn == {c \in Callers : place[c] = "waiting" /\ moved[c] = "waiting"}
                   \ Range(l.waiting)
        handedOut == letIn \cup {c \in Callers : place[c] = "outside" /\ moved[c] = "inside"}
    IN  /\ line' = l
        /\ place' = [c \in Callers |-> IF c \in letIn THEN "inside" ELSE moved[c]]
        /\ seconds' = (seconds - over)
                         + (IF PerSecond = Unbounded THEN 0 ELSE Cardinality(handedOut))

-----------------------------------------------------------------------------
AlreadyWaiting(c) ==
    \E w \in Range(line.waiting) : Payers(c) \cap Payers(w) # {}

\* enter; `patient` is waitMs > 0.
Enter(c, patient) ==
    /\ place[c] = "outside"
    /\ \/ /\ ~AlreadyWaiting(c) /\ Admissible(line, c)
          /\ \A w \in Range(line.waiting) : ~Admissible(line, w)
          /\ Becomes(Admit(line, c), [place EXCEPT ![c] = "inside"], 0)
          /\ told' = "none"
       \/ /\ AlreadyWaiting(c)
          /\ UNCHANGED <<line, place, seconds>> /\ told' = "payer"
       \/ /\ ~AlreadyWaiting(c)
          /\ ~Admissible(line, c) \/ \E w \in Range(line.waiting) : Admissible(line, w)
          /\ IF ~patient \/ Len(line.waiting) >= WaitingAtMost
             THEN Becomes(ForgetIfIdle(line), place, 0) /\ told' = "full"
             ELSE /\ Becomes([line EXCEPT !.waiting = Append(@, c)],
                             [place EXCEPT ![c] = "waiting"], 0)
                  /\ told' = "none"

\* The waiter's timer: it leaves the line, told whose the wait was.
TimeOut(c) ==
    /\ place[c] = "waiting"
    /\ \E i \in DOMAIN line.waiting :
         /\ line.waiting[i] = c
         /\ Becomes(ForgetIfIdle([line EXCEPT !.waiting = RemoveAt(@, i)]),
                    [place EXCEPT ![c] = "outside"], 0)
    /\ told' = IF HasRoom(line) THEN "payer" ELSE "full"

HasAPlace(c) == place[c] = "inside"

\* The function enter returned; called again it gives back nothing.
Leave(c) ==
    /\ place[c] \in {"inside", "left"}
    /\ IF HasAPlace(c)
       THEN Becomes(NextIn([line EXCEPT !.active = @ - 1, !.holding = @ \ Payers(c)]),
                    [place EXCEPT ![c] = "left"], 0)
       ELSE UNCHANGED <<line, place, seconds>>
    /\ told' = "none"

\* The caller is done with it.
Done(c) ==
    /\ place[c] = "left"
    /\ place' = [place EXCEPT ![c] = "outside"]
    /\ told' = "none"
    /\ UNCHANGED <<line, seconds>>

\* The timer #admit set: a second has passed since one place was handed out.
SecondEnds ==
    /\ seconds > 0
    /\ Becomes(NextIn([line EXCEPT !.recent = @ - 1]), place, 1)
    /\ told' = "none"

GateNext ==
    \/ \E c \in Callers :
         \/ \E patient \in BOOLEAN : Enter(c, patient)
         \/ TimeOut(c) \/ Leave(c) \/ Done(c)
    \/ SecondEnds

GateSpec == GateInit /\ [][GateNext]_gateVars

-----------------------------------------------------------------------------
(* Every variable has its type.                                            *)
GateTypeOK ==
    /\ line \in Line /\ seconds \in Nat
    /\ place \in [Callers -> Place] /\ told \in {"none", "payer", "full"}

Inside == {c \in Callers : place[c] = "inside"}

(* The merchant's work stays within its limits, places really held, places *)
(* really handed out within a second, and the line, because the counters   *)
(* are what is really held: no place is lost for good to a caller that is  *)
(* gone, none is counted twice, and one payer holds at most one place and  *)
(* one place in line; whatever was forgotten or given back in between.     *)
LimitsHold ==
    /\ GateTypeOK
    /\ Cardinality(Inside) <= AtOnce
    /\ PerSecond # Unbounded => seconds <= PerSecond
    /\ Len(line.waiting) <= WaitingAtMost
    /\ line.active = Cardinality(Inside)
    /\ line.recent = seconds
    /\ line.holding = UNION {Payers(c) : c \in Inside}
    /\ \A c, d \in Callers : c # d /\ Payers(c) \cap Payers(d) # {} =>
         \A where \in {"inside", "waiting"} : ~(place[c] = where /\ place[d] = where)

(* Nobody waits for a place that is free: the wake-ups that end a second,  *)
(* give back a place or free a payer miss no one.                          *)
NobodyWaitsForAFreePlace ==
    \A c \in Callers : place[c] = "waiting" => ~Admissible(line, c)

(* "places go to callers in the order they came": a place is handed past a *)
(* waiter only while that waiter's payer holds one.                        *)
PlacesGoInTurn ==
    [][\A v, w \in Callers :
         /\ place[w] # "inside" /\ place'[w] = "inside"
         /\ place[v] = "waiting" /\ place'[v] = "waiting"
         /\ place[w] = "outside" \/ \E i, j \in DOMAIN line.waiting :
               i < j /\ line.waiting[i] = v /\ line.waiting[j] = w
         => Payers(v) \cap line'.holding # {}]_gateVars
=============================================================================
