---------------------------- MODULE PayoutWallet ----------------------------
(***************************************************************************)
(* A merchant's payout wallet on the live deployment: setPayoutWallet of   *)
(* src/apps/gateway/src/app/gateway.ts and the conditional write of        *)
(* adapters/postgres/store.ts, the wallet in force (payoutWalletAt,        *)
(* payToAt) and the splits a payout covers (splitsToPayOut).               *)
(*                                                                         *)
(* A wallet stands for itself and for its split, which is computed from    *)
(* it.  The row is read, the announcement runs with no lock held, and the  *)
(* write lands only where the row still holds what was read.               *)
(***************************************************************************)
EXTENDS Integers

CONSTANTS
    Wallets,         \* addresses the wallet rule lets through
    NoWallet,        \* null
    Sessions,        \* dashboard sessions of the merchant, one request each at a time
    WaitMs,          \* WALLET_CHANGE_WAITS_MS
    LastInstant,     \* bound: the last instant of the clock
    MaxAsked         \* bound: requests in all

ASSUME WalletAssumption ==
    /\ NoWallet \notin Wallets
    /\ WaitMs \in Nat \ {0} /\ LastInstant \in Nat /\ MaxAsked \in Nat

NoChange == [wallet |-> NoWallet, from |-> 0]

VARIABLES
    clock,      \* the gateway's clock
    row,        \* the merchant's wallet as stored: its address and the pending change
    recorded,   \* payoutSplits: the wallets whose split is recorded
    paidInto,   \* wallets into whose split an order's payment was verified
    asking,     \* asking[s]: the request of session s
    messages,   \* changes every account was told of
    asked,      \* requests so far
    first       \* history: the wallet set when there was none

walletVars == <<clock, row, recorded, paidInto, asking, messages, asked, first>>

Change == [wallet : Wallets \cup {NoWallet}, from : Nat]
Row == [address : Wallets \cup {NoWallet}, pending : Change]
Unset == [address |-> NoWallet, pending |-> NoChange]
NotAsking == [step |-> "idle", to |-> NoWallet, from |-> NoWallet, at |-> 0,
              read |-> Unset, next |-> Unset]

WalletInit ==
    /\ clock = 0 /\ asked = 0 /\ first = NoWallet
    /\ row = Unset
    /\ recorded = {} /\ paidInto = {} /\ messages = {}
    /\ asking = [s \in Sessions |-> NotAsking]

-----------------------------------------------------------------------------
(* payoutWalletAt: nothing rewrites the row when a pending change's wait   *)
(* ends; a change whose moment has come is already the address.            *)
WalletAt(r, at) ==
    IF r.pending # NoChange /\ r.pending.from <= at
    THEN [address |-> r.pending.wallet, pending |-> NoChange]
    ELSE r

InForce == WalletAt(row, clock).address

\* Whether asking for this wallet is a replacement, to be announced first.
Replaces(standing, wallet) ==
    standing.address # NoWallet /\ standing.address # wallet /\ standing.pending.wallet # wallet

Alone(wallet) == [address |-> wallet, pending |-> NoChange]

(* #changePayoutWallet, up to its announcement or its write.  Asking for   *)
(* what already stands ends there.                                         *)
Ask(s, wallet) ==
    LET standing == WalletAt(row, clock)
        request(step) == [step |-> step, to |-> wallet, from |-> standing.address, at |-> clock,
                          read |-> row, next |-> Alone(wallet)]
    IN  /\ asking[s].step = "idle" /\ asked < MaxAsked
        /\ asked' = asked + 1
        /\ \/ /\ Replaces(standing, wallet)
              /\ asking' = [asking EXCEPT ![s] = request("announcing")]
           \/ /\ ~Replaces(standing, wallet)
              /\ \/ standing.address = NoWallet
                 \/ standing.address = wallet /\ standing.pending # NoChange
              /\ asking' = [asking EXCEPT ![s] = request("writing")]
        /\ UNCHANGED <<clock, row, recorded, paidInto, messages, first>>

(* The moment the change is to take effect, counted once every message was *)
(* handed over.                                                            *)
TakesEffectAt(s) == clock + WaitMs

(* #announce: every account naming the merchant was told, or not everyone  *)
(* was within its twenty seconds, and the change is refused.               *)
HandedOver(s) ==
    /\ asking[s].step = "announcing"
    /\ messages' = messages \cup {[to |-> asking[s].to, at |-> clock]}
    /\ asking' = [asking EXCEPT
         ![s].step = "writing",
         ![s].next = [address |-> asking[s].from,
                      pending |-> [wallet |-> asking[s].to, from |-> TakesEffectAt(s)]]]
    /\ UNCHANGED <<clock, row, recorded, paidInto, asked, first>>

NotAnnounced(s) ==
    /\ asking[s].step = "announcing"
    /\ asking' = [asking EXCEPT ![s] = NotAsking]
    /\ UNCHANGED <<clock, row, recorded, paidInto, messages, asked, first>>

(* setPayoutWallet of the store: compared and written in one statement,    *)
(* with the splits the write names.                                        *)
\* Mutant: the row is overwritten whatever it holds by now.
HoldsAnything(s) == TRUE
StillHolds(s) == row = asking[s].read

Write(s) ==
    /\ asking[s].step = "writing"
    /\ \/ /\ StillHolds(s)
          /\ row' = asking[s].next
          /\ recorded' = recorded \cup ({row'.address, row'.pending.wallet} \ {NoWallet})
          /\ first' = IF first = NoWallet THEN row'.address ELSE first
       \/ /\ ~StillHolds(s)
          /\ UNCHANGED <<row, recorded, first>>
    /\ asking' = [asking EXCEPT ![s] = NotAsking]
    /\ UNCHANGED <<clock, paidInto, messages, asked>>

(* A buyer's payment is verified against payToAt, and its order keeps it.  *)
Sell ==
    /\ InForce # NoWallet /\ InForce \in recorded
    /\ paidInto' = paidInto \cup {InForce}
    /\ UNCHANGED <<clock, row, recorded, asking, messages, asked, first>>

WalletTick ==
    /\ clock < LastInstant /\ clock' = clock + 1
    /\ UNCHANGED <<row, recorded, paidInto, asking, messages, asked, first>>

WalletNext ==
    \/ \E s \in Sessions : \/ \E wallet \in Wallets : Ask(s, wallet)
                           \/ HandedOver(s) \/ NotAnnounced(s) \/ Write(s)
    \/ Sell \/ WalletTick

WalletSpec == WalletInit /\ [][WalletNext]_walletVars

-----------------------------------------------------------------------------
(* splitsToPayOutFor and splitsToPayOut: every recorded split but one that *)
(* waits behind a change and holds nothing.                                *)
HoldsMoney(wallet) == wallet = InForce \/ wallet \in paidInto
\* Mutant: every split that waits is left out.
LeavesOutWaiting == recorded \ {WalletAt(row, clock).pending.wallet}
SplitsToPayOut ==
    recorded \ {w \in Wallets : w = WalletAt(row, clock).pending.wallet /\ ~HoldsMoney(w)}

-----------------------------------------------------------------------------
(* Every variable has its type, and a change waiting is a change.          *)
WalletTypeOK ==
    /\ clock \in 0..LastInstant /\ asked \in 0..MaxAsked
    /\ first \in Wallets \cup {NoWallet}
    /\ row \in Row /\ (row.pending # NoChange => row.pending.wallet # row.address)
    /\ recorded \subseteq Wallets /\ paidInto \subseteq Wallets
    /\ messages \subseteq [to : Wallets, at : 0..LastInstant]
    /\ \A s \in Sessions : asking[s].step \in {"idle", "announcing", "writing"}

(* Buyers pay the merchant's first wallet, or one every account was told   *)
(* of the whole wait before: no race of two sessions, no cancellation and  *)
(* no write that lands late puts a wallet in force nobody was told of.     *)
InForceWasAnnounced ==
    \/ InForce \in {NoWallet, first}
    \/ \E m \in messages : m.to = InForce /\ m.at + WaitMs <= clock

(* What ADR-0019 says of every replacement (announced first, in force only *)
(* after the wait, and refused when overtaken meanwhile): the wallet       *)
(* buyers pay is replaced only by one every account was told of the whole  *)
(* wait before.  Expected to fail: a pending change takes effect by the    *)
(* clock alone and rewrites nothing, so the conditional write of a request *)
(* that read the row before that moment still finds the row it read, and   *)
(* puts the wallet that was left back in force.                            *)
ReplacedOnlyAsAnnounced ==
    [][(InForce # NoWallet /\ InForce' # InForce) =>
         \E m \in messages : m.to = InForce' /\ m.at + WaitMs <= clock']_walletVars

(* What was ever paid into a split is paid out: the operator's payout      *)
(* leaves out no split that holds money, one whose wallet was left and is  *)
(* now waiting to come back included.                                      *)
MoneyIsPaidOut ==
    /\ WalletTypeOK
    /\ paidInto \cup ({InForce} \ {NoWallet}) \subseteq SplitsToPayOut
=============================================================================
