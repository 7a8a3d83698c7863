--------------------------------- MODULE Unwrap ---------------------------------
(***************************************************************************)
(* The two paths that end in unwrapping an ERC20 wrapper for its holder:     *)
(* the IBC receive middleware (app/ibc_middleware/unwrap_erc20.go) and the   *)
(* distribution claim precompile (app/precompiles/distrclaim), which share   *)
(* the calls of app/evmutil/erc20wrapper.go.                                *)
(*                                                                         *)
(* A call - a packet received or a claim - is a sequence of steps, any of    *)
(* which may fail. Until it ends, `call` holds what an undone call restores: *)
(* core IBC drops the state of a receive with an error acknowledgement, and  *)
(* the EVM that of a call that returns an error. Calls do not interleave.    *)
(*                                                                         *)
(* A denomination has three forms an account may hold: bank coins, tokens of *)
(* its ERC20 contract, and, if that contract is a wrapper, the underlying    *)
(* token, counted in what was wrapped.                                      *)
(***************************************************************************)
EXTENDS Integers, FiniteSets, Functions

CONSTANTS
    Accounts,
    Validators,
    Denoms,
    Pairs,         \* denominations with a token pair
    NativeERC20,   \* of these, the ones whose token is the original: "erc20:0x..."
    Wrappers,      \* of these, the ones whose contract is an ERC20Wrapper
    MinWithdraw,           \* MinWithdrawAmountWad: one unit of the underlying token
    MaxVals,       \* x/staking's MaxValidators
    Packets,
    Holdings,      \* bound: original tokens that somebody has before
    RewardAmounts, \* bound: rewards that accrue at once
    ChangeBound    \* bound: accruals, and changes of withdraw addresses and pairs

Packet == [id : Nat, denom : Denoms, to : Accounts, amount : Nat \ {0}, unwrap : BOOLEAN]

ASSUME UnwrapAssumption ==
    /\ IsFiniteSet(Accounts)
    /\ IsFiniteSet(Validators)
    /\ IsFiniteSet(Packets)
    /\ Wrappers \subseteq NativeERC20
    /\ NativeERC20 \subseteq Pairs
    /\ Pairs \subseteq Denoms
    /\ MinWithdraw \in Nat \ {0}
    /\ MaxVals \in Nat
    /\ Packets \subseteq Packet
    /\ Holdings \subseteq Nat
    /\ RewardAmounts \subseteq Nat \ {0}
    /\ ChangeBound \in Nat

VARIABLES
    coin, token, under,   \* balances by account and denomination
    rewards,              \* outstanding rewards by delegator, validator, denomination
    withdrawAddr,         \* x/distribution: where the rewards of an account go
    enabled,              \* x/erc20: the token pairs in use
    status,               \* of each packet
    outcome,              \* the unwrap event of each packet received
    call,                 \* the call under way, or NoCall
    changes,              \* history: accruals and changes of settings
    earned                \* history: what was there at first or accrued, by denomination

balances == <<coin, token, under, rewards>>
settings == <<withdrawAddr, enabled, changes, earned>>
packets == <<status, outcome>>
vars == <<balances, settings, packets, call>>

NoCall == [kind |-> "none"]

NoCoins == [d \in Denoms |-> 0]
Nothing == [a \in Accounts |-> NoCoins]

Init ==
    /\ coin = Nothing
    /\ \E a \in Accounts, d \in NativeERC20, n \in Holdings :
           token = [Nothing EXCEPT ![a][d] = n] /\ earned = [NoCoins EXCEPT ![d] = n]
    /\ under = Nothing
    /\ rewards = [a \in Accounts |-> [v \in Validators |-> NoCoins]]
    /\ withdrawAddr = [a \in Accounts |-> a]
    /\ enabled = Pairs
    /\ status = [p \in Packets |-> "sent"]
    /\ outcome = [p \in Packets |-> "none"]
    /\ call = NoCall
    /\ changes = 0

Plus(r, s) == [d \in Denoms |-> r[d] + s[d]]
Increase(f, a, d, n) == [f EXCEPT ![a][d] = @ + n]
Decrease(f, a, d, n) == [f EXCEPT ![a][d] = @ - n]

Frame == [coin |-> coin, token |-> token, under |-> under, rewards |-> rewards]

Restore(frame) ==
    /\ coin' = frame.coin
    /\ token' = frame.token
    /\ under' = frame.under
    /\ rewards' = frame.rewards

At(kind, pc) == call # NoCall /\ call.kind = kind /\ call.pc = pc

Goto(pc) == call' = [call EXCEPT !.pc = pc]

-------------------------------------------------------------------------------
(* Calls of the wrapper contract, from app/evmutil *)

\* underlying(): what answers with an address is taken for a wrapper.
ProbeSucceeds == call.denom \in Wrappers

\* Mutant: the contract takes what the holder does not have.
WithdrawToUncovered ==
    /\ \E kept \in {0, call.amount % MinWithdraw} :
           token' = Decrease(token, call.who, call.denom, call.amount - kept)
    /\ under' = Increase(under, call.who, call.denom, call.amount - (call.amount % MinWithdraw))
    /\ UNCHANGED <<coin, rewards>>

\* withdrawTo: the contract takes the amount and gives the whole units in it. What
\* is left of the amount it may leave to the holder, or keep.
WithdrawTo ==
    /\ token[call.who][call.denom] >= call.amount
    /\ \E kept \in {0, call.amount % MinWithdraw} :
           token' = Decrease(token, call.who, call.denom, call.amount - kept)
    /\ under' = Increase(under, call.who, call.denom, call.amount - (call.amount % MinWithdraw))
    /\ UNCHANGED <<coin, rewards>>

-------------------------------------------------------------------------------
(* UnwrapERC20IBCModule *)

\* Core IBC has the packet, and the inner modules take it first.
RecvPacket(p) ==
    /\ call = NoCall
    /\ status[p] = "sent"
    /\ call' = [kind |-> "recv", pc |-> "transfer", packet |-> p, who |-> p.to,
                denom |-> p.denom, amount |-> p.amount, given |-> 0, to |-> p.to,
                told |-> "none", frame |-> Frame]
    /\ UNCHANGED <<balances, settings, packets>>

\* transfer.OnRecvPacket: the receiver gets the coins.
Transfer ==
    /\ At("recv", "transfer")
    /\ coin' = Increase(coin, call.who, call.denom, call.amount)
    /\ Goto("convert")
    /\ UNCHANGED <<token, under, rewards, settings, packets>>

\* erc20.OnRecvPacket: the coins of an original token are turned into it.
ConvertReceived ==
    /\ At("recv", "convert")
    /\ call.denom \in enabled \cap NativeERC20
    /\ coin' = Decrease(coin, call.who, call.denom, call.amount)
    /\ token' = Increase(token, call.who, call.denom, call.amount)
    /\ Goto("callback")
    /\ UNCHANGED <<under, rewards, settings, packets>>

\* Others stay coins, as do all when x/erc20 is switched off altogether.
LeaveCoins ==
    /\ At("recv", "convert")
    /\ Goto("callback")
    /\ UNCHANGED <<balances, settings, packets>>

\* A contract called back by the packet may spend what the receiver has.
Callback(to, n) ==
    /\ At("recv", "callback")
    /\ call.given = 0
    /\ to # call.who
    /\ n \in 1..token[call.who][call.denom]
    /\ token' = Increase(Decrease(token, call.who, call.denom, n), to, call.denom, n)
    /\ call' = [call EXCEPT !.given = n, !.to = to]
    /\ UNCHANGED <<coin, under, rewards, settings, packets>>

\* Any inner module may refuse: the error acknowledgement undoes all of it.
InnerRefuses ==
    /\ \E pc \in {"transfer", "convert", "callback"} : At("recv", pc)
    /\ Restore(call.frame)
    /\ status' = [status EXCEPT ![call.packet] = "refused"]
    /\ call' = NoCall
    /\ UNCHANGED <<settings, outcome>>

Wanted == call.packet.unwrap /\ call.denom \in enabled \cap NativeERC20

\* OnRecvPacket has a successful acknowledgement, and no unwrap to try.
InnerAccepts ==
    /\ At("recv", "callback")
    /\ ~Wanted
    /\ Goto("ack")
    /\ UNCHANGED <<balances, settings, packets>>

\* Mutant: whatever was received is withdrawn.
TryUnwrapAnyAmount ==
    /\ At("recv", "callback")
    /\ Wanted
    /\ \/ ProbeSucceeds /\ Goto("unwrap")
       \/ call' = [call EXCEPT !.pc = "ack", !.told = "underlying"]
    /\ UNCHANGED <<balances, settings, packets>>

\* tryUnwrap, up to the withdrawal: the amount, then the probe, which may also run
\* out of the gas it is given.
TryUnwrap ==
    /\ At("recv", "callback")
    /\ Wanted
    /\ \/ call.amount < MinWithdraw /\ call' = [call EXCEPT !.pc = "ack", !.told = "amount_below_min"]
       \/ call.amount >= MinWithdraw /\ ProbeSucceeds /\ Goto("unwrap")
       \/ call.amount >= MinWithdraw /\ call' = [call EXCEPT !.pc = "ack", !.told = "underlying"]
    /\ UNCHANGED <<balances, settings, packets>>

Unwrapped ==
    /\ At("recv", "unwrap")
    /\ WithdrawTo
    /\ call' = [call EXCEPT !.pc = "ack", !.told = "success"]
    /\ UNCHANGED <<settings, packets>>

\* withdrawTo reverts, with all that it did.
UnwrapFailed ==
    /\ At("recv", "unwrap")
    /\ call' = [call EXCEPT !.pc = "ack", !.told = "withdraw_to"]
    /\ UNCHANGED <<balances, settings, packets>>

\* The acknowledgement is the inner one whatever the unwrap did.
Acknowledge ==
    /\ At("recv", "ack")
    /\ status' = [status EXCEPT ![call.packet] = "received"]
    /\ outcome' = [outcome EXCEPT ![call.packet] = call.told]
    /\ call' = NoCall
    /\ UNCHANGED <<balances, settings>>

\* Mutant: a panic is caught and the state kept.
RecvPanicsKept ==
    /\ call # NoCall /\ call.kind = "recv"
    /\ call' = NoCall
    /\ UNCHANGED <<balances, settings, packets>>

\* The transaction of the relayer runs out of gas: nothing happened, and the
\* packet may be relayed again.
RecvPanics ==
    /\ call # NoCall /\ call.kind = "recv"
    /\ Restore(call.frame)
    /\ call' = NoCall
    /\ UNCHANGED <<settings, packets>>

\* It was not received in time, and the sender is refunded.
Timeout(p) ==
    /\ call = NoCall
    /\ status[p] = "sent"
    /\ status' = [status EXCEPT ![p] = "refunded"]
    /\ UNCHANGED <<balances, settings, outcome, call>>

-------------------------------------------------------------------------------
(* claimRewardsAndConvertCoin *)

\* Mutant: the rewards may go to another account.
ClaimForAny(a, validators, d) ==
    /\ call = NoCall
    /\ Cardinality(validators) <= MaxVals
    /\ call' = [kind |-> "claim", pc |-> "withdraw", who |-> a, denom |-> d, amount |-> 0,
                left |-> validators, totalCoins |-> NoCoins, converted |-> 0, frame |-> Frame]
    /\ UNCHANGED <<balances, settings, packets>>

\* The caller claims for itself, from as many of its validators as it asked for, and
\* only if the rewards come to itself. Which validators come first is up to the store.
Claim(a, validators, d) ==
    /\ call = NoCall
    /\ Cardinality(validators) <= MaxVals
    /\ withdrawAddr[a] = a
    /\ call' = [kind |-> "claim", pc |-> "withdraw", who |-> a, denom |-> d, amount |-> 0,
                left |-> validators, totalCoins |-> NoCoins, converted |-> 0, frame |-> Frame]
    /\ UNCHANGED <<balances, settings, packets>>

\* Mutant: only the denomination asked for is paid out.
WithdrawOnlyAsked(v) ==
    /\ At("claim", "withdraw")
    /\ v \in call.left
    /\ LET r == [NoCoins EXCEPT ![call.denom] = rewards[call.who][v][call.denom]]
           to == withdrawAddr[call.who]
       IN  /\ coin' = [coin EXCEPT ![to] = Plus(@, r)]
           /\ call' = [call EXCEPT !.left = @ \ {v}, !.totalCoins = Plus(@, r)]
    /\ rewards' = [rewards EXCEPT ![call.who][v] = NoCoins]
    /\ UNCHANGED <<token, under, settings, packets>>

\* One turn of the loop. The rewards go where the delegator said.
WithdrawDelegationRewards(v) ==
    /\ At("claim", "withdraw")
    /\ v \in call.left
    /\ LET r == rewards[call.who][v]
           to == withdrawAddr[call.who]
       IN  /\ coin' = [coin EXCEPT ![to] = Plus(@, r)]
           /\ call' = [call EXCEPT !.left = @ \ {v}, !.totalCoins = Plus(@, r)]
    /\ rewards' = [rewards EXCEPT ![call.who][v] = NoCoins]
    /\ UNCHANGED <<token, under, settings, packets>>

AllWithdrawn == At("claim", "withdraw") /\ call.left = {}

\* No reward of the denomination asked for: nothing to convert.
NothingToConvert ==
    /\ AllWithdrawn
    /\ call.totalCoins[call.denom] = 0
    /\ Goto("return")
    /\ UNCHANGED <<balances, settings, packets>>

\* x/erc20 converts what was withdrawn of it.
ConvertCoin ==
    /\ AllWithdrawn
    /\ LET amount == call.totalCoins[call.denom]
       IN  /\ amount > 0
           /\ call.denom \in enabled
           /\ coin[call.who][call.denom] >= amount
           /\ coin' = Decrease(coin, call.who, call.denom, amount)
           /\ token' = Increase(token, call.who, call.denom, amount)
           /\ call' = [call EXCEPT !.pc = "convert", !.amount = amount, !.converted = amount]
    /\ UNCHANGED <<under, rewards, settings, packets>>

\* tryUnwrapWrapper: best effort, and silent.
TryUnwrapWrapper ==
    /\ At("claim", "convert")
    /\ \/ call.denom \in NativeERC20 /\ call.amount >= MinWithdraw /\ ProbeSucceeds /\ Goto("unwrap")
       \/ Goto("return")
    /\ UNCHANGED <<balances, settings, packets>>

ClaimUnwrapped ==
    /\ At("claim", "unwrap")
    /\ WithdrawTo
    /\ Goto("return")
    /\ UNCHANGED <<settings, packets>>

ClaimNotUnwrapped ==
    /\ At("claim", "unwrap")
    /\ Goto("return")
    /\ UNCHANGED <<balances, settings, packets>>

\* The event is logged, and the amount converted returned.
Return ==
    /\ At("claim", "return")
    /\ call' = NoCall
    /\ UNCHANGED <<balances, settings, packets>>

\* Any error up to the conversion, or a lack of gas or an error of the caller's own
\* at any step, undoes the whole call.
ClaimFails ==
    /\ call # NoCall /\ call.kind = "claim"
    /\ Restore(call.frame)
    /\ call' = NoCall
    /\ UNCHANGED <<settings, packets>>

-------------------------------------------------------------------------------
(* Everybody else *)

\* A delegation earns.
Accrue(a, v, d, n) ==
    /\ call = NoCall
    /\ changes < ChangeBound
    /\ rewards' = [rewards EXCEPT ![a][v][d] = @ + n]
    /\ earned' = [earned EXCEPT ![d] = @ + n]
    /\ changes' = changes + 1
    /\ UNCHANGED <<coin, token, under, withdrawAddr, enabled, packets, call>>

\* MsgSetWithdrawAddress; ToggleConversion by governance.
SetWithdrawAddress(a, b) ==
    /\ call = NoCall
    /\ changes < ChangeBound
    /\ withdrawAddr[a] # b
    /\ withdrawAddr' = [withdrawAddr EXCEPT ![a] = b]
    /\ changes' = changes + 1
    /\ UNCHANGED <<balances, enabled, earned, packets, call>>

Toggle(d) ==
    /\ call = NoCall
    /\ changes < ChangeBound
    /\ enabled' = (enabled \cup {d}) \ (enabled \cap {d})
    /\ changes' = changes + 1
    /\ UNCHANGED <<balances, withdrawAddr, earned, packets, call>>

-------------------------------------------------------------------------------

Receive ==
    \/ Transfer
    \/ ConvertReceived \/ LeaveCoins
    \/ \E to \in Accounts : \E n \in 1..token[call.who][call.denom] : Callback(to, n)
    \/ InnerRefuses \/ InnerAccepts
    \/ TryUnwrap \/ Unwrapped \/ UnwrapFailed
    \/ Acknowledge \/ RecvPanics

ClaimStep ==
    \/ \E v \in Validators : WithdrawDelegationRewards(v)
    \/ NothingToConvert \/ ConvertCoin
    \/ TryUnwrapWrapper \/ ClaimUnwrapped \/ ClaimNotUnwrapped
    \/ Return \/ ClaimFails

Next ==
    \/ \E p \in Packets : RecvPacket(p) \/ Timeout(p)
    \/ call # NoCall /\ call.kind = "recv" /\ Receive
    \/ \E a \in Accounts, validators \in SUBSET Validators, d \in Denoms : Claim(a, validators, d)
    \/ call # NoCall /\ call.kind = "claim" /\ ClaimStep
    \/ \E a \in Accounts, v \in Validators, d \in Denoms, n \in RewardAmounts : Accrue(a, v, d, n)
    \/ \E a, b \in Accounts : SetWithdrawAddress(a, b)
    \/ \E d \in Pairs : Toggle(d)

Spec == Init /\ [][Next]_vars

-------------------------------------------------------------------------------
(* Properties *)

Amounts == [Accounts -> [Denoms -> Nat]]

FrameType == [coin : Amounts, token : Amounts, under : Amounts,
              rewards : [Accounts -> [Validators -> [Denoms -> Nat]]]]

Outcome == {"none", "amount_below_min", "underlying", "withdraw_to", "success"}

RecvCall ==
    [kind : {"recv"}, pc : {"transfer", "convert", "callback", "unwrap", "ack"},
     packet : Packets, who : Accounts, denom : Denoms, amount : Nat,
     given : Nat, to : Accounts, told : Outcome, frame : FrameType]

ClaimCall ==
    [kind : {"claim"}, pc : {"withdraw", "convert", "unwrap", "return"},
     who : Accounts, denom : Denoms, amount : Nat, left : SUBSET Validators,
     totalCoins : [Denoms -> Nat], converted : Nat, frame : FrameType]

TypeOK ==
    /\ Frame \in FrameType
    /\ withdrawAddr \in [Accounts -> Accounts]
    /\ enabled \in SUBSET Pairs
    /\ status \in [Packets -> {"sent", "received", "refused", "refunded"}]
    /\ outcome \in [Packets -> Outcome]
    /\ call \in RecvCall \cup ClaimCall \cup {NoCall}
    /\ changes \in Nat
    /\ earned \in [Denoms -> Nat]

\* What an account has of a denomination, in any form.
Worth(f, a, d) == f.coin[a][d] + f.token[a][d] + f.under[a][d]

\* Whether an account has the same as before, but for tokens of one denomination.
OnlyTokens(before, after, a, d) ==
    /\ after.coin[a] = before.coin[a]
    /\ after.under[a] = before.under[a]
    /\ \A e \in Denoms \ {d} : after.token[a][e] = before.token[a][e]

Same(before, after, a) ==
    OnlyTokens(before, after, a, call.denom) /\ after.token[a] = before.token[a]

\* The holder of an unwrapped amount gets whole units of the underlying token, at
\* least one, and loses less than one; of an amount that is not, nothing.
UnwrapExact(amount, gain, loss) ==
    IF gain = 0 THEN loss = 0
                ELSE gain = amount - (amount % MinWithdraw) /\ gain >= MinWithdraw /\ loss \in 0..(amount % MinWithdraw)

\* Where a claim ends: what its frame, which holds the balances it began with, and the
\* balances now have to do with each other.
ClaimEnd ==
    call # NoCall /\ call.kind = "claim" /\ call' = NoCall =>
        LET before == call.frame
            after == Frame'
            who == call.who
            d == call.denom
        IN  \/ after = before
            \/ /\ \A a \in Accounts \ {who} : Same(before, after, a)
               /\ call.converted = call.totalCoins[d]
               /\ \A e \in Denoms \ {d} :
                      /\ after.coin[who][e] = before.coin[who][e] + call.totalCoins[e]
                      /\ after.token[who][e] = before.token[who][e]
                      /\ after.under[who][e] = before.under[who][e]
               /\ after.coin[who][d] = before.coin[who][d]
               /\ UnwrapExact(call.converted,
                              after.under[who][d] - before.under[who][d],
                              Worth(before, who, d) + call.converted - Worth(after, who, d))

\* A claim that ends has done nothing at all, or exactly what it returned: all the
\* rewards withdrawn are the caller's, and what it returns is what came to it as
\* tokens or their underlying - from the rewards, not from coins it had before -
\* whatever of the best effort failed.
ClaimExact == [][ClaimEnd]_vars

\* Where a receive ends: what its frame, which holds the balances it began with, and the
\* balances now have to do with each other.
ReceiveEnd ==
    call # NoCall /\ call.kind = "recv" /\ call' = NoCall =>
        LET before == call.frame
            after == Frame'
            who == call.who
            d == call.denom
            gain == after.under[who][d] - before.under[who][d]
        IN  IF status'[call.packet] # "received"
            THEN after = before /\ outcome' = outcome
            ELSE /\ \A a \in Accounts \ {who, call.to} : Same(before, after, a)
                 /\ call.to # who => /\ OnlyTokens(before, after, call.to, d)
                                     /\ after.token[call.to][d] = before.token[call.to][d] + call.given
                 /\ \A e \in Denoms \ {d} : Worth(after, who, e) = Worth(before, who, e)
                 /\ UnwrapExact(call.amount, gain,
                                Worth(before, who, d) + call.amount - call.given - Worth(after, who, d))
                 /\ (gain > 0) <=> outcome'[call.packet] = "success"

\* A receive that ends has changed nothing, unless the packet is acknowledged as a
\* success: then the receiver has the amount, whichever step of the unwrap failed,
\* and the event says whether it has it as the underlying token.
ReceiveExact == [][ReceiveEnd]_vars

\* What validators owe an account, and what it has with that.
Due(f, a, d) == SumFunction([v \in Validators |-> f.rewards[a][v][d]])

Held(f, a, d) == Worth(f, a, d) + Due(f, a, d)

Total(f, d) == SumFunction([a \in Accounts |-> Held(f, a, d)])

Received(d) ==
    SumFunction([p \in Packets |->
        IF p.denom = d /\ status[p] = "received" THEN p.amount ELSE 0])

\* Nothing is created: of every denomination there is no more than was there, was
\* earned, or came with packets that were acknowledged as a success - once each,
\* however often they are relayed.
NothingCreated ==
    call = NoCall => \A d \in Denoms : Total(Frame, d) <= earned[d] + Received(d)

\* What is seen of the balances from outside of calls: a call shows when it ends.
Seen == IF call = NoCall THEN Frame ELSE call.frame

wealth == [a \in Accounts |-> [d \in Denoms |-> Worth(Seen, a, d)]]
owed == Seen.rewards

Promise == INSTANCE Settlement

\* However many steps a receive or a claim takes, whichever of them fail, and whatever
\* is kept or undone, from outside it is one settlement of a packet, one payment of
\* rewards, or nothing: nothing is created, and nothing lost but less than a unit.
ImplementsSettlement == Promise!Spec
================================================================================
