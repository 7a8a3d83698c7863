----------------------------- MODULE UnwrapProofs -------------------------------
(***************************************************************************)
(* What a claim of the distribution precompile returns is what came to the   *)
(* caller, and what the acknowledgement of a packet says is what happened to *)
(* its receiver - for all accounts, validators, denominations, packets and   *)
(* amounts, and wherever a call fails. No more comes into being than was      *)
(* earned or received, and from outside every call is one settlement.        *)
(*                                                                         *)
(* The invariant compares, at each point of a call, the balances with those  *)
(* saved when the call began.                                               *)
(***************************************************************************)
EXTENDS Unwrap, Sums, TLAPS

\* An account has what it had when the call began, but for the denomination d.
AlikeBut(f, a, d) ==
    \A e \in Denoms \ {d} :
        /\ coin[a][e] = f.coin[a][e]
        /\ token[a][e] = f.token[a][e]
        /\ under[a][e] = f.under[a][e]

Alike(f, a) ==
    coin[a] = f.coin[a] /\ token[a] = f.token[a] /\ under[a] = f.under[a]

Gain(f, a, d) == under[a][d] - f.under[a][d]
Loss(f, a, d, n) == Worth(f, a, d) + n - Worth(Frame, a, d)

\* How far a claim has come: who holds what besides the caller's own part - its tokens
\* and coins of the denomination asked for.
ClaimOthers(f, who, d, total) ==
    /\ \A a \in Accounts \ {who} : Alike(f, a)
    /\ \A e \in Denoms \ {d} :
        /\ coin[who][e] = f.coin[who][e] + total[e]
        /\ token[who][e] = f.token[who][e]
        /\ under[who][e] = f.under[who][e]

\* And its own part, at each point.
ClaimOwn(f, who, d, total) ==
    /\ call.pc = "withdraw" =>
        /\ withdrawAddr[who] = who
        /\ call.converted = 0
        /\ coin[who][d] = f.coin[who][d] + total[d]
        /\ token[who][d] = f.token[who][d]
        /\ under[who][d] = f.under[who][d]
    /\ call.pc \in {"convert", "unwrap"} =>
        /\ call.converted = total[d]
        /\ call.amount = call.converted
        /\ coin[who][d] = f.coin[who][d]
        /\ token[who][d] = f.token[who][d] + call.converted
        /\ under[who][d] = f.under[who][d]
    /\ call.pc = "unwrap" => call.amount >= MinWithdraw
    /\ call.pc = "return" =>
        /\ call.converted = total[d]
        /\ coin[who][d] = f.coin[who][d]
        /\ UnwrapExact(call.converted, Gain(f, who, d), Loss(f, who, d, call.converted))

ClaimAt(f, who, d, total) == ClaimOthers(f, who, d, total) /\ ClaimOwn(f, who, d, total)

ClaimInv ==
    call # NoCall /\ call.kind = "claim" =>
        ClaimAt(call.frame, call.who, call.denom, call.totalCoins)

\* How far a receive has come: who holds what besides its own part. What a callback gave
\* away is with one other account.
RecvOthers(f, who, d, to) ==
    /\ status[call.packet] = "sent"
    /\ \A a \in Accounts \ {who, to} : Alike(f, a)
    /\ AlikeBut(f, who, d)
    /\ AlikeBut(f, to, d)
    /\ call.given = 0 <=> to = who
    /\ to # who => /\ coin[to][d] = f.coin[to][d]
                   /\ under[to][d] = f.under[to][d]
                   /\ token[to][d] = f.token[to][d] + call.given

\* And its own part, at each point.
RecvOwn(f, who, d) ==
    /\ call.pc # "ack" => under[who][d] = f.under[who][d] /\ call.told # "success"
    /\ call.pc = "transfer" =>
        call.given = 0 /\ coin[who][d] = f.coin[who][d] /\ token[who][d] = f.token[who][d]
    /\ call.pc = "convert" =>
        /\ call.given = 0
        /\ coin[who][d] = f.coin[who][d] + call.amount
        /\ token[who][d] = f.token[who][d]
    /\ call.pc \in {"callback", "unwrap"} =>
        coin[who][d] + token[who][d] = f.coin[who][d] + f.token[who][d] + call.amount - call.given
    /\ call.pc = "unwrap" => call.amount >= MinWithdraw
    /\ call.pc = "ack" =>
        /\ UnwrapExact(call.amount, Gain(f, who, d), Loss(f, who, d, call.amount - call.given))
        /\ (Gain(f, who, d) > 0) <=> call.told = "success"

RecvAt(f, who, d, to) == RecvOthers(f, who, d, to) /\ RecvOwn(f, who, d)

RecvInv ==
    call # NoCall /\ call.kind = "recv" =>
        RecvAt(call.frame, call.who, call.denom, call.to)

IInv == TypeOK /\ ClaimInv /\ RecvInv

-------------------------------------------------------------------------------
(* Amounts *)

\* The whole units in an amount: what MinWithdrawAmountWad leaves of it.
LEMMA WholeUnits ==
    ASSUME NEW n \in Nat
    PROVE  /\ n % MinWithdraw \in Nat
           /\ n % MinWithdraw <= n
           /\ n >= MinWithdraw => n - (n % MinWithdraw) >= MinWithdraw
BY UnwrapAssumption

\* What two families of balances have to do with each other if one balance differs.
Differ(f, g, a, d) ==
    /\ g \in Amounts
    /\ \A b \in Accounts \ {a} : g[b] = f[b]
    /\ \A b \in Accounts, e \in Denoms \ {d} : g[b][e] = f[b][e]

\* Increase changes one balance.
LEMMA Increases ==
    ASSUME NEW f \in Amounts, NEW a \in Accounts, NEW d \in Denoms, NEW n \in Nat
    PROVE  /\ Differ(f, Increase(f, a, d, n), a, d)
           /\ Increase(f, a, d, n)[a][d] = f[a][d] + n
BY DEF Increase, Amounts, Differ

\* Decrease, of what is there, likewise.
LEMMA Decreases ==
    ASSUME NEW f \in Amounts, NEW a \in Accounts, NEW d \in Denoms, NEW n \in Nat,
           f[a][d] >= n
    PROVE  /\ Differ(f, Decrease(f, a, d, n), a, d)
           /\ Decrease(f, a, d, n)[a][d] = f[a][d] - n
<1>1. f[a][d] - n \in Nat
  BY DEF Amounts
<1>2. QED
  BY <1>1 DEF Decrease, Amounts, Differ

LEMMA PlusAdds ==
    ASSUME NEW r \in [Denoms -> Nat], NEW s \in [Denoms -> Nat]
    PROVE  /\ Plus(r, s) \in [Denoms -> Nat]
           /\ \A d \in Denoms : Plus(r, s)[d] = r[d] + s[d]
BY DEF Plus

-------------------------------------------------------------------------------
(* Calls *)

LEMMA RecvTyped ==
    ASSUME TypeOK, NEW pc, At("recv", pc)
    PROVE  call \in RecvCall /\ call.pc = pc
BY DEF TypeOK, At, RecvCall, ClaimCall, NoCall

LEMMA ClaimTyped ==
    ASSUME TypeOK, NEW pc, At("claim", pc)
    PROVE  call \in ClaimCall /\ call.pc = pc
BY DEF TypeOK, At, RecvCall, ClaimCall, NoCall

LEMMA Undone ==
    ASSUME TypeOK, call # NoCall, Restore(call.frame)
    PROVE  Frame' = call.frame /\ Frame' \in FrameType
<1>1. call.frame \in FrameType
  BY DEF TypeOK, RecvCall, ClaimCall
<1>2. Frame' = call.frame
  BY <1>1 DEF Restore, Frame, FrameType
<1>3. QED
  BY <1>1, <1>2

LEMMA FrameOK ==
    Frame \in FrameType <=>
        /\ coin \in Amounts
        /\ token \in Amounts
        /\ under \in Amounts
        /\ rewards \in [Accounts -> [Validators -> [Denoms -> Nat]]]
BY DEF Frame, FrameType

\* withdrawTo, where a call has come to it.
LEMMA Withdrawn ==
    ASSUME coin \in Amounts, token \in Amounts, under \in Amounts,
           call.who \in Accounts, call.denom \in Denoms, call.amount \in Nat, WithdrawTo
    PROVE  /\ coin' = coin
           /\ rewards' = rewards
           /\ token' \in Amounts
           /\ under' \in Amounts
           /\ \A b \in Accounts \ {call.who} : token'[b] = token[b] /\ under'[b] = under[b]
           /\ \A b \in Accounts, e \in Denoms \ {call.denom} :
                  token'[b][e] = token[b][e] /\ under'[b][e] = under[b][e]
           /\ under'[call.who][call.denom] =
                  under[call.who][call.denom] + (call.amount - (call.amount % MinWithdraw))
           /\ \E kept \in {0, call.amount % MinWithdraw} :
                  token'[call.who][call.denom] = token[call.who][call.denom] - (call.amount - kept)
<1> DEFINE rest == call.amount % MinWithdraw
<1>1. rest \in Nat /\ rest <= call.amount
  BY WholeUnits
<1>2. PICK kept \in {0, rest} :
          token' = Decrease(token, call.who, call.denom, call.amount - kept)
  BY DEF WithdrawTo
<1>3. under' = Increase(under, call.who, call.denom, call.amount - rest)
  BY DEF WithdrawTo
<1>4. token[call.who][call.denom] >= call.amount /\ token[call.who][call.denom] \in Nat
  BY DEF WithdrawTo, Amounts
<1> HIDE DEF rest
<1>5. call.amount - kept \in Nat /\ call.amount - rest \in Nat
  BY <1>1, <1>2
<1>6. token[call.who][call.denom] >= call.amount - kept
  BY <1>1, <1>2, <1>4
<1>7. /\ Differ(token, token', call.who, call.denom)
      /\ token'[call.who][call.denom] = token[call.who][call.denom] - (call.amount - kept)
  BY <1>2, <1>5, <1>6, Decreases
<1>8. /\ Differ(under, under', call.who, call.denom)
      /\ under'[call.who][call.denom] = under[call.who][call.denom] + (call.amount - rest)
  <2>1. PICK n \in Nat : n = call.amount - rest
    BY <1>5
  <2>2. under' = Increase(under, call.who, call.denom, n)
    BY <1>3, <2>1
  <2>3. /\ Differ(under, under', call.who, call.denom)
        /\ under'[call.who][call.denom] = under[call.who][call.denom] + n
    BY <2>2, Increases
  <2>4. QED
    BY <2>1, <2>3
<1>9. coin' = coin /\ rewards' = rewards
  BY DEF WithdrawTo
<1>10. QED
  BY <1>2, <1>7, <1>8, <1>9 DEF rest, Differ

-------------------------------------------------------------------------------
(* The initial state, and the steps of a call *)

LEMMA InitIInv == Init => IInv
<1> SUFFICES ASSUME Init PROVE IInv
  OBVIOUS
<1>1. call = NoCall /\ NoCall.kind = "none"
  BY DEF Init, NoCall
<1>2. PICK a \in Accounts, d \in NativeERC20, n \in Holdings :
          token = [Nothing EXCEPT ![a][d] = n] /\ earned = [NoCoins EXCEPT ![d] = n]
  BY DEF Init
<1>3. n \in Nat /\ 0 \in Nat
  BY UnwrapAssumption
<1>4. Nothing \in Amounts
  BY DEF Nothing, NoCoins, Amounts
<1>5. token \in Amounts /\ earned \in [Denoms -> Nat]
  BY <1>2, <1>3, <1>4 DEF Amounts, NoCoins
<1>6. Frame \in FrameType
  BY <1>4, <1>5, FrameOK DEF Init, NoCoins
<1>7. TypeOK
  BY <1>1, <1>5, <1>6 DEF Init, TypeOK, Outcome
<1>8. QED
  BY <1>1, <1>7 DEF IInv, ClaimInv, RecvInv

\* Moves of a receive from one point of the code to the next.
Moves(pc, told) ==
    \/ Goto(pc) /\ told = call.told
    \/ call' = [call EXCEPT !.pc = pc, !.told = told]

LEMMA RecvMoves ==
    ASSUME call \in RecvCall, NEW pc \in {"convert", "callback", "unwrap", "ack"},
           NEW told \in Outcome, Moves(pc, told)
    PROVE  /\ call' \in RecvCall
           /\ call'.pc = pc
           /\ call'.told = told
           /\ call'.packet = call.packet
           /\ call'.who = call.who
           /\ call'.denom = call.denom
           /\ call'.amount = call.amount
           /\ call'.given = call.given
           /\ call'.to = call.to
           /\ call'.frame = call.frame
<1>1. call' = [kind |-> "recv", pc |-> pc, packet |-> call.packet, who |-> call.who,
               denom |-> call.denom, amount |-> call.amount, given |-> call.given,
               to |-> call.to, told |-> told, frame |-> call.frame]
  BY DEF RecvCall, Moves, Goto
<1>2. QED
  BY <1>1 DEF RecvCall

LEMMA RecvCallFields ==
    ASSUME call \in RecvCall
    PROVE  /\ call # NoCall
           /\ call.kind = "recv"
           /\ call.packet \in Packets
           /\ call.who \in Accounts
           /\ call.denom \in Denoms
           /\ call.amount \in Nat
           /\ call.given \in Nat
           /\ call.to \in Accounts
           /\ call.told \in Outcome
           /\ call.frame \in FrameType
BY DEF RecvCall, NoCall

\* What is left to show of a step of a receive that goes on.
LEMMA RecvGoesOn ==
    ASSUME call' \in RecvCall, Frame' \in FrameType, RecvInv',
           TypeOK, UNCHANGED settings, UNCHANGED packets
    PROVE  IInv'
<1>1. TypeOK'
  BY DEF TypeOK, settings, packets
<1>2. call'.kind # "claim"
  BY DEF RecvCall
<1>3. QED
  BY <1>1, <1>2 DEF IInv, ClaimInv

\* What is left to show of a step that ends a call.
LEMMA Ends ==
    ASSUME call' = NoCall, Frame' \in FrameType, TypeOK, UNCHANGED settings,
           status' \in [Packets -> {"sent", "received", "refused", "refunded"}],
           outcome' \in [Packets -> Outcome]
    PROVE  IInv'
<1>1. TypeOK'
  BY DEF TypeOK, settings
<1>2. QED
  BY <1>1 DEF IInv, ClaimInv, RecvInv

LEMMA ReceiveIsRecv ==
    ASSUME TypeOK, Receive
    PROVE  call \in RecvCall
BY RecvTyped DEF Receive, Transfer, ConvertReceived, LeaveCoins, Callback, InnerRefuses,
   InnerAccepts, TryUnwrap, Unwrapped, UnwrapFailed, Acknowledge, RecvPanics, At, TypeOK,
   RecvCall, ClaimCall, NoCall

\* A step that changes only what the receiver has of the denomination of the packet.
OnlyHolder(who, d) ==
    /\ \A b \in Accounts \ {who} : coin'[b] = coin[b] /\ token'[b] = token[b] /\ under'[b] = under[b]
    /\ \A e \in Denoms \ {d} : /\ coin'[who][e] = coin[who][e]
                              /\ token'[who][e] = token[who][e]
                              /\ under'[who][e] = under[who][e]

LEMMA OthersKept ==
    ASSUME NEW CONSTANT f, NEW CONSTANT who \in Accounts, NEW CONSTANT d,
           NEW CONSTANT to \in Accounts, RecvOthers(f, who, d, to), OnlyHolder(who, d),
           status' = status, call'.packet = call.packet, call'.given = call.given
    PROVE  RecvOthers(f, who, d, to)'
<1>1. /\ \A a \in Accounts \ {who, to} : Alike(f, a)'
      /\ AlikeBut(f, who, d)'
  BY DEF RecvOthers, OnlyHolder, Alike, AlikeBut
<1>2. AlikeBut(f, to, d)' /\ (to # who /\ Alike(f, to) => Alike(f, to)')
  BY DEF RecvOthers, OnlyHolder, Alike, AlikeBut
<1>3. to # who => /\ coin'[to] = coin[to]
                  /\ under'[to] = under[to]
                  /\ token'[to] = token[to]
  BY DEF OnlyHolder
<1>4. QED
  BY <1>1, <1>2, <1>3 DEF RecvOthers

LEMMA RecvStepInv ==
    ASSUME IInv, Receive
    PROVE  IInv'
<1>0. /\ TypeOK
      /\ Frame \in FrameType
      /\ coin \in Amounts /\ token \in Amounts /\ under \in Amounts
      /\ rewards \in [Accounts -> [Validators -> [Denoms -> Nat]]]
      /\ status \in [Packets -> {"sent", "received", "refused", "refunded"}]
      /\ outcome \in [Packets -> Outcome]
  BY FrameOK DEF IInv, TypeOK
<1>1. call \in RecvCall
  BY <1>0, ReceiveIsRecv
<1>2. SUFFICES ASSUME NEW CONSTANT f \in FrameType, f = call.frame,
                      NEW CONSTANT who \in Accounts, who = call.who,
                      NEW CONSTANT d \in Denoms, d = call.denom,
                      NEW CONSTANT to \in Accounts, to = call.to,
                      NEW CONSTANT n \in Nat, n = call.amount,
                      NEW CONSTANT given \in Nat, given = call.given,
                      NEW CONSTANT p \in Packets, p = call.packet,
                      RecvAt(f, who, d, to)
               PROVE  IInv'
  BY <1>1, RecvCallFields DEF IInv, RecvInv
<1>3. f.coin \in Amounts /\ f.token \in Amounts /\ f.under \in Amounts
  BY DEF FrameType
<1>4. /\ coin[who][d] \in Nat /\ token[who][d] \in Nat /\ under[who][d] \in Nat
      /\ f.coin[who][d] \in Nat /\ f.token[who][d] \in Nat /\ f.under[who][d] \in Nat
  BY <1>0, <1>3 DEF Amounts
<1> DEFINE Kept == /\ call'.packet = p /\ call'.who = who /\ call'.denom = d
                   /\ call'.amount = n /\ call'.frame = f
                   /\ call'.given = given /\ call'.to = to
<1>5. ASSUME NEW pc \in {"convert", "callback", "unwrap", "ack"}, NEW told \in Outcome,
             Moves(pc, told)
      PROVE  call' \in RecvCall /\ call'.pc = pc /\ call'.told = told /\ Kept
  BY <1>1, <1>2, <1>5, RecvMoves
<1>6. ASSUME NEW pc \in {"convert", "callback", "unwrap", "ack"}, Goto(pc)
      PROVE  call' \in RecvCall /\ call'.pc = pc /\ call'.told = call.told /\ Kept
  BY <1>1, <1>5, <1>6, RecvCallFields DEF Moves
\* Steps that change no balance.
<1>7. ASSUME call' \in RecvCall, call'.pc \in {"callback", "unwrap", "ack"}, Kept,
             UNCHANGED balances, UNCHANGED settings, UNCHANGED packets,
             RecvOwn(f, who, d)'
      PROVE  IInv'
  <2>1. OnlyHolder(who, d) /\ status' = status
    BY <1>7 DEF OnlyHolder, balances, packets
  <2>2. RecvOthers(f, who, d, to)'
    BY <1>2, <1>7, <2>1, OthersKept DEF RecvAt
  <2>3. QED
    BY <1>0, <1>7, <2>2, RecvGoesOn DEF Frame, balances, RecvInv, RecvAt
\* A receive accepted without an unwrap: the receiver has the whole amount.
<1>none. ASSUME call.pc \in {"callback", "unwrap"}, call'.pc = "ack",
                call'.told # "success", Kept, UNCHANGED balances
         PROVE  RecvOwn(f, who, d)'
  <2>1. /\ coin[who][d] + token[who][d] = f.coin[who][d] + f.token[who][d] + n - given
        /\ under[who][d] = f.under[who][d]
    BY <1>2, <1>none DEF RecvAt, RecvOwn
  <2>2. Gain(f, who, d)' = 0
    BY <1>4, <1>none, <2>1 DEF Gain, balances
  <2>3. Loss(f, who, d, n - given)' = 0
    BY <1>4, <1>none, <2>1 DEF Loss, Worth, Frame, balances
  <2>4. UnwrapExact(n, Gain(f, who, d)', Loss(f, who, d, n - given)')
    BY <2>2, <2>3 DEF UnwrapExact
  <2>5. QED
    BY <1>none, <2>2, <2>4 DEF RecvOwn
<1>8. ASSUME Transfer
      PROVE  IInv'
  <2>1. call.pc = "transfer"
    BY <1>8 DEF Transfer, At
  <2>2. call' \in RecvCall /\ call'.pc = "convert" /\ call'.told = call.told /\ Kept
    BY <1>6, <1>8 DEF Transfer
  <2>3. coin' = Increase(coin, who, d, n)
        /\ token' = token /\ under' = under /\ rewards' = rewards
    BY <1>2, <1>8 DEF Transfer
  <2>4. Differ(coin, coin', who, d) /\ coin'[who][d] = coin[who][d] + n
    BY <1>0, <2>3, Increases
  <2>5. Frame' \in FrameType
    <3>1. /\ coin' \in Amounts /\ token' \in Amounts /\ under' \in Amounts
          /\ rewards' \in [Accounts -> [Validators -> [Denoms -> Nat]]]
      BY <1>0, <2>3, <2>4 DEF Differ
    <3>2. QED
      BY <3>1 DEF Frame, FrameType
  <2>6. status' = status /\ UNCHANGED settings /\ UNCHANGED packets
    BY <1>8 DEF Transfer, packets
  <2>7. RecvAt(f, who, d, to)'
    <3>1. OnlyHolder(who, d)
      BY <2>3, <2>4 DEF Differ, OnlyHolder
    <3>2. RecvOthers(f, who, d, to)'
      BY <1>2, <2>2, <2>6, <3>1, OthersKept DEF RecvAt
    <3>3. RecvOwn(f, who, d)'
      BY <1>2, <1>4, <2>1, <2>2, <2>3, <2>4 DEF RecvAt, RecvOwn
    <3>4. QED
      BY <3>2, <3>3 DEF RecvAt
  <2>8. QED
    BY <1>0, <2>2, <2>5, <2>6, <2>7, RecvGoesOn DEF RecvInv
<1>9. ASSUME ConvertReceived
      PROVE  IInv'
  <2>1. call.pc = "convert"
    BY <1>9 DEF ConvertReceived, At
  <2>2. call' \in RecvCall /\ call'.pc = "callback" /\ call'.told = call.told /\ Kept
    BY <1>6, <1>9 DEF ConvertReceived
  <2>3. coin' = Decrease(coin, who, d, n) /\ token' = Increase(token, who, d, n)
        /\ under' = under /\ rewards' = rewards
    BY <1>2, <1>9 DEF ConvertReceived
  <2>4. coin[who][d] = f.coin[who][d] + n /\ coin[who][d] >= n
    BY <1>2, <1>4, <2>1 DEF RecvAt, RecvOthers, RecvOwn
  <2>5. Differ(coin, coin', who, d) /\ coin'[who][d] = coin[who][d] - n
    BY <1>0, <2>3, <2>4, Decreases
  <2>6. Differ(token, token', who, d) /\ token'[who][d] = token[who][d] + n
    BY <1>0, <2>3, Increases
  <2>7. Frame' \in FrameType
    <3>1. /\ coin' \in Amounts /\ token' \in Amounts /\ under' \in Amounts
          /\ rewards' \in [Accounts -> [Validators -> [Denoms -> Nat]]]
      BY <1>0, <2>3, <2>5, <2>6 DEF Differ
    <3>2. QED
      BY <3>1 DEF Frame, FrameType
  <2>8. status' = status /\ UNCHANGED settings /\ UNCHANGED packets
    BY <1>9, SMTT(60) DEF ConvertReceived, packets
  <2>9. RecvAt(f, who, d, to)'
    <3>1. OnlyHolder(who, d)
      <4>1. under' = under
        BY <2>3
      <4>2. QED
        BY <2>5, <2>6, <4>1 DEF Differ, OnlyHolder
    <3>2. RecvOthers(f, who, d, to)'
      BY <1>2, <2>2, <2>8, <3>1, OthersKept DEF RecvAt
    <3>3. token[who][d] = f.token[who][d] /\ under[who][d] = f.under[who][d]
          /\ given = 0 /\ call.told # "success"
      BY <1>2, <2>1 DEF RecvAt, RecvOwn
    <3>4. under' = under
      BY <2>3
    <3>5. RecvOwn(f, who, d)'
      BY <1>4, <2>2, <2>4, <2>5, <2>6, <3>3, <3>4 DEF RecvOwn
    <3>6. QED
      BY <3>2, <3>5 DEF RecvAt
  <2>10. QED
    BY <1>0, <2>2, <2>7, <2>8, <2>9, RecvGoesOn DEF RecvInv
<1>10. ASSUME LeaveCoins
       PROVE  IInv'
  <2>1. call.pc = "convert"
    BY <1>10 DEF LeaveCoins, At
  <2>2. call' \in RecvCall /\ call'.pc = "callback" /\ call'.told = call.told /\ Kept
    BY <1>6, <1>10 DEF LeaveCoins
  <2>3. UNCHANGED balances /\ UNCHANGED settings /\ UNCHANGED packets
    BY <1>10 DEF LeaveCoins
  <2>4. RecvOwn(f, who, d)'
    BY <1>2, <1>4, <2>1, <2>2, <2>3 DEF RecvAt, RecvOwn, balances, packets
  <2>5. QED
    BY <1>7, <2>2, <2>3, <2>4
<1>11. ASSUME NEW other \in Accounts, NEW m \in 1..token[call.who][call.denom],
              Callback(other, m)
       PROVE  IInv'
  <2>1. /\ call.pc = "callback" /\ given = 0 /\ other # who /\ to = who
        /\ m \in Nat /\ m > 0 /\ token[who][d] >= m
    BY <1>2, <1>4, <1>11 DEF Callback, At, RecvAt, RecvOthers
  <2>2. call' = [kind |-> "recv", pc |-> "callback", packet |-> call.packet,
                 who |-> call.who, denom |-> call.denom, amount |-> call.amount,
                 given |-> m, to |-> other, told |-> call.told, frame |-> call.frame]
    BY <1>1, <1>11, <2>1 DEF Callback, RecvCall
  <2>3. /\ call' \in RecvCall /\ call'.pc = "callback" /\ call'.packet = p
        /\ call'.who = who /\ call'.denom = d /\ call'.amount = n /\ call'.frame = f
        /\ call'.given = m /\ call'.to = other /\ call'.told = call.told
    BY <1>1, <1>2, <2>1, <2>2 DEF RecvCall
  <2>4. token' = Increase(Decrease(token, who, d, m), other, d, m)
        /\ coin' = coin /\ under' = under /\ rewards' = rewards
    BY <1>2, <1>11 DEF Callback
  <2>5. PICK t : t = Decrease(token, who, d, m)
    OBVIOUS
  <2>6. Differ(token, t, who, d) /\ t[who][d] = token[who][d] - m /\ t \in Amounts
    BY <1>0, <2>1, <2>5, Decreases DEF Differ
  <2>7. Differ(t, token', other, d) /\ token'[other][d] = t[other][d] + m
    BY <2>1, <2>4, <2>5, <2>6, Increases
  <2>8. /\ token'[who][d] = token[who][d] - m
        /\ token'[other][d] = token[other][d] + m
        /\ \A b \in Accounts \ {who, other} : token'[b] = token[b]
        /\ \A b \in Accounts, e \in Denoms \ {d} : token'[b][e] = token[b][e]
    BY <2>1, <2>6, <2>7 DEF Differ
  <2>9. Frame' \in FrameType
    <3>1. /\ coin' \in Amounts /\ token' \in Amounts /\ under' \in Amounts
          /\ rewards' \in [Accounts -> [Validators -> [Denoms -> Nat]]]
      BY <1>0, <2>4, <2>7 DEF Differ
    <3>2. QED
      BY <3>1 DEF Frame, FrameType
  <2>10. status' = status /\ UNCHANGED settings /\ UNCHANGED packets
    BY <1>11 DEF Callback, packets
  <2>11. AlikeBut(f, who, d) /\ \A a \in Accounts \ {who} : Alike(f, a)
    BY <1>2, <2>1 DEF RecvAt, RecvOthers
  <2>12. RecvAt(f, who, d, other)'
    <3>1. \A a \in Accounts \ {who, other} : Alike(f, a)'
      BY <2>4, <2>8, <2>11 DEF Alike
    <3>2. AlikeBut(f, who, d)' /\ AlikeBut(f, other, d)'
      BY <2>4, <2>8, <2>11 DEF Alike, AlikeBut
    <3>3. status[p] = "sent" /\ status' = status
      BY <1>2, <2>10 DEF RecvAt, RecvOthers
    <3>4. /\ coin'[other][d] = f.coin[other][d]
          /\ under'[other][d] = f.under[other][d]
          /\ token'[other][d] = f.token[other][d] + m
      BY <2>1, <2>4, <2>8, <2>11 DEF Alike
    <3>5. RecvOthers(f, who, d, other)'
      BY <2>1, <2>3, <3>1, <3>2, <3>3, <3>4 DEF RecvOthers
    <3>6. /\ coin[who][d] + token[who][d] = f.coin[who][d] + f.token[who][d] + n
          /\ under[who][d] = f.under[who][d] /\ call.told # "success"
      BY <1>2, <1>4, <2>1 DEF RecvAt, RecvOwn
    <3>7. RecvOwn(f, who, d)'
      BY <1>4, <2>1, <2>3, <2>4, <2>8, <3>6 DEF RecvOwn
    <3>8. QED
      BY <3>5, <3>7 DEF RecvAt
  <2>13. QED
    BY <1>0, <2>3, <2>9, <2>10, <2>12, RecvGoesOn DEF RecvInv
<1>12. ASSUME InnerRefuses
       PROVE  IInv'
  <2>1. Frame' \in FrameType
    BY <1>0, <1>1, <1>12, Undone, RecvCallFields DEF InnerRefuses
  <2>2. QED
    BY <1>0, <1>12, <2>1, Ends DEF InnerRefuses
<1>13. ASSUME InnerAccepts
       PROVE  IInv'
  <2>1. call.pc = "callback"
    BY <1>13 DEF InnerAccepts, At
  <2>2. call' \in RecvCall /\ call'.pc = "ack" /\ call'.told = call.told /\ Kept
    BY <1>6, <1>13 DEF InnerAccepts
  <2>3. UNCHANGED balances /\ UNCHANGED settings /\ UNCHANGED packets
    BY <1>13 DEF InnerAccepts
  <2>4. RecvOwn(f, who, d)'
    BY <1>none, <1>2, <2>1, <2>2, <2>3 DEF RecvAt, RecvOwn
  <2>5. QED
    BY <1>7, <2>2, <2>3, <2>4
<1>14. ASSUME TryUnwrap
       PROVE  IInv'
  <2>1. call.pc = "callback"
    BY <1>14 DEF TryUnwrap, At
  <2>2. UNCHANGED balances /\ UNCHANGED settings /\ UNCHANGED packets
    BY <1>14 DEF TryUnwrap
  <2>3. CASE n >= MinWithdraw /\ Goto("unwrap")
    <3>1. call' \in RecvCall /\ call'.pc = "unwrap" /\ call'.told = call.told /\ Kept
      BY <1>6, <2>3
    <3>2. RecvOwn(f, who, d)'
      BY <1>2, <1>4, <2>1, <2>2, <2>3, <3>1 DEF RecvAt, RecvOwn, balances, packets
    <3>3. QED
      BY <1>7, <2>2, <3>1, <3>2
  <2>4. ASSUME NEW told \in {"amount_below_min", "underlying"},
               call' = [call EXCEPT !.pc = "ack", !.told = told]
        PROVE  IInv'
    <3>1. call' \in RecvCall /\ call'.pc = "ack" /\ call'.told = told /\ Kept
      BY <1>5, <2>4 DEF Outcome, Moves
    <3>2. RecvOwn(f, who, d)'
      BY <1>none, <2>1, <2>2, <2>4, <3>1
    <3>3. QED
      BY <1>7, <2>2, <3>1, <3>2
  <2>5. QED
    BY <1>2, <1>14, <2>3, <2>4 DEF TryUnwrap
<1>15. ASSUME Unwrapped
       PROVE  IInv'
  <2>1. call.pc = "unwrap" /\ n >= MinWithdraw
    BY <1>2, <1>15 DEF Unwrapped, At, RecvAt, RecvOwn
  <2>2. call' \in RecvCall /\ call'.pc = "ack" /\ call'.told = "success" /\ Kept
    BY <1>5, <1>15 DEF Unwrapped, Outcome, Moves
  <2>3. PICK rest \in Nat : rest = n % MinWithdraw
    BY WholeUnits
  <2>4. rest <= n /\ n - rest >= MinWithdraw /\ n - rest > 0
    BY <2>1, <2>3, WholeUnits, UnwrapAssumption
  <2>5. /\ coin' = coin
        /\ rewards' = rewards
        /\ token' \in Amounts /\ under' \in Amounts
        /\ \A b \in Accounts \ {who} : token'[b] = token[b] /\ under'[b] = under[b]
        /\ \A b \in Accounts, e \in Denoms \ {d} :
               token'[b][e] = token[b][e] /\ under'[b][e] = under[b][e]
        /\ under'[who][d] = under[who][d] + (n - rest)
        /\ \E kept \in {0, rest} : token'[who][d] = token[who][d] - (n - kept)
    BY <1>0, <1>2, <1>15, <2>3, Withdrawn DEF Unwrapped
  <2>6. PICK kept \in {0, rest} : token'[who][d] = token[who][d] - (n - kept)
    BY <2>5
  <2>7. Frame' \in FrameType
    BY <1>0, <2>5 DEF Frame, FrameType
  <2>8. status' = status /\ UNCHANGED settings /\ UNCHANGED packets
    BY <1>15 DEF Unwrapped, packets
  <2>9. Gain(f, who, d)' = n - rest
    BY <1>2, <1>4, <2>1, <2>4, <2>5 DEF RecvAt, RecvOthers, RecvOwn, Gain
  <2>10. Loss(f, who, d, n - given)' = rest - kept
    <3>1. /\ coin[who][d] + token[who][d] = f.coin[who][d] + f.token[who][d] + n - given
          /\ under[who][d] = f.under[who][d]
      BY <1>2, <2>1 DEF RecvAt, RecvOthers, RecvOwn
    <3>2. Worth(f, who, d) + (n - given) - (coin[who][d] + (token[who][d] - (n - kept))
              + (under[who][d] + (n - rest))) = rest - kept
      BY <1>2, <1>4, <2>3, <2>6, <3>1, SMTT(60) DEF Worth
    <3>3. Worth(Frame, who, d)' = coin[who][d] + (token[who][d] - (n - kept))
              + (under[who][d] + (n - rest))
      BY <2>5, <2>6 DEF Worth, Frame
    <3>4. QED
      BY <3>2, <3>3 DEF Loss, Worth
  <2>11. rest - kept \in 0..rest
    BY <2>6
  <2>12. RecvAt(f, who, d, to)'
    <3>1. UnwrapExact(n, n - rest, rest - kept)
      BY <2>3, <2>4, <2>11 DEF UnwrapExact
    <3>2. UnwrapExact(n, Gain(f, who, d)', Loss(f, who, d, n - given)')
      BY <2>9, <2>10, <3>1
    <3>3. OnlyHolder(who, d)
      BY <2>5 DEF OnlyHolder
    <3>4. RecvOthers(f, who, d, to)'
      BY <1>2, <2>2, <2>8, <3>3, OthersKept DEF RecvAt
    <3>5. RecvOwn(f, who, d)'
      BY <1>2, <2>2, <2>4, <2>9, <3>2 DEF RecvOwn
    <3>6. QED
      BY <3>4, <3>5 DEF RecvAt
  <2>13. QED
    BY <1>0, <2>2, <2>7, <2>8, <2>12, RecvGoesOn DEF RecvInv
<1>16. ASSUME UnwrapFailed
       PROVE  IInv'
  <2>1. call.pc = "unwrap"
    BY <1>16 DEF UnwrapFailed, At
  <2>2. call' \in RecvCall /\ call'.pc = "ack" /\ call'.told = "withdraw_to" /\ Kept
    BY <1>5, <1>16 DEF UnwrapFailed, Outcome, Moves
  <2>3. UNCHANGED balances /\ UNCHANGED settings /\ UNCHANGED packets
    BY <1>16 DEF UnwrapFailed
  <2>4. RecvOwn(f, who, d)'
    BY <1>none, <2>1, <2>2, <2>3
  <2>5. QED
    BY <1>7, <2>2, <2>3, <2>4
<1>17. ASSUME Acknowledge
       PROVE  IInv'
  <2>1. Frame' \in FrameType
    BY <1>0, <1>17 DEF Acknowledge, balances, Frame
  <2>2. QED
    BY <1>0, <1>1, <1>17, <2>1, Ends, RecvCallFields DEF Acknowledge
<1>18. ASSUME RecvPanics
       PROVE  IInv'
  <2>1. Frame' \in FrameType
    BY <1>0, <1>1, <1>18, Undone, RecvCallFields DEF RecvPanics
  <2>2. QED
    BY <1>0, <1>18, <2>1, Ends DEF RecvPanics, packets
<1>19. QED
  BY <1>8, <1>9, <1>10, <1>11, <1>12, <1>13, <1>14, <1>15, <1>16, <1>17, <1>18 DEF Receive

-------------------------------------------------------------------------------

LEMMA ClaimCallFields ==
    ASSUME call \in ClaimCall
    PROVE  /\ call # NoCall
           /\ call.kind = "claim"
           /\ call.who \in Accounts
           /\ call.denom \in Denoms
           /\ call.amount \in Nat
           /\ call.left \in SUBSET Validators
           /\ call.totalCoins \in [Denoms -> Nat]
           /\ call.converted \in Nat
           /\ call.frame \in FrameType
BY DEF ClaimCall, NoCall

LEMMA ClaimOthersKept ==
    ASSUME NEW CONSTANT f, NEW CONSTANT who, NEW CONSTANT d, NEW CONSTANT total,
           ClaimOthers(f, who, d, total), OnlyHolder(who, d)
    PROVE  ClaimOthers(f, who, d, total)'
<1>1. \A a \in Accounts \ {who} : Alike(f, a)'
  BY DEF ClaimOthers, OnlyHolder, Alike
<1>2. \A e \in Denoms \ {d} :
          /\ coin'[who][e] = f.coin[who][e] + total[e]
          /\ token'[who][e] = f.token[who][e]
          /\ under'[who][e] = f.under[who][e]
  BY DEF ClaimOthers, OnlyHolder
<1>3. QED
  BY <1>1, <1>2 DEF ClaimOthers

\* What is left to show of a step of a claim that goes on.
LEMMA ClaimGoesOn ==
    ASSUME call' \in ClaimCall, Frame' \in FrameType, ClaimInv',
           TypeOK, UNCHANGED settings, UNCHANGED packets
    PROVE  IInv'
<1>1. TypeOK'
  BY DEF TypeOK, settings, packets
<1>2. call'.kind # "recv"
  BY DEF ClaimCall
<1>3. QED
  BY <1>1, <1>2 DEF IInv, RecvInv

LEMMA ClaimIsClaim ==
    ASSUME TypeOK, call # NoCall, call.kind = "claim"
    PROVE  call \in ClaimCall
BY DEF TypeOK, RecvCall, NoCall

LEMMA ClaimStepInv ==
    ASSUME IInv, call # NoCall, call.kind = "claim", ClaimStep
    PROVE  IInv'
<1>0. /\ TypeOK
      /\ Frame \in FrameType
      /\ coin \in Amounts /\ token \in Amounts /\ under \in Amounts
      /\ rewards \in [Accounts -> [Validators -> [Denoms -> Nat]]]
      /\ withdrawAddr \in [Accounts -> Accounts]
      /\ status \in [Packets -> {"sent", "received", "refused", "refunded"}]
      /\ outcome \in [Packets -> Outcome]
  BY FrameOK DEF IInv, TypeOK
<1>1. call \in ClaimCall
  BY <1>0, ClaimIsClaim
<1>2. SUFFICES ASSUME NEW CONSTANT f \in FrameType, f = call.frame,
                      NEW CONSTANT who \in Accounts, who = call.who,
                      NEW CONSTANT d \in Denoms, d = call.denom,
                      NEW CONSTANT total \in [Denoms -> Nat], total = call.totalCoins,
                      ClaimAt(f, who, d, total)
               PROVE  IInv'
  BY <1>1, ClaimCallFields DEF IInv, ClaimInv
<1>3. f.coin \in Amounts /\ f.token \in Amounts /\ f.under \in Amounts
  BY DEF FrameType
<1>4. /\ coin[who][d] \in Nat /\ token[who][d] \in Nat /\ under[who][d] \in Nat
      /\ f.coin[who][d] \in Nat /\ f.token[who][d] \in Nat /\ f.under[who][d] \in Nat
      /\ total[d] \in Nat
  BY <1>0, <1>3 DEF Amounts
<1> DEFINE Kept == /\ call'.who = who /\ call'.denom = d /\ call'.frame = f
                   /\ call'.totalCoins = total
<1>5. ASSUME NEW pc \in {"unwrap", "return"}, Goto(pc)
      PROVE  call' \in ClaimCall /\ call'.pc = pc /\ Kept
             /\ call'.amount = call.amount /\ call'.converted = call.converted
  <2>1. call' = [kind |-> "claim", pc |-> pc, who |-> call.who, denom |-> call.denom,
                 amount |-> call.amount, left |-> call.left, totalCoins |-> call.totalCoins,
                 converted |-> call.converted, frame |-> call.frame]
    BY <1>1, <1>5 DEF ClaimCall, Goto
  <2>2. QED
    BY <1>1, <1>2, <2>1 DEF ClaimCall
\* Steps that change no balance.
<1>6. ASSUME NEW pc \in {"unwrap", "return"}, Goto(pc),
             UNCHANGED balances, UNCHANGED settings, UNCHANGED packets,
             ClaimOwn(f, who, d, total)'
      PROVE  IInv'
  <2>1. call' \in ClaimCall /\ Kept
    BY <1>5, <1>6
  <2>2. Frame' \in FrameType
    BY <1>0, <1>6 DEF Frame, balances
  <2>3. ClaimInv'
    <3>1. OnlyHolder(who, d)
      BY <1>6 DEF OnlyHolder, balances
    <3>2. ClaimOthers(f, who, d, total)'
      BY <1>2, <3>1, ClaimOthersKept DEF ClaimAt
    <3>3. QED
      BY <1>6, <2>1, <3>2 DEF ClaimInv, ClaimAt
  <2>4. QED
    BY <1>0, <1>6, <2>1, <2>2, <2>3, ClaimGoesOn
<1>7. ASSUME NEW v \in Validators, WithdrawDelegationRewards(v)
      PROVE  IInv'
  <2>1. call.pc = "withdraw" /\ withdrawAddr[who] = who
    BY <1>2, <1>7 DEF WithdrawDelegationRewards, At, ClaimAt, ClaimOwn
  <2>2. PICK r \in [Denoms -> Nat] : r = rewards[who][v]
    BY <1>0
  <2>3. PICK sum \in [Denoms -> Nat] :
            sum = Plus(total, r) /\ \A e \in Denoms : sum[e] = total[e] + r[e]
    BY <2>2, PlusAdds
  <2>4. call' = [kind |-> "claim", pc |-> "withdraw", who |-> call.who, denom |-> call.denom,
                 amount |-> call.amount, left |-> call.left \ {v}, totalCoins |-> sum,
                 converted |-> call.converted, frame |-> call.frame]
    BY <1>1, <1>2, <1>7, <2>1, <2>2, <2>3 DEF WithdrawDelegationRewards, ClaimCall
  <2>5. /\ call' \in ClaimCall /\ call'.pc = "withdraw" /\ call'.who = who /\ call'.denom = d
        /\ call'.frame = f /\ call'.totalCoins = sum /\ call'.converted = call.converted
    BY <1>1, <1>2, <2>3, <2>4 DEF ClaimCall
  <2>6. /\ coin' = [coin EXCEPT ![who] = Plus(coin[who], r)]
        /\ rewards' = [rewards EXCEPT ![who][v] = NoCoins]
        /\ token' = token /\ under' = under
    BY <1>2, <1>7, <2>1, <2>2 DEF WithdrawDelegationRewards
  <2>7. coin[who] \in [Denoms -> Nat]
    BY <1>0 DEF Amounts
  <2>8. /\ Plus(coin[who], r) \in [Denoms -> Nat]
        /\ \A e \in Denoms : Plus(coin[who], r)[e] = coin[who][e] + r[e]
    BY <2>2, <2>7, PlusAdds
  <2>9. /\ coin' \in Amounts
        /\ \A b \in Accounts \ {who} : coin'[b] = coin[b]
        /\ coin'[who] = Plus(coin[who], r)
    BY <1>0, <2>6, <2>8 DEF Amounts
  <2>10. rewards' \in [Accounts -> [Validators -> [Denoms -> Nat]]]
    <3>1. NoCoins \in [Denoms -> Nat]
      BY DEF NoCoins
    <3>2. QED
      BY <1>0, <2>6, <3>1
  <2>11. Frame' \in FrameType
    BY <1>0, <2>6, <2>9, <2>10 DEF Frame, FrameType
  <2>12. UNCHANGED settings /\ UNCHANGED packets /\ withdrawAddr' = withdrawAddr
    BY <1>7 DEF WithdrawDelegationRewards, settings
  <2>13. \A e \in Denoms : coin'[who][e] = f.coin[who][e] + sum[e]
    <3> SUFFICES ASSUME NEW e \in Denoms PROVE coin'[who][e] = f.coin[who][e] + sum[e]
      OBVIOUS
    <3>1. coin[who][e] = f.coin[who][e] + total[e]
      BY <1>2, <2>1 DEF ClaimAt, ClaimOthers, ClaimOwn
    <3>2. f.coin[who][e] \in Nat /\ total[e] \in Nat /\ r[e] \in Nat
      BY <1>3, <2>2 DEF Amounts
    <3>3. coin'[who][e] = coin[who][e] + r[e] /\ sum[e] = total[e] + r[e]
      BY <2>3, <2>8, <2>9, SMTT(60)
    <3>4. QED
      BY <3>1, <3>2, <3>3
  <2>14. ClaimAt(f, who, d, sum)'
    <3>1. \A a \in Accounts \ {who} : Alike(f, a)'
      BY <1>2, <2>6, <2>9 DEF ClaimAt, ClaimOthers, Alike
    <3>2. ClaimOthers(f, who, d, sum)'
      BY <1>2, <2>6, <2>13, <3>1 DEF ClaimAt, ClaimOthers
    <3>3. ClaimOwn(f, who, d, sum)'
      BY <1>2, <2>1, <2>5, <2>6, <2>12, <2>13 DEF ClaimAt, ClaimOwn
    <3>4. QED
      BY <3>2, <3>3 DEF ClaimAt
  <2>15. QED
    BY <1>0, <2>5, <2>11, <2>12, <2>14, ClaimGoesOn DEF ClaimInv
<1>8. ASSUME NothingToConvert
      PROVE  IInv'
  <2>1. call.pc = "withdraw" /\ total[d] = 0 /\ call.converted = 0
    BY <1>2, <1>8 DEF NothingToConvert, AllWithdrawn, At, ClaimAt, ClaimOwn
  <2>2. Goto("return") /\ UNCHANGED balances /\ UNCHANGED settings /\ UNCHANGED packets
    BY <1>8 DEF NothingToConvert
  <2>3. call'.pc = "return" /\ call'.converted = 0
    BY <1>5, <2>1, <2>2
  <2>4. ClaimOwn(f, who, d, total)'
    <3>1. /\ coin[who][d] = f.coin[who][d]
          /\ token[who][d] = f.token[who][d]
          /\ under[who][d] = f.under[who][d]
      BY <1>2, <1>4, <2>1 DEF ClaimAt, ClaimOwn
    <3>2. Gain(f, who, d)' = 0 /\ Loss(f, who, d, 0)' = 0
      BY <1>4, <2>2, <3>1 DEF balances, Gain, Loss, Worth, Frame
    <3>3. UnwrapExact(0, Gain(f, who, d)', Loss(f, who, d, 0)')
      BY <3>2 DEF UnwrapExact
    <3>4. QED
      BY <2>1, <2>2, <2>3, <3>1, <3>3 DEF ClaimOwn, balances
  <2>5. QED
    BY <1>6, <2>2, <2>4
<1>9. ASSUME ConvertCoin
      PROVE  IInv'
  <2>1. call.pc = "withdraw" /\ total[d] > 0 /\ coin[who][d] >= total[d]
    BY <1>2, <1>9 DEF ConvertCoin, AllWithdrawn, At
  <2>2. call' = [kind |-> "claim", pc |-> "convert", who |-> call.who, denom |-> call.denom,
                 amount |-> total[d], left |-> call.left, totalCoins |-> call.totalCoins,
                 converted |-> total[d], frame |-> call.frame]
    BY <1>1, <1>2, <1>9 DEF ConvertCoin, ClaimCall
  <2>3. /\ call' \in ClaimCall /\ call'.pc = "convert" /\ Kept
        /\ call'.amount = total[d] /\ call'.converted = total[d]
    BY <1>1, <1>2, <1>4, <2>2 DEF ClaimCall
  <2>4. coin' = Decrease(coin, who, d, total[d]) /\ token' = Increase(token, who, d, total[d])
        /\ under' = under /\ rewards' = rewards
    BY <1>2, <1>9 DEF ConvertCoin
  <2>5. PICK n \in Nat : n = total[d]
    BY <1>4
  <2>6. coin' = Decrease(coin, who, d, n) /\ token' = Increase(token, who, d, n) /\ coin[who][d] >= n
    BY <2>1, <2>4, <2>5
  <2>7. Differ(coin, coin', who, d) /\ coin'[who][d] = coin[who][d] - n
    BY <1>0, <2>6, Decreases
  <2>8. Differ(token, token', who, d) /\ token'[who][d] = token[who][d] + n
    BY <1>0, <2>6, Increases
  <2>9. Frame' \in FrameType
    <3>1. /\ coin' \in Amounts /\ token' \in Amounts /\ under' \in Amounts
          /\ rewards' \in [Accounts -> [Validators -> [Denoms -> Nat]]]
      BY <1>0, <2>4, <2>7, <2>8 DEF Differ
    <3>2. QED
      BY <3>1 DEF Frame, FrameType
  <2>10. UNCHANGED settings /\ UNCHANGED packets
    BY <1>9, SMTT(60) DEF ConvertCoin
  <2>11. ClaimAt(f, who, d, total)'
    <3>1. /\ coin[who][d] = f.coin[who][d] + n
          /\ token[who][d] = f.token[who][d]
          /\ under[who][d] = f.under[who][d]
      BY <1>2, <2>1, <2>5 DEF ClaimAt, ClaimOwn
    <3>2. under' = under
      BY <2>4
    <3>3. /\ coin'[who][d] = f.coin[who][d]
          /\ token'[who][d] = f.token[who][d] + n
          /\ under'[who][d] = f.under[who][d]
      BY <1>4, <2>7, <2>8, <3>1, <3>2
    <3>4. OnlyHolder(who, d)
      BY <2>7, <2>8, <3>2 DEF Differ, OnlyHolder
    <3>5. ClaimOthers(f, who, d, total)'
      BY <1>2, <3>4, ClaimOthersKept DEF ClaimAt
    <3>6. ClaimOwn(f, who, d, total)'
      BY <2>3, <2>5, <3>3 DEF ClaimOwn
    <3>7. QED
      BY <3>5, <3>6 DEF ClaimAt
  <2>12. QED
    BY <1>0, <2>3, <2>9, <2>10, <2>11, ClaimGoesOn DEF ClaimInv
<1>10. ASSUME call.pc \in {"convert", "unwrap"}, Goto("return"), UNCHANGED balances
       PROVE  ClaimOwn(f, who, d, total)'
  <2>1. /\ call.converted = total[d]
        /\ coin[who][d] = f.coin[who][d]
        /\ token[who][d] = f.token[who][d] + total[d]
        /\ under[who][d] = f.under[who][d]
    BY <1>2, <1>10 DEF ClaimAt, ClaimOwn
  <2>2. call'.pc = "return" /\ call'.converted = total[d]
    BY <1>5, <1>10, <2>1
  <2>3. Gain(f, who, d)' = 0 /\ Loss(f, who, d, total[d])' = 0
    BY <1>4, <1>10, <2>1 DEF Gain, Loss, Worth, Frame, balances
  <2>4. UnwrapExact(total[d], Gain(f, who, d)', Loss(f, who, d, total[d])')
    BY <2>3 DEF UnwrapExact
  <2>5. QED
    BY <1>10, <2>1, <2>2, <2>4 DEF ClaimOwn, balances
<1>11. ASSUME TryUnwrapWrapper
       PROVE  IInv'
  <2>1. call.pc = "convert" /\ UNCHANGED balances /\ UNCHANGED settings /\ UNCHANGED packets
    BY <1>11 DEF TryUnwrapWrapper, At
  <2>2. CASE call.amount >= MinWithdraw /\ Goto("unwrap")
    <3>1. call'.pc = "unwrap" /\ call'.amount = call.amount /\ call'.converted = call.converted
      BY <1>5, <2>2
    <3>2. ClaimOwn(f, who, d, total)'
      BY <1>2, <2>1, <2>2, <3>1 DEF ClaimAt, ClaimOwn, balances
    <3>3. QED
      BY <1>6, <2>1, <2>2, <3>2
  <2>3. CASE Goto("return")
    BY <1>6, <1>10, <2>1, <2>3
  <2>4. QED
    BY <1>11, <2>2, <2>3 DEF TryUnwrapWrapper
<1>12. ASSUME ClaimUnwrapped
       PROVE  IInv'
  <2>1. PICK n \in Nat : n = total[d]
    BY <1>4
  <2>2. /\ call.pc = "unwrap" /\ call.converted = n /\ call.amount = n /\ n >= MinWithdraw
        /\ coin[who][d] = f.coin[who][d]
        /\ token[who][d] = f.token[who][d] + n
        /\ under[who][d] = f.under[who][d]
    BY <1>2, <1>12, <2>1 DEF ClaimUnwrapped, At, ClaimAt, ClaimOwn
  <2>3. call' \in ClaimCall /\ call'.pc = "return" /\ Kept /\ call'.converted = n
    BY <1>5, <1>12, <2>2 DEF ClaimUnwrapped
  <2>4. PICK rest \in Nat : rest = n % MinWithdraw
    BY WholeUnits
  <2>5. rest <= n /\ n - rest >= MinWithdraw /\ n - rest > 0
    BY <2>2, <2>4, WholeUnits, UnwrapAssumption
  <2>6. /\ coin' = coin
        /\ rewards' = rewards
        /\ token' \in Amounts /\ under' \in Amounts
        /\ \A b \in Accounts \ {who} : token'[b] = token[b] /\ under'[b] = under[b]
        /\ \A b \in Accounts, e \in Denoms \ {d} :
               token'[b][e] = token[b][e] /\ under'[b][e] = under[b][e]
        /\ under'[who][d] = under[who][d] + (n - rest)
        /\ \E kept \in {0, rest} : token'[who][d] = token[who][d] - (n - kept)
    BY <1>0, <1>2, <1>12, <2>2, <2>4, Withdrawn DEF ClaimUnwrapped
  <2>7. PICK kept \in {0, rest} : token'[who][d] = token[who][d] - (n - kept)
    BY <2>6
  <2>8. Frame' \in FrameType
    BY <1>0, <2>6 DEF Frame, FrameType
  <2>9. UNCHANGED settings /\ UNCHANGED packets
    BY <1>12 DEF ClaimUnwrapped
  <2>10. Gain(f, who, d)' = n - rest
    BY <1>4, <2>2, <2>5, <2>6 DEF Gain
  <2>11. Loss(f, who, d, n)' = rest - kept
    <3>1. Worth(f, who, d) + n - (coin[who][d] + (token[who][d] - (n - kept))
              + (under[who][d] + (n - rest))) = rest - kept
      BY <1>4, <2>2, <2>4, <2>7 DEF Worth
    <3>2. Worth(Frame, who, d)' = coin[who][d] + (token[who][d] - (n - kept))
              + (under[who][d] + (n - rest))
      BY <2>6, <2>7 DEF Worth, Frame
    <3>3. QED
      BY <3>1, <3>2 DEF Loss, Worth
  <2>12. rest - kept \in 0..rest
    BY <2>7
  <2>13. UnwrapExact(n, n - rest, rest - kept)
    BY <2>4, <2>5, <2>12 DEF UnwrapExact
  <2>14. UnwrapExact(n, Gain(f, who, d)', Loss(f, who, d, n)')
    BY <2>10, <2>11, <2>13
  <2>15. ClaimAt(f, who, d, total)'
    <3>1. OnlyHolder(who, d)
      BY <2>6 DEF OnlyHolder
    <3>2. ClaimOthers(f, who, d, total)'
      BY <1>2, <3>1, ClaimOthersKept DEF ClaimAt
    <3>3. ClaimOwn(f, who, d, total)'
      BY <2>1, <2>2, <2>3, <2>6, <2>14 DEF ClaimOwn
    <3>4. QED
      BY <3>2, <3>3 DEF ClaimAt
  <2>16. QED
    BY <1>0, <2>3, <2>8, <2>9, <2>15, ClaimGoesOn DEF ClaimInv
<1>13. ASSUME ClaimNotUnwrapped
       PROVE  IInv'
  BY <1>6, <1>10, <1>13 DEF ClaimNotUnwrapped, At
<1>14. ASSUME Return
       PROVE  IInv'
  <2>1. Frame' \in FrameType
    BY <1>0, <1>14 DEF Return, balances, Frame
  <2>2. QED
    BY <1>0, <1>14, <2>1, Ends DEF Return, packets
<1>15. ASSUME ClaimFails
       PROVE  IInv'
  <2>1. Frame' \in FrameType
    BY <1>0, <1>15, Undone DEF ClaimFails
  <2>2. QED
    BY <1>0, <1>15, <2>1, Ends DEF ClaimFails, packets
<1>16. QED
  BY <1>7, <1>8, <1>9, <1>11, <1>12, <1>13, <1>14, <1>15 DEF ClaimStep

-------------------------------------------------------------------------------
(* Every step, and the theorems *)

LEMMA BeginsRecv ==
    ASSUME IInv, NEW p \in Packets, RecvPacket(p)
    PROVE  IInv'
<1>0. TypeOK /\ Frame \in FrameType /\ coin \in Amounts /\ token \in Amounts /\ under \in Amounts
  BY FrameOK DEF IInv, TypeOK
<1>1. p \in Packet
  BY UnwrapAssumption
<1>2. call' = [kind |-> "recv", pc |-> "transfer", packet |-> p, who |-> p.to,
               denom |-> p.denom, amount |-> p.amount, given |-> 0, to |-> p.to,
               told |-> "none", frame |-> Frame]
  BY DEF RecvPacket
<1>3. /\ call' \in RecvCall /\ call'.pc = "transfer" /\ call'.given = 0 /\ call'.who = p.to
      /\ call'.to = p.to /\ call'.frame = Frame /\ call'.packet = p /\ call'.denom = p.denom
      /\ call'.told = "none"
  BY <1>0, <1>1, <1>2 DEF RecvCall, Packet, Outcome
<1>4. UNCHANGED balances /\ UNCHANGED settings /\ UNCHANGED packets /\ Frame' = Frame
      /\ status[p] = "sent"
  BY DEF RecvPacket, balances, Frame
<1>5. Frame.coin = coin /\ Frame.token = token /\ Frame.under = under
  BY DEF Frame
<1>6. PICK f : f = Frame
  OBVIOUS
<1>7. RecvAt(f, p.to, p.denom, p.to)'
  BY <1>3, <1>4, <1>5, <1>6 DEF RecvAt, RecvOthers, RecvOwn, Alike, AlikeBut, balances, packets
<1>8. RecvInv'
  BY <1>3, <1>6, <1>7 DEF RecvInv
<1>9. QED
  BY <1>0, <1>3, <1>4, <1>8, RecvGoesOn

LEMMA BeginsClaim ==
    ASSUME IInv, NEW a \in Accounts, NEW validators \in SUBSET Validators, NEW d \in Denoms,
           Claim(a, validators, d)
    PROVE  IInv'
<1>0. TypeOK /\ Frame \in FrameType /\ coin \in Amounts /\ token \in Amounts /\ under \in Amounts
  BY FrameOK DEF IInv, TypeOK
<1>1. NoCoins \in [Denoms -> Nat] /\ \A e \in Denoms : NoCoins[e] = 0
  BY DEF NoCoins
<1>2. call' = [kind |-> "claim", pc |-> "withdraw", who |-> a, denom |-> d, amount |-> 0,
               left |-> validators, totalCoins |-> NoCoins, converted |-> 0, frame |-> Frame]
  BY DEF Claim
<1>3. /\ call' \in ClaimCall /\ call'.pc = "withdraw" /\ call'.who = a /\ call'.denom = d
      /\ call'.totalCoins = NoCoins /\ call'.converted = 0 /\ call'.frame = Frame
  BY <1>0, <1>1, <1>2 DEF ClaimCall
<1>4. UNCHANGED balances /\ UNCHANGED settings /\ UNCHANGED packets /\ Frame' = Frame
      /\ withdrawAddr[a] = a
  BY DEF Claim, balances, Frame
<1>5. Frame.coin = coin /\ Frame.token = token /\ Frame.under = under
  BY DEF Frame
<1>6. PICK f : f = Frame
  OBVIOUS
<1>7. \A e \in Denoms : coin[a][e] = coin[a][e] + NoCoins[e]
  BY <1>0, <1>1 DEF Amounts
<1>8. ClaimAt(f, a, d, NoCoins)'
  BY <1>1, <1>3, <1>4, <1>5, <1>6, <1>7
  DEF ClaimAt, ClaimOthers, ClaimOwn, Alike, balances, settings
<1>9. ClaimInv'
  BY <1>3, <1>6, <1>8 DEF ClaimInv
<1>10. QED
  BY <1>0, <1>3, <1>4, <1>9, ClaimGoesOn

LEMMA OthersInv ==
    ASSUME IInv,
           \/ \E p \in Packets : Timeout(p)
           \/ \E a \in Accounts, v \in Validators, d \in Denoms, n \in RewardAmounts : Accrue(a, v, d, n)
           \/ \E a, b \in Accounts : SetWithdrawAddress(a, b)
           \/ \E d \in Pairs : Toggle(d)
    PROVE  IInv'
<1>0. TypeOK
  BY DEF IInv
<1>1. ASSUME NEW p \in Packets, Timeout(p)
      PROVE  IInv'
  <2>1. TypeOK' /\ call' = call /\ call = NoCall
    BY <1>0, <1>1 DEF Timeout, TypeOK, balances, settings, Frame
  <2>2. QED
    BY <2>1 DEF IInv, ClaimInv, RecvInv
<1>2. ASSUME NEW a \in Accounts, NEW v \in Validators, NEW d \in Denoms, NEW n \in RewardAmounts,
             Accrue(a, v, d, n)
      PROVE  IInv'
  <2>1. call' = call /\ call = NoCall
    BY <1>2 DEF Accrue
  <2>2. n \in Nat /\ rewards \in [Accounts -> [Validators -> [Denoms -> Nat]]]
        /\ earned \in [Denoms -> Nat] /\ changes \in Nat
    BY <1>0, FrameOK, UnwrapAssumption DEF TypeOK
  <2>3. rewards' \in [Accounts -> [Validators -> [Denoms -> Nat]]]
    BY <1>2, <2>2 DEF Accrue
  <2>4. earned' \in [Denoms -> Nat] /\ changes' \in Nat
    BY <1>2, <2>2 DEF Accrue
  <2>5. Frame' \in FrameType
    BY <1>0, <1>2, <2>3 DEF Accrue, TypeOK, Frame, FrameType
  <2>6. TypeOK'
    BY <1>0, <1>2, <2>4, <2>5 DEF Accrue, TypeOK, packets
  <2>7. QED
    BY <2>1, <2>6 DEF IInv, ClaimInv, RecvInv
<1>3. ASSUME NEW a \in Accounts, NEW b \in Accounts, SetWithdrawAddress(a, b)
      PROVE  IInv'
  <2>1. TypeOK' /\ call' = call /\ call = NoCall
    BY <1>0, <1>3 DEF SetWithdrawAddress, TypeOK, balances, packets, Frame
  <2>2. QED
    BY <2>1 DEF IInv, ClaimInv, RecvInv
<1>4. ASSUME NEW d \in Pairs, Toggle(d)
      PROVE  IInv'
  <2>1. TypeOK' /\ call' = call /\ call = NoCall
    BY <1>0, <1>4 DEF Toggle, TypeOK, balances, packets, Frame
  <2>2. QED
    BY <2>1 DEF IInv, ClaimInv, RecvInv
<1>5. QED
  BY <1>1, <1>2, <1>3, <1>4

LEMMA StutterIInv == IInv /\ UNCHANGED vars => IInv'
<1> SUFFICES ASSUME IInv, UNCHANGED vars PROVE IInv'
  OBVIOUS
<1> USE DEF vars, balances, settings, packets
<1>1. TypeOK'
  BY DEF IInv, TypeOK, Frame
<1>2. /\ UNCHANGED <<call, withdrawAddr, status>> /\ UNCHANGED balances
      /\ \A who, d : OnlyHolder(who, d)
      /\ \A f, a, d, n : Gain(f, a, d)' = Gain(f, a, d) /\ Loss(f, a, d, n)' = Loss(f, a, d, n)
  BY DEF OnlyHolder, Gain, Loss, Worth, Frame
<1>3. ClaimInv'
  <2> SUFFICES ASSUME NEW CONSTANT f, NEW CONSTANT who, NEW CONSTANT d, NEW CONSTANT total,
                      ClaimAt(f, who, d, total)
               PROVE  ClaimAt(f, who, d, total)'
    BY <1>2 DEF IInv, ClaimInv
  <2>1. ClaimOthers(f, who, d, total)'
    BY <1>2, ClaimOthersKept DEF ClaimAt
  <2>2. ClaimOwn(f, who, d, total)'
    <3>1. PICK n : n = call.converted
      OBVIOUS
    <3>2. /\ Gain(f, who, d)' = Gain(f, who, d) /\ Loss(f, who, d, n)' = Loss(f, who, d, n)
          /\ coin' = coin /\ token' = token /\ under' = under /\ call' = call
          /\ withdrawAddr' = withdrawAddr
      BY <1>2
    <3>3. QED
      BY <3>1, <3>2 DEF ClaimAt, ClaimOwn
  <2>3. QED
    BY <2>1, <2>2 DEF ClaimAt
<1>4. RecvInv'
  <2> SUFFICES ASSUME call # NoCall, call.kind = "recv",
                      NEW CONSTANT f, f = call.frame,
                      NEW CONSTANT who \in Accounts, who = call.who,
                      NEW CONSTANT d, d = call.denom,
                      NEW CONSTANT to \in Accounts, to = call.to,
                      RecvAt(f, who, d, to)
               PROVE  RecvAt(f, who, d, to)'
    BY <1>2, RecvCallFields DEF IInv, RecvInv, TypeOK, ClaimCall
  <2>1. RecvOthers(f, who, d, to)'
    BY <1>2, OthersKept DEF RecvAt
  <2>2. RecvOwn(f, who, d)'
    <3>1. PICK n : n = call.amount - call.given
      OBVIOUS
    <3>2. /\ Gain(f, who, d)' = Gain(f, who, d) /\ Loss(f, who, d, n)' = Loss(f, who, d, n)
          /\ coin' = coin /\ token' = token /\ under' = under /\ call' = call
      BY <1>2
    <3>3. QED
      BY <3>1, <3>2 DEF RecvAt, RecvOwn
  <2>3. QED
    BY <2>1, <2>2 DEF RecvAt
<1>5. QED
  BY <1>1, <1>3, <1>4 DEF IInv

LEMMA NextIInv == IInv /\ [Next]_vars => IInv'
<1> SUFFICES ASSUME IInv, [Next]_vars PROVE IInv'
  OBVIOUS
<1>1. CASE Next
  BY <1>1, BeginsRecv, BeginsClaim, RecvStepInv, ClaimStepInv, OthersInv DEF Next
<1>2. CASE UNCHANGED vars
  BY <1>2, StutterIInv
<1>3. QED
  BY <1>1, <1>2

THEOREM UnwrapInvariant == Spec => []IInv
BY InitIInv, NextIInv, PTL DEF Spec

\* Balances never go below zero, whatever fails where: a conversion or a withdrawal
\* takes only what is there (unwrap_erc20.go, tx.go).
THEOREM UnwrapTypeCorrect == Spec => []TypeOK
<1>1. IInv => TypeOK
  BY DEF IInv
<1>2. QED
  BY <1>1, UnwrapInvariant, PTL

LEMMA NoCallOdd == NoCall \notin RecvCall /\ NoCall \notin ClaimCall /\ NoCall.kind = "none"
BY DEF NoCall, RecvCall, ClaimCall

\* A claim ends with Return, or undone.
LEMMA ClaimEnds ==
    ASSUME IInv, Next, call # NoCall, call.kind = "claim", call' = NoCall
    PROVE  Return \/ ClaimFails
<1>1. call \in ClaimCall
  BY ClaimIsClaim DEF IInv
<1>2. ClaimStep
  BY <1>1 DEF Next, RecvPacket, Timeout, Claim, Accrue, SetWithdrawAddress, Toggle
<1>3. call'.kind = "none"
  BY NoCallOdd
<1>4. \A v \in Validators : ~WithdrawDelegationRewards(v)
  BY <1>1, <1>3 DEF WithdrawDelegationRewards, ClaimCall
<1>5. \A pc : ~Goto(pc)
  BY <1>1, <1>3 DEF Goto, ClaimCall
<1>6. ~ConvertCoin
  BY <1>1, <1>3 DEF ConvertCoin, ClaimCall
<1>7. QED
  BY <1>2, <1>4, <1>5, <1>6
  DEF ClaimStep, NothingToConvert, TryUnwrapWrapper, ClaimUnwrapped, ClaimNotUnwrapped

LEMMA ClaimEndHolds == IInv /\ [Next]_vars => [ClaimEnd]_vars
<1> SUFFICES ASSUME IInv, Next, call # NoCall, call.kind = "claim", call' = NoCall
             PROVE  ClaimEnd
  BY DEF ClaimEnd
<1>1. Return \/ ClaimFails
  BY ClaimEnds
<1>2. CASE ClaimFails
  <2>1. Frame' = call.frame
    BY <1>2, Undone DEF ClaimFails, IInv
  <2>2. QED
    BY <2>1 DEF ClaimEnd
<1>3. CASE Return
  <2>1. call.pc = "return" /\ UNCHANGED balances
    BY <1>3 DEF Return, At
  <2>2. Frame' = Frame /\ Frame.coin = coin /\ Frame.token = token /\ Frame.under = under
    BY <2>1 DEF balances, Frame
  <2>3. PICK f, g, who, d, total : f = call.frame /\ g = Frame /\ who = call.who /\ d = call.denom
            /\ total = call.totalCoins
    OBVIOUS
  <2>4. ClaimAt(f, who, d, total)
    BY <2>3 DEF IInv, ClaimInv
  <2>5. \A a \in Accounts \ {who} : Same(f, g, a)
    BY <2>2, <2>3, <2>4 DEF ClaimAt, ClaimOthers, Alike, Same, OnlyTokens
  <2>6. /\ call.converted = total[d]
        /\ \A e \in Denoms \ {d} :
               /\ g.coin[who][e] = f.coin[who][e] + total[e]
               /\ g.token[who][e] = f.token[who][e]
               /\ g.under[who][e] = f.under[who][e]
        /\ g.coin[who][d] = f.coin[who][d]
    BY <2>1, <2>2, <2>3, <2>4 DEF ClaimAt, ClaimOthers, ClaimOwn
  <2>7. UnwrapExact(call.converted, g.under[who][d] - f.under[who][d],
                    Worth(f, who, d) + call.converted - Worth(g, who, d))
    BY <2>1, <2>2, <2>3, <2>4 DEF ClaimAt, ClaimOwn, Gain, Loss
  <2>8. QED
    BY <2>2, <2>3, <2>5, <2>6, <2>7 DEF ClaimEnd
<1>4. QED
  BY <1>1, <1>2, <1>3

\* A claim ends with nothing done, or with exactly what it returned, for all rewards,
\* settings and points of failure (claimRewardsAndConvertCoin).
THEOREM UnwrapClaimExact == Spec => ClaimExact
BY UnwrapInvariant, ClaimEndHolds, PTL DEF Spec, ClaimExact

\* A receive ends with its acknowledgement, or undone.
LEMMA ReceiveEnds ==
    ASSUME IInv, Next, call # NoCall, call.kind = "recv", call' = NoCall
    PROVE  Acknowledge \/ InnerRefuses \/ RecvPanics
<1>1. call \in RecvCall
  BY DEF IInv, TypeOK, ClaimCall, RecvCall, NoCall
<1>2. Receive
  BY <1>1 DEF Next, RecvPacket, Timeout, Claim, Accrue, SetWithdrawAddress, Toggle
<1>3. call'.kind = "none"
  BY NoCallOdd
<1>4. \A pc : ~Goto(pc)
  BY <1>1, <1>3 DEF Goto, RecvCall
<1>5. \A pc, told : call' # [call EXCEPT !.pc = pc, !.told = told]
  BY <1>1, <1>3 DEF RecvCall
<1>6. \A to, n : ~Callback(to, n)
  BY <1>1, <1>3 DEF Callback, RecvCall
<1>7. QED
  BY <1>2, <1>4, <1>5, <1>6
  DEF Receive, Transfer, ConvertReceived, LeaveCoins, InnerAccepts, TryUnwrap, Unwrapped,
     UnwrapFailed

LEMMA ReceiveEndHolds == IInv /\ [Next]_vars => [ReceiveEnd]_vars
<1> SUFFICES ASSUME IInv, Next, call # NoCall, call.kind = "recv", call' = NoCall
             PROVE  ReceiveEnd
  BY DEF ReceiveEnd
<1>1. Acknowledge \/ InnerRefuses \/ RecvPanics
  BY ReceiveEnds
<1>2. call \in RecvCall /\ call.packet \in Packets
      /\ status \in [Packets -> {"sent", "received", "refused", "refunded"}]
      /\ outcome \in [Packets -> Outcome]
  BY DEF IInv, TypeOK, ClaimCall, RecvCall, NoCall
<1>3. CASE InnerRefuses \/ RecvPanics
  <2>1. Frame' = call.frame /\ outcome' = outcome
    BY <1>3, Undone DEF InnerRefuses, RecvPanics, IInv, packets
  <2>2. status[call.packet] = "sent"
    BY DEF IInv, RecvInv, RecvAt, RecvOthers, RecvOwn
  <2>3. status'[call.packet] # "received"
    BY <1>2, <1>3, <2>2 DEF InnerRefuses, RecvPanics, packets
  <2>4. QED
    BY <2>1, <2>3 DEF ReceiveEnd
<1>4. CASE Acknowledge
  <2>1. call.pc = "ack" /\ UNCHANGED balances
    BY <1>4 DEF Acknowledge, At
  <2>2. Frame' = Frame /\ Frame.coin = coin /\ Frame.token = token /\ Frame.under = under
    BY <2>1 DEF balances, Frame
  <2>3. status'[call.packet] = "received" /\ outcome'[call.packet] = call.told
    BY <1>2, <1>4 DEF Acknowledge
  <2>4. PICK f, g, who, d, to : f = call.frame /\ g = Frame /\ who = call.who /\ d = call.denom
            /\ to = call.to
    OBVIOUS
  <2>5. RecvAt(f, who, d, to)
    BY <2>4 DEF IInv, RecvInv
  <2>6. \A a \in Accounts \ {who, to} : Same(f, g, a)
    BY <2>2, <2>4, <2>5 DEF RecvAt, RecvOthers, RecvOwn, Alike, Same, OnlyTokens
  <2>7. who \in Accounts /\ d \in Denoms /\ to \in Accounts /\ f \in FrameType /\ g \in FrameType
    BY <1>2, <2>4 DEF RecvCall, IInv, TypeOK
  <2>8. /\ g.coin \in Amounts /\ g.token \in Amounts /\ g.under \in Amounts
        /\ f.coin \in Amounts /\ f.token \in Amounts /\ f.under \in Amounts
    BY <2>7 DEF FrameType
  <2>9. to # who => /\ g.coin[to] = f.coin[to]
                    /\ g.under[to] = f.under[to]
                    /\ \A e \in Denoms \ {d} : g.token[to][e] = f.token[to][e]
                    /\ g.token[to][d] = f.token[to][d] + call.given
    <3> SUFFICES ASSUME to # who
                 PROVE  /\ g.coin[to] = f.coin[to]
                        /\ g.under[to] = f.under[to]
                        /\ \A e \in Denoms \ {d} : g.token[to][e] = f.token[to][e]
                        /\ g.token[to][d] = f.token[to][d] + call.given
      OBVIOUS
    <3>1. \A e \in Denoms : g.coin[to][e] = f.coin[to][e] /\ g.under[to][e] = f.under[to][e]
      BY <2>2, <2>4, <2>5 DEF RecvAt, RecvOthers, RecvOwn, AlikeBut
    <3>2. /\ g.coin[to] \in [Denoms -> Nat] /\ f.coin[to] \in [Denoms -> Nat]
          /\ g.under[to] \in [Denoms -> Nat] /\ f.under[to] \in [Denoms -> Nat]
      BY <2>7, <2>8 DEF Amounts
    <3>3. g.coin[to] = f.coin[to] /\ g.under[to] = f.under[to]
      BY <3>1, <3>2
    <3>4. QED
      BY <2>2, <2>4, <2>5, <3>3 DEF RecvAt, RecvOthers, RecvOwn, AlikeBut
  <2>10. to # who => OnlyTokens(f, g, to, d) /\ g.token[to][d] = f.token[to][d] + call.given
    BY <2>9 DEF OnlyTokens
  <2>11. \A e \in Denoms \ {d} : Worth(g, who, e) = Worth(f, who, e)
    BY <2>2, <2>4, <2>5 DEF RecvAt, RecvOthers, RecvOwn, AlikeBut, Worth
  <2>12. /\ UnwrapExact(call.amount, g.under[who][d] - f.under[who][d],
                        Worth(f, who, d) + (call.amount - call.given) - Worth(g, who, d))
         /\ (g.under[who][d] - f.under[who][d] > 0) <=> call.told = "success"
    BY <2>1, <2>2, <2>4, <2>5 DEF RecvAt, RecvOthers, RecvOwn, Gain, Loss
  <2>13. Worth(f, who, d) + (call.amount - call.given) - Worth(g, who, d)
           = Worth(f, who, d) + call.amount - call.given - Worth(g, who, d)
    BY <1>2, <2>7, <2>8 DEF Worth, Amounts, RecvCall
  <2>14. UnwrapExact(call.amount, g.under[who][d] - f.under[who][d],
                     Worth(f, who, d) + call.amount - call.given - Worth(g, who, d))
    BY <2>12, <2>13
  <2>15. QED
    BY <2>2, <2>3, <2>4, <2>6, <2>10, <2>11, <2>12, <2>14 DEF ReceiveEnd
<1>5. QED
  BY <1>1, <1>3, <1>4

\* What the acknowledgement and the event of a packet say is what its receiver has, for
\* all packets, contracts called back and points of failure (OnRecvPacket, tryUnwrap).
THEOREM UnwrapReceiveExact == Spec => ReceiveExact
BY UnwrapInvariant, ReceiveEndHolds, PTL DEF Spec, ReceiveExact

-------------------------------------------------------------------------------
(* What there is of a denomination *)

\* What a receive has brought so far: nothing before the transfer.
Brought(d) ==
    IF call # NoCall /\ call.kind = "recv" /\ call.pc # "transfer" /\ call.denom = d
        THEN call.amount
        ELSE 0

\* A receive is of the denomination and amount of its packet.
PacketInv ==
    call # NoCall /\ call.kind = "recv" =>
        call.denom = call.packet.denom /\ call.amount = call.packet.amount

\* During a call, what an undone call goes back to is covered, and there is no more
\* than that but what the packet brings.
Covered(frame, d) == Total(frame, d) <= earned[d] + Received(d)

TotalInv ==
    /\ PacketInv
    /\ call = NoCall => \A d \in Denoms : Covered(Frame, d)
    /\ call # NoCall => \A d \in Denoms :
           /\ Covered(call.frame, d)
           /\ Total(Frame, d) <= Total(call.frame, d) + Brought(d)

LEMMA DueType ==
    ASSUME NEW f \in FrameType, NEW a \in Accounts, NEW d \in Denoms
    PROVE  Due(f, a, d) \in Nat
<1> DEFINE r == [v \in Validators |-> f.rewards[a][v][d]]
<1>1. \A v \in Validators : r[v] \in Nat
  BY DEF FrameType
<1>2. SumFunctionOnSet(r, Validators) \in Nat
  <2> HIDE DEF r
  <2>1. QED
    BY <1>1, UnwrapAssumption, SumNat
<1>3. QED
  BY <1>2 DEF Due, SumFunction

LEMMA HeldType ==
    ASSUME NEW f \in FrameType, NEW a \in Accounts, NEW d \in Denoms
    PROVE  Worth(f, a, d) \in Nat /\ Held(f, a, d) \in Nat
<1>1. f.coin[a][d] \in Nat /\ f.token[a][d] \in Nat /\ f.under[a][d] \in Nat
  BY DEF FrameType, Amounts
<1>2. Worth(f, a, d) \in Nat
  BY <1>1 DEF Worth
<1>3. QED
  BY <1>2, DueType DEF Held

LEMMA TotalType ==
    ASSUME NEW f \in FrameType, NEW d \in Denoms
    PROVE  Total(f, d) \in Nat
<1> DEFINE h == [a \in Accounts |-> Held(f, a, d)]
<1>1. \A a \in Accounts : h[a] \in Nat
  BY HeldType
<1>2. SumFunctionOnSet(h, Accounts) \in Nat
  <2> HIDE DEF h
  <2>1. QED
    BY <1>1, UnwrapAssumption, SumNat
<1>3. QED
  BY <1>2 DEF Total, SumFunction

\* The total changes by what one account has more or less.
LEMMA OneHolder ==
    ASSUME NEW f \in FrameType, NEW g \in FrameType, NEW d \in Denoms,
           NEW a \in Accounts, NEW n \in Int,
           \A b \in Accounts \ {a} : Held(g, b, d) = Held(f, b, d),
           Held(g, a, d) = Held(f, a, d) + n
    PROVE  Total(g, d) = Total(f, d) + n
<1> DEFINE h == [b \in Accounts |-> Held(f, b, d)]
           k == [b \in Accounts |-> Held(g, b, d)]
<1>1. \A b \in Accounts : h[b] \in Int
  BY HeldType
<1>2. (\A b \in Accounts \ {a} : k[b] = h[b]) /\ k[a] = h[a] + n
  OBVIOUS
<1>3. SumFunctionOnSet(k, Accounts) = SumFunctionOnSet(h, Accounts) + n
  <2> HIDE DEF h, k
  <2>1. QED
    BY <1>1, <1>2, UnwrapAssumption, SumChanges
<1>4. QED
  BY <1>3 DEF Total, SumFunction

\* And stays what it is when one account has of another.
LEMMA TwoHolders ==
    ASSUME NEW f \in FrameType, NEW g \in FrameType, NEW d \in Denoms,
           NEW a \in Accounts, NEW c \in Accounts, a # c, NEW n \in Int,
           \A b \in Accounts \ {a, c} : Held(g, b, d) = Held(f, b, d),
           Held(g, a, d) = Held(f, a, d) - n,
           Held(g, c, d) = Held(f, c, d) + n
    PROVE  Total(g, d) = Total(f, d)
<1> DEFINE h == [b \in Accounts |-> Held(f, b, d)]
           k == [b \in Accounts |-> Held(g, b, d)]
           m == [b \in Accounts |-> IF b = a THEN h[b] - n ELSE h[b]]
<1>1. \A b \in Accounts : h[b] \in Int
  BY HeldType
<1>2. \A b \in Accounts : m[b] \in Int
  BY <1>1
<1>3. (\A b \in Accounts \ {a} : m[b] = h[b]) /\ m[a] = h[a] + (-n)
  BY <1>1
<1>4. (\A b \in Accounts \ {c} : k[b] = m[b]) /\ k[c] = m[c] + n
  OBVIOUS
<1>5. -n \in Int
  OBVIOUS
<1> HIDE DEF h, k, m
<1>6. SumFunctionOnSet(m, Accounts) = SumFunctionOnSet(h, Accounts) + (-n)
  BY <1>1, <1>3, <1>5, UnwrapAssumption, SumChanges
<1>7. SumFunctionOnSet(k, Accounts) = SumFunctionOnSet(m, Accounts) + n
  BY <1>2, <1>4, UnwrapAssumption, SumChanges
<1>8. SumFunctionOnSet(h, Accounts) \in Int
  BY <1>1, UnwrapAssumption, SumInt
<1>9. SumFunctionOnSet(k, Accounts) = SumFunctionOnSet(h, Accounts)
  BY <1>6, <1>7, <1>8
<1>10. QED
  BY <1>9 DEF Total, SumFunction, h, k

LEMMA SameHeld ==
    ASSUME NEW f, NEW g, NEW a, NEW d, g.rewards[a] = f.rewards[a],
           Worth(g, a, d) = Worth(f, a, d)
    PROVE  Held(g, a, d) = Held(f, a, d)
BY DEF Held, Due

\* A step that changes only what one account has of one denomination, and no rewards.
LEMMA HolderStep ==
    ASSUME Frame \in FrameType, Frame' \in FrameType, rewards' = rewards,
           NEW CONSTANT who \in Accounts, NEW CONSTANT d \in Denoms, OnlyHolder(who, d),
           NEW CONSTANT n \in Int, Worth(Frame, who, d)' = Worth(Frame, who, d) + n
    PROVE  \A e \in Denoms : Total(Frame', e) = Total(Frame, e) + (IF e = d THEN n ELSE 0)
<1>1. PICK f \in FrameType, g \in FrameType : f = Frame /\ g = Frame'
  OBVIOUS
<1>2. /\ f.coin = coin /\ f.token = token /\ f.under = under /\ f.rewards = rewards
      /\ g.coin = coin' /\ g.token = token' /\ g.under = under' /\ g.rewards = rewards
  BY <1>1 DEF Frame
<1>3. \A b \in Accounts, e \in Denoms : b # who \/ e # d => Worth(g, b, e) = Worth(f, b, e)
  BY <1>2 DEF OnlyHolder, Worth
<1>4. \A b \in Accounts, e \in Denoms : b # who \/ e # d => Held(g, b, e) = Held(f, b, e)
  BY <1>2, <1>3, SameHeld
<1>5. Held(g, who, d) = Held(f, who, d) + n
  <2>1. Due(g, who, d) = Due(f, who, d)
    BY <1>2 DEF Due
  <2>2. Worth(g, who, d) = Worth(f, who, d) + n
    BY <1>1 DEF Worth
  <2>3. Due(f, who, d) \in Nat /\ Worth(f, who, d) \in Nat
    BY HeldType, DueType
  <2>4. QED
    BY <2>1, <2>2, <2>3 DEF Held
<1>6. Total(g, d) = Total(f, d) + n
  BY <1>4, <1>5, OneHolder
<1>7. ASSUME NEW e \in Denoms, e # d
      PROVE  Total(g, e) = Total(f, e) + 0
  <2>1. Held(g, who, e) = Held(f, who, e) /\ Held(f, who, e) \in Nat
    BY <1>4, <1>7, HeldType
  <2>2. Held(g, who, e) = Held(f, who, e) + 0
    BY <2>1
  <2>3. QED
    BY <1>4, <1>7, <2>2, OneHolder
<1>8. QED
  BY <1>1, <1>6, <1>7

\* withdrawTo leaves no more than there was: what of the amount is not given in whole
\* units the contract leaves or keeps.
LEMMA WithdrawnStep ==
    ASSUME Frame \in FrameType, Frame' \in FrameType,
           call.who \in Accounts, call.denom \in Denoms, call.amount \in Nat, WithdrawTo
    PROVE  \A e \in Denoms : Total(Frame', e) <= Total(Frame, e)
<1>1. PICK who \in Accounts, d \in Denoms, n \in Nat, rest \in Nat :
          who = call.who /\ d = call.denom /\ n = call.amount /\ rest = n % MinWithdraw
  BY WholeUnits
<1>2. coin \in Amounts /\ token \in Amounts /\ under \in Amounts /\ rest <= n
  BY <1>1, FrameOK, WholeUnits
<1>3. /\ coin' = coin
      /\ rewards' = rewards
      /\ \A b \in Accounts \ {who} : token'[b] = token[b] /\ under'[b] = under[b]
      /\ \A b \in Accounts, e \in Denoms \ {d} :
             token'[b][e] = token[b][e] /\ under'[b][e] = under[b][e]
      /\ under'[who][d] = under[who][d] + (n - rest)
      /\ \E kept \in {0, rest} : token'[who][d] = token[who][d] - (n - kept)
  BY <1>1, <1>2, Withdrawn
<1>4. PICK kept \in {0, rest} : token'[who][d] = token[who][d] - (n - kept)
  BY <1>3
<1>5. PICK more \in Int : more = kept - rest /\ more <= 0
  OBVIOUS
<1>6. OnlyHolder(who, d)
  BY <1>3 DEF OnlyHolder
<1>7. coin[who][d] \in Nat /\ token[who][d] \in Nat /\ under[who][d] \in Nat
  BY <1>2 DEF Amounts
<1>8. coin[who][d] + (token[who][d] - (n - kept)) + (under[who][d] + (n - rest))
         = coin[who][d] + token[who][d] + under[who][d] + more
  BY <1>5, <1>7
<1>9. Worth(Frame, who, d)' = Worth(Frame, who, d) + more
  BY <1>3, <1>4, <1>8 DEF Worth, Frame
<1>10. \A e \in Denoms : Total(Frame', e) = Total(Frame, e) + (IF e = d THEN more ELSE 0)
  BY <1>3, <1>6, <1>9, HolderStep
<1>11. \A e \in Denoms : Total(Frame, e) \in Nat
  BY TotalType
<1>12. QED
  BY <1>5, <1>10, <1>11

\* All validators but one owe an account the same.
OthersOwe(f, g, a, d, v) ==
    \A u \in Validators \ {v} : g.rewards[a][u][d] = f.rewards[a][u][d]

\* What an account is owed changes by what one validator owes it.
LEMMA DueChanges ==
    ASSUME NEW f \in FrameType, NEW g \in FrameType, NEW a \in Accounts, NEW d \in Denoms,
           NEW v \in Validators, NEW n \in Int,
           OthersOwe(f, g, a, d, v),
           g.rewards[a][v][d] = f.rewards[a][v][d] + n
    PROVE  Due(g, a, d) = Due(f, a, d) + n
<1> DEFINE r == [u \in Validators |-> f.rewards[a][u][d]]
           s == [u \in Validators |-> g.rewards[a][u][d]]
<1>1. \A u \in Validators : r[u] \in Int
  BY DEF FrameType
<1>2. (\A u \in Validators \ {v} : s[u] = r[u]) /\ s[v] = r[v] + n
  BY DEF OthersOwe
<1>3. SumFunctionOnSet(s, Validators) = SumFunctionOnSet(r, Validators) + n
  <2> HIDE DEF r, s
  <2>1. QED
    BY <1>1, <1>2, UnwrapAssumption, SumChanges
<1>4. QED
  BY <1>3 DEF Due, SumFunction

\* What is withdrawn of it, the account has.
LEMMA DuePaid ==
    ASSUME NEW f \in FrameType, NEW g \in FrameType, NEW a \in Accounts, NEW d \in Denoms,
           NEW v \in Validators,
           OthersOwe(f, g, a, d, v),
           g.rewards[a][v][d] = 0,
           Worth(g, a, d) = Worth(f, a, d) + f.rewards[a][v][d]
    PROVE  Held(g, a, d) = Held(f, a, d) + 0
<1>1. PICK n \in Nat : n = f.rewards[a][v][d]
  BY DEF FrameType
<1>2. f.rewards[a][v][d] = g.rewards[a][v][d] + n
  BY <1>1
<1>3. OthersOwe(g, f, a, d, v)
  BY DEF OthersOwe
<1>4. Due(f, a, d) = Due(g, a, d) + n
  BY <1>2, <1>3, DueChanges
<1>5. Worth(f, a, d) \in Nat /\ Due(g, a, d) \in Nat
  BY HeldType, DueType
<1>6. QED
  BY <1>1, <1>4, <1>5 DEF Held

\* Rewards withdrawn for oneself: what validators owe less, the account has more.
LEMMA RewardsStep ==
    ASSUME Frame \in FrameType, Frame' \in FrameType,
           NEW CONSTANT who \in Accounts, who = call.who, withdrawAddr[who] = who,
           NEW CONSTANT v \in Validators, WithdrawDelegationRewards(v)
    PROVE  \A e \in Denoms : Total(Frame', e) = Total(Frame, e)
<1>1. PICK f \in FrameType, g \in FrameType : f = Frame /\ g = Frame'
  OBVIOUS
<1>2. PICK r \in [Denoms -> Nat] : r = rewards[who][v]
  BY FrameOK
<1>3. coin \in Amounts /\ rewards \in [Accounts -> [Validators -> [Denoms -> Nat]]]
  BY FrameOK
<1>4. /\ coin' = [coin EXCEPT ![who] = Plus(coin[who], r)]
      /\ rewards' = [rewards EXCEPT ![who][v] = NoCoins]
      /\ token' = token /\ under' = under
  BY <1>2 DEF WithdrawDelegationRewards
<1>5. /\ f.coin = coin /\ f.token = token /\ f.under = under /\ f.rewards = rewards
      /\ g.coin = coin' /\ g.token = token /\ g.under = under /\ g.rewards = rewards'
  BY <1>1, <1>4 DEF Frame
<1>6. \A b \in Accounts \ {who}, e \in Denoms : Held(g, b, e) = Held(f, b, e)
  <2>1. \A b \in Accounts \ {who} : coin'[b] = coin[b] /\ rewards'[b] = rewards[b]
    BY <1>3, <1>4 DEF Amounts
  <2>2. QED
    BY <1>5, <2>1, SameHeld DEF Worth
<1>7. ASSUME NEW e \in Denoms
      PROVE  Held(g, who, e) = Held(f, who, e) + 0
  <2>1. coin'[who][e] = coin[who][e] + r[e]
    <3>1. coin'[who] = Plus(coin[who], r) /\ coin[who] \in [Denoms -> Nat]
      BY <1>3, <1>4 DEF Amounts
    <3>2. QED
      BY <3>1, PlusAdds
  <2>2. Worth(g, who, e) = Worth(f, who, e) + r[e]
    <3>1. /\ coin[who][e] \in Nat /\ token[who][e] \in Nat /\ under[who][e] \in Nat
          /\ r[e] \in Nat
      BY FrameOK DEF Amounts
    <3>2. QED
      BY <1>5, <2>1, <3>1 DEF Worth
  <2>3. OthersOwe(f, g, who, e, v)
    BY <1>3, <1>4, <1>5 DEF OthersOwe
  <2>4. g.rewards[who][v][e] = 0 /\ f.rewards[who][v][e] = r[e]
    BY <1>2, <1>3, <1>4, <1>5 DEF NoCoins
  <2>5. Worth(g, who, e) = Worth(f, who, e) + f.rewards[who][v][e]
    BY <2>2, <2>4
  <2>6. g.rewards[who][v][e] = 0
    BY <2>4
  <2>7. QED
    BY <2>3, <2>5, <2>6, DuePaid
<1>8. \A e \in Denoms : Total(g, e) = Total(f, e) + 0
  BY <1>6, <1>7, OneHolder
<1>9. \A e \in Denoms : Total(f, e) \in Nat
  BY TotalType
<1>10. QED
  BY <1>1, <1>8, <1>9

\* A reward accrues: there is more by what was earned.
LEMMA AccrueStep ==
    ASSUME Frame \in FrameType, Frame' \in FrameType, earned \in [Denoms -> Nat],
           NEW CONSTANT a \in Accounts, NEW CONSTANT v \in Validators,
           NEW CONSTANT d \in Denoms, NEW CONSTANT n \in Nat, Accrue(a, v, d, n)
    PROVE  \A e \in Denoms : Total(Frame', e) - Total(Frame, e) = earned'[e] - earned[e]
<1>1. PICK f \in FrameType, g \in FrameType : f = Frame /\ g = Frame'
  OBVIOUS
<1>2. rewards \in [Accounts -> [Validators -> [Denoms -> Nat]]]
  BY FrameOK
<1>3. /\ rewards' = [rewards EXCEPT ![a][v][d] = @ + n]
      /\ earned' = [earned EXCEPT ![d] = @ + n]
      /\ coin' = coin /\ token' = token /\ under' = under
  BY DEF Accrue
<1>4. /\ f.coin = coin /\ f.token = token /\ f.under = under /\ f.rewards = rewards
      /\ g.coin = coin /\ g.token = token /\ g.under = under /\ g.rewards = rewards'
  BY <1>1, <1>3 DEF Frame
<1>5. \A b \in Accounts, e \in Denoms : Worth(g, b, e) = Worth(f, b, e)
  BY <1>4 DEF Worth
<1>6. \A b \in Accounts \ {a}, e \in Denoms : Held(g, b, e) = Held(f, b, e)
  <2>1. \A b \in Accounts \ {a} : rewards'[b] = rewards[b]
    BY <1>2, <1>3
  <2>2. QED
    BY <1>4, <1>5, <2>1, SameHeld
<1>7. ASSUME NEW e \in Denoms
      PROVE  Total(g, e) - Total(f, e) = earned'[e] - earned[e]
  <2>1. PICK m \in Nat : m = IF e = d THEN n ELSE 0
    OBVIOUS
  <2>2. OthersOwe(f, g, a, e, v) /\ g.rewards[a][v][e] = f.rewards[a][v][e] + m
    BY <1>2, <1>3, <1>4, <2>1 DEF OthersOwe
  <2>3. Due(g, a, e) = Due(f, a, e) + m
    BY <2>2, DueChanges
  <2>4. Held(g, a, e) = Held(f, a, e) + m
    <3>1. Worth(f, a, e) \in Nat /\ Due(f, a, e) \in Nat
      BY HeldType, DueType
    <3>2. QED
      BY <1>5, <2>3, <3>1 DEF Held
  <2>5. Total(g, e) = Total(f, e) + m
    BY <1>6, <2>4, OneHolder
  <2>6. earned'[e] = earned[e] + m
    BY <1>3, <2>1
  <2>7. Total(f, e) \in Nat /\ earned[e] \in Nat
    BY TotalType
  <2>8. QED
    BY <2>5, <2>6, <2>7
<1>8. QED
  BY <1>1, <1>7

LEMMA ReceivedType ==
    ASSUME NEW d \in Denoms
    PROVE  Received(d) \in Nat
<1> DEFINE x == [p \in Packets |-> IF p.denom = d /\ status[p] = "received" THEN p.amount ELSE 0]
<1>1. \A p \in Packets : x[p] \in Nat
  BY UnwrapAssumption DEF Packet
<1>2. SumFunctionOnSet(x, Packets) \in Nat
  <2> HIDE DEF x
  <2>1. QED
    BY <1>1, UnwrapAssumption, SumNat
<1>3. QED
  BY <1>2 DEF Received, SumFunction

\* A packet that is not received, and will not be, counts for nothing.
LEMMA NotReceived ==
    ASSUME status \in [Packets -> {"sent", "received", "refused", "refunded"}],
           NEW CONSTANT p \in Packets, status[p] = "sent",
           NEW CONSTANT s, s # "received", status' = [status EXCEPT ![p] = s]
    PROVE  \A d \in Denoms : Received(d)' = Received(d)
<1>1. \A q \in Packets : status'[q] = "received" <=> status[q] = "received"
  OBVIOUS
<1>2. QED
  BY <1>1 DEF Received

\* One that is received counts for its amount, once.
LEMMA ReceivedOnce ==
    ASSUME status \in [Packets -> {"sent", "received", "refused", "refunded"}],
           NEW CONSTANT p \in Packets, status[p] = "sent",
           status' = [status EXCEPT ![p] = "received"],
           NEW CONSTANT d \in Denoms
    PROVE  Received(d)' = Received(d) + (IF p.denom = d THEN p.amount ELSE 0)
<1> DEFINE x == [q \in Packets |-> IF q.denom = d /\ status[q] = "received" THEN q.amount ELSE 0]
           y == [q \in Packets |-> IF q.denom = d /\ status'[q] = "received" THEN q.amount ELSE 0]
<1>1. PICK n \in Nat : n = IF p.denom = d THEN p.amount ELSE 0
  BY UnwrapAssumption DEF Packet
<1>2. \A q \in Packets : x[q] \in Int
  BY UnwrapAssumption DEF Packet
<1>3. \A q \in Packets \ {p} : y[q] = x[q]
  OBVIOUS
<1>4. x[p] = 0 /\ y[p] = n
  BY <1>1
<1>5. SumFunctionOnSet(y, Packets) = SumFunctionOnSet(x, Packets) + n
  <2>1. y[p] = x[p] + n
    BY <1>4
  <2> HIDE DEF x, y
  <2>2. QED
    BY <1>2, <1>3, <2>1, UnwrapAssumption, SumChanges
<1>6. Received(d)' = SumFunctionOnSet(y, Packets) /\ Received(d) = SumFunctionOnSet(x, Packets)
  BY DEF Received, SumFunction
<1>7. QED
  BY <1>1, <1>5, <1>6

LEMMA InitTotal == Init => TotalInv
<1> SUFFICES ASSUME Init, NEW e \in Denoms
             PROVE  Covered(Frame, e)
  BY DEF TotalInv, PacketInv, Init
<1> DEFINE z == [coin |-> Nothing, token |-> Nothing, under |-> Nothing,
                 rewards |-> [a \in Accounts |-> [v \in Validators |-> NoCoins]]]
<1>1. z \in FrameType /\ \A a \in Accounts : Worth(z, a, e) = 0
  BY DEF FrameType, Amounts, Nothing, NoCoins, Worth
<1>2. \A a \in Accounts, v \in Validators : z.rewards[a][v][e] = 0
  BY DEF NoCoins
<1>3. Frame \in FrameType
  BY InitIInv DEF IInv, TypeOK
<1>4. PICK a \in Accounts, d \in NativeERC20, n \in Holdings :
          token = [Nothing EXCEPT ![a][d] = n] /\ earned = [NoCoins EXCEPT ![d] = n]
  BY DEF Init
<1>5. PICK m \in Nat : m = IF e = d THEN n ELSE 0
  BY UnwrapAssumption
<1>6. d \in Denoms /\ earned[e] = m
  BY <1>4, <1>5, UnwrapAssumption DEF NoCoins
<1>7. /\ Frame.coin = z.coin /\ Frame.under = z.under /\ Frame.rewards = z.rewards
      /\ Frame.token = token
  BY DEF Frame, Init
<1> HIDE DEF z
<1>8. \A b \in Accounts : Due(z, b, e) = 0
  <2> SUFFICES ASSUME NEW b \in Accounts PROVE Due(z, b, e) = 0
    OBVIOUS
  <2> DEFINE r == [v \in Validators |-> z.rewards[b][v][e]]
  <2>1. \A v \in Validators : r[v] = 0
    BY <1>2
  <2>2. SumFunctionOnSet(r, Validators) = 0
    <3> HIDE DEF r
    <3>1. QED
      BY <2>1, UnwrapAssumption, SumZero
  <2>3. QED
    BY <2>2 DEF Due, SumFunction
<1>9. \A b \in Accounts : Held(z, b, e) = 0
  BY <1>1, <1>8 DEF Held
<1>10. Total(z, e) = 0
  <2> DEFINE h == [b \in Accounts |-> Held(z, b, e)]
  <2>1. \A b \in Accounts : h[b] = 0
    BY <1>9
  <2>2. SumFunctionOnSet(h, Accounts) = 0
    <3> HIDE DEF h
    <3>1. QED
      BY <2>1, UnwrapAssumption, SumZero
  <2>3. QED
    BY <2>2 DEF Total, SumFunction
<1>11. \A b \in Accounts \ {a} : Held(Frame, b, e) = Held(z, b, e)
  <2>1. \A b \in Accounts \ {a} : token[b] = z.token[b]
    BY <1>4 DEF Nothing, z
  <2>2. QED
    BY <1>7, <2>1, SameHeld DEF Worth
<1>12. Held(Frame, a, e) = Held(z, a, e) + m
  <2>1. token[a][e] = m /\ z.coin[a][e] = 0 /\ z.under[a][e] = 0
    BY <1>4, <1>5, <1>6 DEF Nothing, NoCoins, z
  <2>2. Worth(Frame, a, e) = m
    BY <1>7, <2>1 DEF Worth
  <2>3. Due(Frame, a, e) = 0
    BY <1>7, <1>8 DEF Due
  <2>4. QED
    BY <1>9, <2>2, <2>3 DEF Held
<1>13. Total(Frame, e) = m
  BY <1>1, <1>3, <1>10, <1>11, <1>12, OneHolder
<1>14. QED
  BY <1>6, <1>13, ReceivedType DEF Covered

\* A step of a call that adds no more than the packet brings with it.
LEMMA CallGoesOn ==
    ASSUME TypeOK, TotalInv, call # NoCall, call' # NoCall, call'.frame = call.frame,
           Frame' \in FrameType, earned' = earned, status' = status, PacketInv',
           \A e \in Denoms : /\ Brought(e) \in Nat /\ Brought(e)' \in Nat
                             /\ Total(Frame', e) + Brought(e) <= Total(Frame, e) + Brought(e)'
    PROVE  TotalInv'
<1> SUFFICES ASSUME NEW CONSTANT e \in Denoms
             PROVE  /\ Covered(call.frame, e)'
                    /\ Total(Frame', e) <= Total(call'.frame, e) + Brought(e)'
  BY DEF TotalInv
<1>1. PICK b \in FrameType : b = call.frame
  BY DEF TypeOK, RecvCall, ClaimCall
<1>2. Covered(b, e) /\ Total(Frame, e) <= Total(b, e) + Brought(e)
  BY <1>1 DEF TotalInv
<1>3. Covered(call.frame, e)'
  <2>1. Received(e)' = Received(e)
    BY DEF Received
  <2>2. QED
    BY <1>1, <1>2, <2>1 DEF Covered
<1>4. Total(b, e) \in Nat /\ Total(Frame, e) \in Nat /\ Total(Frame', e) \in Nat
  BY TotalType DEF TypeOK
<1>5. Total(Frame', e) <= Total(b, e) + Brought(e)'
  BY <1>2, <1>4
<1>6. QED
  BY <1>1, <1>3, <1>5

\* What ends a call undone: nothing came of it.
LEMMA CallUndone ==
    ASSUME TotalInv, call # NoCall, call' = NoCall, Frame' = call.frame, earned' = earned,
           \A e \in Denoms : Received(e)' = Received(e)
    PROVE  TotalInv'
<1>1. \A e \in Denoms : Covered(call.frame, e)
  BY DEF TotalInv
<1>2. \A e \in Denoms : Covered(Frame, e)'
  BY <1>1 DEF Covered
<1>3. QED
  BY <1>2 DEF TotalInv, PacketInv

\* Steps of a receive.
LEMMA RecvTotal ==
    ASSUME IInv, Frame' \in FrameType, TotalInv, Receive
    PROVE  TotalInv'
<1>0. /\ TypeOK
      /\ Frame \in FrameType
      /\ coin \in Amounts /\ token \in Amounts /\ under \in Amounts
      /\ status \in [Packets -> {"sent", "received", "refused", "refunded"}]
  BY FrameOK DEF IInv, TypeOK
<1>1. call \in RecvCall
  BY <1>0, ReceiveIsRecv
<1>2. SUFFICES ASSUME NEW CONSTANT who \in Accounts, who = call.who,
                      NEW CONSTANT d \in Denoms, d = call.denom,
                      NEW CONSTANT n \in Nat, n = call.amount,
                      NEW CONSTANT p \in Packets, p = call.packet,
                      call # NoCall, call.kind = "recv"
               PROVE  TotalInv'
  BY <1>1, RecvCallFields
<1>3. d = p.denom /\ n = p.amount /\ status[p] = "sent"
  BY <1>2 DEF TotalInv, PacketInv, IInv, RecvInv, RecvAt, RecvOthers
<1>4. coin[who][d] \in Nat /\ token[who][d] \in Nat /\ under[who][d] \in Nat
  BY <1>0 DEF Amounts
<1> DEFINE Kept == /\ call' \in RecvCall /\ call'.pc # "transfer" /\ call'.packet = p
                   /\ call'.denom = d /\ call'.amount = n /\ call'.frame = call.frame
<1>5. ASSUME NEW pc \in {"convert", "callback", "unwrap", "ack"}, NEW told \in Outcome,
             Moves(pc, told)
      PROVE  Kept
  <2>1. /\ call' \in RecvCall /\ call'.pc = pc
        /\ call'.packet = call.packet /\ call'.denom = call.denom
        /\ call'.amount = call.amount /\ call'.frame = call.frame
    BY <1>1, <1>5, RecvMoves
  <2>2. QED
    BY <1>2, <2>1
<1>6. ASSUME NEW pc \in {"convert", "callback", "unwrap", "ack"}, Goto(pc)
      PROVE  Kept
  <2>1. Moves(pc, call.told) /\ call.told \in Outcome
    BY <1>1, <1>6, RecvCallFields DEF Moves
  <2> HIDE DEF Kept
  <2>2. QED
    BY <1>5, <2>1
<1>7. ASSUME Kept
      PROVE  /\ call' # NoCall /\ call'.frame = call.frame /\ PacketInv'
             /\ \A e \in Denoms : Brought(e)' = IF e = d THEN n ELSE 0
  <2>1. call' # NoCall /\ call'.kind = "recv"
    BY <1>7 DEF RecvCall, NoCall
  <2>2. QED
    BY <1>3, <1>7, <2>1 DEF PacketInv, Brought
\* What goes on after the transfer may only lose.
<1>8. ASSUME Kept, call.pc # "transfer", earned' = earned, status' = status,
             \A e \in Denoms : Total(Frame', e) <= Total(Frame, e)
      PROVE  TotalInv'
  <2>1. \A e \in Denoms : Brought(e) = IF e = d THEN n ELSE 0
    BY <1>2, <1>8 DEF Brought
  <2>2. \A e \in Denoms : Total(Frame', e) \in Nat /\ Total(Frame, e) \in Nat
    BY <1>0, TotalType
  <2>3. \A e \in Denoms : /\ Brought(e) \in Nat /\ Brought(e)' \in Nat
                          /\ Total(Frame', e) + Brought(e) <= Total(Frame, e) + Brought(e)'
    BY <1>7, <1>8, <2>1, <2>2
  <2>4. QED
    BY <1>0, <1>2, <1>7, <1>8, <2>3, CallGoesOn
<1>9. ASSUME Kept, call.pc # "transfer", UNCHANGED balances, UNCHANGED settings, UNCHANGED packets
      PROVE  TotalInv'
  <2>1. Frame' = Frame /\ earned' = earned /\ status' = status
    BY <1>9 DEF balances, settings, packets, Frame
  <2>2. \A e \in Denoms : Total(Frame, e) <= Total(Frame, e)
    BY <1>0, TotalType
  <2>3. QED
    BY <1>8, <1>9, <2>1, <2>2
<1>10. ASSUME Transfer
       PROVE  TotalInv'
  <2>1. call.pc = "transfer" /\ Kept /\ earned' = earned /\ status' = status
    BY <1>6, <1>10 DEF Transfer, At, settings, packets
  <2>2. /\ coin' = Increase(coin, who, d, n)
        /\ token' = token /\ under' = under /\ rewards' = rewards
    BY <1>2, <1>10 DEF Transfer
  <2>3. Differ(coin, coin', who, d) /\ coin'[who][d] = coin[who][d] + n
    BY <1>0, <2>2, Increases
  <2>4. OnlyHolder(who, d)
    BY <2>2, <2>3 DEF Differ, OnlyHolder
  <2>5. Worth(Frame, who, d)' = Worth(Frame, who, d) + n
    BY <1>4, <2>2, <2>3 DEF Worth, Frame
  <2>6. \A e \in Denoms : Total(Frame', e) = Total(Frame, e) + (IF e = d THEN n ELSE 0)
    BY <1>0, <2>2, <2>4, <2>5, HolderStep
  <2>7. \A e \in Denoms : Brought(e) = 0
    BY <2>1 DEF Brought
  <2>8. \A e \in Denoms : Total(Frame, e) \in Nat
    BY <1>0, TotalType
  <2>9. \A e \in Denoms : /\ Brought(e) \in Nat /\ Brought(e)' \in Nat
                          /\ Total(Frame', e) + Brought(e) <= Total(Frame, e) + Brought(e)'
    BY <1>7, <2>1, <2>6, <2>7, <2>8
  <2>10. QED
    BY <1>0, <1>2, <1>7, <2>1, <2>9, CallGoesOn
<1>11. ASSUME ConvertReceived
       PROVE  TotalInv'
  <2>1. call.pc = "convert" /\ Kept /\ earned' = earned /\ status' = status
    BY <1>6, <1>11 DEF ConvertReceived, At, settings, packets
  <2>2. /\ coin' = Decrease(coin, who, d, n) /\ token' = Increase(token, who, d, n)
        /\ under' = under /\ rewards' = rewards
    BY <1>2, <1>11 DEF ConvertReceived
  <2>3. coin[who][d] >= n
    <3>1. PICK f : f = call.frame
      OBVIOUS
    <3>2. RecvOwn(f, who, d)
      BY <1>2, <3>1 DEF IInv, RecvInv, RecvAt
    <3>3. f.coin[who][d] \in Nat
      BY <1>1, <3>1, RecvCallFields DEF FrameType, Amounts
    <3>4. coin[who][d] = f.coin[who][d] + n
      BY <1>2, <2>1, <3>2 DEF RecvOwn
    <3>5. QED
      BY <3>3, <3>4
  <2>4. Differ(coin, coin', who, d) /\ coin'[who][d] = coin[who][d] - n
    BY <1>0, <2>2, <2>3, Decreases
  <2>5. Differ(token, token', who, d) /\ token'[who][d] = token[who][d] + n
    BY <1>0, <2>2, Increases
  <2>6. OnlyHolder(who, d)
    BY <2>2, <2>4, <2>5 DEF Differ, OnlyHolder
  <2>7. Worth(Frame, who, d)' = Worth(Frame, who, d) + 0
    BY <1>4, <2>2, <2>4, <2>5 DEF Worth, Frame
  <2>8. \A e \in Denoms : Total(Frame', e) = Total(Frame, e) + (IF e = d THEN 0 ELSE 0)
    BY <1>0, <2>2, <2>6, <2>7, HolderStep
  <2>9. \A e \in Denoms : Total(Frame', e) <= Total(Frame, e)
    BY <1>0, <2>8, TotalType
  <2>10. QED
    BY <1>8, <2>1, <2>9
<1>12. ASSUME NEW to \in Accounts, NEW m \in 1..token[call.who][call.denom], Callback(to, m)
       PROVE  TotalInv'
  <2>1. /\ call.pc = "callback" /\ to # who /\ earned' = earned /\ status' = status
        /\ m \in Nat /\ token[who][d] >= m
    BY <1>2, <1>4, <1>12 DEF Callback, At, settings, packets
  <2>2. call' = [kind |-> "recv", pc |-> "callback", packet |-> call.packet,
                 who |-> call.who, denom |-> call.denom, amount |-> call.amount,
                 given |-> m, to |-> to, told |-> call.told, frame |-> call.frame]
    BY <1>1, <1>12, <2>1 DEF Callback, RecvCall
  <2>3. Kept
    BY <1>1, <1>2, <2>1, <2>2 DEF RecvCall
  <2>4. /\ token' = Increase(Decrease(token, who, d, m), to, d, m)
        /\ coin' = coin /\ under' = under /\ rewards' = rewards
    BY <1>2, <1>12 DEF Callback
  <2>5. PICK t : t = Decrease(token, who, d, m)
    OBVIOUS
  <2>6. Differ(token, t, who, d) /\ t[who][d] = token[who][d] - m /\ t \in Amounts
    BY <1>0, <2>1, <2>5, Decreases DEF Differ
  <2>7. Differ(t, token', to, d) /\ token'[to][d] = t[to][d] + m
    BY <2>1, <2>4, <2>5, <2>6, Increases
  <2>8. /\ token'[who][d] = token[who][d] - m
        /\ token'[to][d] = token[to][d] + m
        /\ \A b \in Accounts \ {who, to} : token'[b] = token[b]
        /\ \A b \in Accounts, e \in Denoms \ {d} : token'[b][e] = token[b][e]
    BY <2>1, <2>6, <2>7 DEF Differ
  <2>9. \A e \in Denoms : Total(Frame', e) = Total(Frame, e)
    <3> HIDE DEF Kept
    <3>1. PICK f \in FrameType, g \in FrameType : f = Frame /\ g = Frame'
      BY <1>0
    <3>2. /\ f.coin = coin /\ f.token = token /\ f.under = under /\ f.rewards = rewards
          /\ g.coin = coin /\ g.token = token' /\ g.under = under /\ g.rewards = rewards
      BY <2>4, <3>1 DEF Frame
    <3>3. \A b \in Accounts, e \in Denoms :
              b \notin {who, to} \/ e # d => Held(g, b, e) = Held(f, b, e)
      BY <2>8, <3>2, SameHeld DEF Worth
    <3>4. \A b \in {who, to} : Due(g, b, d) = Due(f, b, d) /\ Due(f, b, d) \in Nat
      BY <3>2, DueType DEF Due
    <3>5. /\ Worth(g, who, d) = Worth(f, who, d) - m /\ Worth(f, who, d) \in Nat
          /\ Worth(g, to, d) = Worth(f, to, d) + m /\ Worth(f, to, d) \in Nat
      <4>1. coin[to][d] \in Nat /\ token[to][d] \in Nat /\ under[to][d] \in Nat
        BY <1>0 DEF Amounts
      <4>2. QED
        BY <1>4, <2>1, <2>8, <3>2, <4>1 DEF Worth
    <3>6. Held(g, who, d) = Held(f, who, d) - m /\ Held(g, to, d) = Held(f, to, d) + m
      BY <2>1, <3>4, <3>5 DEF Held
    <3>7. Total(g, d) = Total(f, d)
      BY <2>1, <3>3, <3>6, TwoHolders
    <3>8. \A e \in Denoms \ {d} : Total(g, e) = Total(f, e)
      <4> SUFFICES ASSUME NEW e \in Denoms \ {d} PROVE Total(g, e) = Total(f, e)
        OBVIOUS
      <4>1. \A b \in Accounts : Held(g, b, e) = Held(f, b, e)
        BY <3>3
      <4>2. QED
        BY <4>1 DEF Total
    <3>9. QED
      BY <3>1, <3>7, <3>8
  <2>10. \A e \in Denoms : Total(Frame', e) <= Total(Frame, e)
    BY <1>0, <2>9, TotalType
  <2>11. QED
    BY <1>8, <2>1, <2>3, <2>10
<1>13. ASSUME \/ LeaveCoins /\ Kept
              \/ InnerAccepts /\ Kept
              \/ TryUnwrap /\ Kept
              \/ UnwrapFailed /\ Kept
       PROVE  TotalInv'
  <2> HIDE DEF Kept
  <2>1. /\ Kept /\ call.pc # "transfer"
        /\ UNCHANGED balances /\ UNCHANGED settings /\ UNCHANGED packets
    BY <1>13 DEF LeaveCoins, InnerAccepts, TryUnwrap, UnwrapFailed, At
  <2>2. QED
    BY <1>9, <2>1
<1>kept. /\ LeaveCoins => Kept
         /\ InnerAccepts => Kept
         /\ TryUnwrap => Kept
         /\ UnwrapFailed => Kept
  <2> HIDE DEF Kept
  <2>1. LeaveCoins \/ InnerAccepts => Kept
    BY <1>6 DEF LeaveCoins, InnerAccepts
  <2>2. UnwrapFailed => Kept
    BY <1>5 DEF UnwrapFailed, Outcome, Moves
  <2>3. TryUnwrap => Kept
    BY <1>5, <1>6 DEF TryUnwrap, Outcome, Moves
  <2>4. QED
    BY <2>1, <2>2, <2>3
<1>14. ASSUME Unwrapped
       PROVE  TotalInv'
  <2>1. call.pc # "transfer" /\ earned' = earned /\ status' = status
    BY <1>14 DEF Unwrapped, At, settings, packets
  <2>2. Kept
    BY <1>5, <1>14 DEF Unwrapped, Outcome, Moves
  <2>3. \A e \in Denoms : Total(Frame', e) <= Total(Frame, e)
    BY <1>0, <1>2, <1>14, WithdrawnStep DEF Unwrapped
  <2>4. QED
    BY <1>8, <2>1, <2>2, <2>3
<1>15. ASSUME InnerRefuses \/ RecvPanics
       PROVE  TotalInv'
  <2>1. call' = NoCall /\ earned' = earned /\ Restore(call.frame)
    BY <1>15 DEF InnerRefuses, RecvPanics, settings
  <2>2. Frame' = call.frame
    BY <1>0, <1>2, <2>1, Undone
  <2>3. \A e \in Denoms : Received(e)' = Received(e)
    <3>1. CASE status' = status
      BY <3>1 DEF Received
    <3>2. CASE status' = [status EXCEPT ![p] = "refused"]
      BY <1>0, <1>3, <3>2, NotReceived
    <3>3. QED
      BY <1>2, <1>15, <3>1, <3>2 DEF InnerRefuses, RecvPanics, packets
  <2>4. QED
    BY <1>2, <2>1, <2>2, <2>3, CallUndone
<1>16. ASSUME Acknowledge
       PROVE  TotalInv'
  <2>1. /\ call.pc = "ack" /\ call' = NoCall /\ Frame' = Frame /\ earned' = earned
        /\ status' = [status EXCEPT ![p] = "received"]
    BY <1>2, <1>16 DEF Acknowledge, At, balances, settings, Frame
  <2>2. \A e \in Denoms : Covered(Frame, e)'
    <3> SUFFICES ASSUME NEW CONSTANT e \in Denoms
                 PROVE  Total(Frame', e) <= earned'[e] + Received(e)'
      BY DEF Covered
    <3>1. PICK m \in Nat : m = IF e = d THEN n ELSE 0
      OBVIOUS
    <3>2. Received(e)' = Received(e) + m
      BY <1>0, <1>3, <2>1, <3>1, ReceivedOnce
    <3>3. Brought(e) = m
      BY <1>2, <2>1, <3>1 DEF Brought
    <3>4. Total(call.frame, e) <= earned[e] + Received(e) /\ Total(Frame, e) <= Total(call.frame, e) + m
      BY <1>2, <3>3 DEF TotalInv, Covered
    <3>5. /\ Total(call.frame, e) \in Nat /\ Total(Frame, e) \in Nat
          /\ earned[e] \in Nat /\ Received(e) \in Nat
      BY <1>0, <1>1, RecvCallFields, TotalType, ReceivedType DEF TypeOK
    <3>6. QED
      BY <2>1, <3>2, <3>4, <3>5
  <2>3. QED
    BY <2>1, <2>2 DEF TotalInv, PacketInv
<1>17. QED
  BY <1>kept, <1>10, <1>11, <1>12, <1>13, <1>14, <1>15, <1>16 DEF Receive

\* Steps of a claim.
LEMMA ClaimTotal ==
    ASSUME IInv, Frame' \in FrameType, TotalInv, call # NoCall, call.kind = "claim", ClaimStep
    PROVE  TotalInv'
<1>0. /\ TypeOK
      /\ Frame \in FrameType
      /\ coin \in Amounts /\ token \in Amounts /\ under \in Amounts
  BY FrameOK DEF IInv, TypeOK
<1>1. call \in ClaimCall
  BY <1>0, ClaimIsClaim
<1>2. SUFFICES ASSUME NEW CONSTANT who \in Accounts, who = call.who,
                      NEW CONSTANT d \in Denoms, d = call.denom,
                      NEW CONSTANT total \in [Denoms -> Nat], total = call.totalCoins
               PROVE  TotalInv'
  BY <1>1, ClaimCallFields
\* A claim may only lose.
<1>3. ASSUME call' \in ClaimCall, call'.frame = call.frame, earned' = earned, status' = status,
             \A e \in Denoms : Total(Frame', e) <= Total(Frame, e)
      PROVE  TotalInv'
  <2>1. call' # NoCall /\ call'.kind = "claim"
    BY <1>3 DEF ClaimCall, NoCall
  <2>2. PacketInv' /\ \A e \in Denoms : Brought(e) = 0 /\ Brought(e)' = 0
    BY <2>1 DEF PacketInv, Brought
  <2>3. \A e \in Denoms : Total(Frame', e) \in Nat /\ Total(Frame, e) \in Nat
    BY <1>0, TotalType
  <2>4. \A e \in Denoms : /\ Brought(e) \in Nat /\ Brought(e)' \in Nat
                          /\ Total(Frame', e) + Brought(e) <= Total(Frame, e) + Brought(e)'
    BY <1>3, <2>2, <2>3
  <2>5. QED
    BY <1>0, <1>3, <2>1, <2>2, <2>4, CallGoesOn
<1>4. ASSUME NEW pc \in {"unwrap", "return"}, Goto(pc)
      PROVE  call' \in ClaimCall /\ call'.frame = call.frame
  <2>1. call' = [kind |-> "claim", pc |-> pc, who |-> call.who, denom |-> call.denom,
                 amount |-> call.amount, left |-> call.left, totalCoins |-> call.totalCoins,
                 converted |-> call.converted, frame |-> call.frame]
    BY <1>1, <1>4 DEF ClaimCall, Goto
  <2>2. QED
    BY <1>1, <2>1 DEF ClaimCall
<1>5. ASSUME NEW v \in Validators, WithdrawDelegationRewards(v)
      PROVE  TotalInv'
  <2>1. call.pc = "withdraw" /\ earned' = earned /\ status' = status
    BY <1>5 DEF WithdrawDelegationRewards, At, settings, packets
  <2>2. withdrawAddr[who] = who
    BY <1>2, <2>1 DEF IInv, ClaimInv, ClaimAt, ClaimOwn
  <2>3. \A e \in Denoms : Total(Frame', e) = Total(Frame, e)
    BY <1>0, <1>2, <1>5, <2>2, RewardsStep
  <2>4. PICK sum \in [Denoms -> Nat] : sum = Plus(total, rewards[who][v])
    BY <1>0, FrameOK, PlusAdds
  <2>5. call' = [kind |-> "claim", pc |-> "withdraw", who |-> call.who, denom |-> call.denom,
                 amount |-> call.amount, left |-> call.left \ {v}, totalCoins |-> sum,
                 converted |-> call.converted, frame |-> call.frame]
    BY <1>1, <1>2, <1>5, <2>1, <2>4 DEF WithdrawDelegationRewards, ClaimCall
  <2>6. call' \in ClaimCall /\ call'.frame = call.frame
    BY <1>1, <2>5 DEF ClaimCall
  <2>7. \A e \in Denoms : Total(Frame', e) <= Total(Frame, e)
    BY <1>0, <2>3, TotalType
  <2>8. QED
    BY <1>3, <2>1, <2>6, <2>7
<1>6. ASSUME NEW pc \in {"unwrap", "return"}, Goto(pc),
             UNCHANGED balances, UNCHANGED settings, UNCHANGED packets
      PROVE  TotalInv'
  <2>1. Frame' = Frame /\ earned' = earned /\ status' = status
    BY <1>6 DEF balances, settings, packets, Frame
  <2>2. \A e \in Denoms : Total(Frame, e) <= Total(Frame, e)
    BY <1>0, TotalType
  <2>3. QED
    BY <1>3, <1>4, <1>6, <2>1, <2>2
<1>7. ASSUME ConvertCoin
      PROVE  TotalInv'
  <2>1. call.pc = "withdraw" /\ earned' = earned /\ status' = status
    BY <1>7 DEF ConvertCoin, AllWithdrawn, At, settings, packets
  <2>2. PICK n \in Nat : n = total[d]
    OBVIOUS
  <2>3. /\ coin' = Decrease(coin, who, d, n) /\ token' = Increase(token, who, d, n)
        /\ under' = under /\ rewards' = rewards /\ coin[who][d] >= n
    BY <1>2, <1>7, <2>2 DEF ConvertCoin
  <2>4. call' = [kind |-> "claim", pc |-> "convert", who |-> call.who, denom |-> call.denom,
                 amount |-> n, left |-> call.left, totalCoins |-> call.totalCoins,
                 converted |-> n, frame |-> call.frame]
    BY <1>1, <1>2, <1>7, <2>2 DEF ConvertCoin, ClaimCall
  <2>5. call' \in ClaimCall /\ call'.frame = call.frame
    BY <1>1, <2>4 DEF ClaimCall
  <2>6. Differ(coin, coin', who, d) /\ coin'[who][d] = coin[who][d] - n
    BY <1>0, <2>3, Decreases
  <2>7. Differ(token, token', who, d) /\ token'[who][d] = token[who][d] + n
    BY <1>0, <2>3, Increases
  <2>8. OnlyHolder(who, d)
    BY <2>3, <2>6, <2>7 DEF Differ, OnlyHolder
  <2>9. Worth(Frame, who, d)' = Worth(Frame, who, d) + 0
    <3>1. coin[who][d] \in Nat /\ token[who][d] \in Nat /\ under[who][d] \in Nat
      BY <1>0 DEF Amounts
    <3>2. QED
      BY <2>3, <2>6, <2>7, <3>1 DEF Worth, Frame
  <2>10. \A e \in Denoms : Total(Frame', e) = Total(Frame, e) + (IF e = d THEN 0 ELSE 0)
    BY <1>0, <2>3, <2>8, <2>9, HolderStep
  <2>11. \A e \in Denoms : Total(Frame', e) <= Total(Frame, e)
    BY <1>0, <2>10, TotalType
  <2>12. QED
    BY <1>3, <2>1, <2>5, <2>11
<1>8. ASSUME ClaimUnwrapped
      PROVE  TotalInv'
  <2>1. Goto("return") /\ earned' = earned /\ status' = status
    BY <1>8 DEF ClaimUnwrapped, settings, packets
  <2>2. \A e \in Denoms : Total(Frame', e) <= Total(Frame, e)
    BY <1>0, <1>1, <1>8, ClaimCallFields, WithdrawnStep DEF ClaimUnwrapped
  <2>3. QED
    BY <1>3, <1>4, <2>1, <2>2
<1>9. ASSUME Return
      PROVE  TotalInv'
  <2>1. call' = NoCall /\ Frame' = Frame /\ earned' = earned /\ status' = status
    BY <1>9 DEF Return, balances, settings, packets, Frame
  <2>2. \A e \in Denoms : Covered(Frame, e)'
    <3> SUFFICES ASSUME NEW CONSTANT e \in Denoms PROVE Covered(Frame, e)'
      OBVIOUS
    <3>1. Total(call.frame, e) <= earned[e] + Received(e) /\ Total(Frame, e) <= Total(call.frame, e) + 0
      BY DEF TotalInv, Covered, Brought
    <3>2. /\ Total(call.frame, e) \in Nat /\ Total(Frame, e) \in Nat
          /\ earned[e] \in Nat /\ Received(e) \in Nat
      BY <1>0, <1>1, ClaimCallFields, TotalType, ReceivedType DEF TypeOK
    <3>3. Received(e)' = Received(e)
      BY <2>1 DEF Received
    <3>4. Total(Frame, e) <= earned[e] + Received(e)
      BY <3>1, <3>2
    <3>5. QED
      BY <2>1, <3>3, <3>4 DEF Covered
  <2>3. QED
    BY <2>1, <2>2 DEF TotalInv, PacketInv
<1>10. ASSUME ClaimFails
       PROVE  TotalInv'
  <2>1. call' = NoCall /\ earned' = earned /\ status' = status /\ Frame' = call.frame
    BY <1>0, <1>10, Undone DEF ClaimFails, settings, packets
  <2>2. \A e \in Denoms : Received(e)' = Received(e)
    BY <2>1 DEF Received
  <2>3. QED
    BY <2>1, <2>2, CallUndone
<1>11. QED
  <2>1. NothingToConvert \/ TryUnwrapWrapper \/ ClaimNotUnwrapped => TotalInv'
    BY <1>6 DEF NothingToConvert, TryUnwrapWrapper, ClaimNotUnwrapped
  <2>2. QED
    BY <1>5, <1>7, <1>8, <1>9, <1>10, <2>1 DEF ClaimStep

\* A call begins with what there is.
LEMMA CallBegins ==
    ASSUME TypeOK, TotalInv, call = NoCall, call' # NoCall, call'.frame = Frame, PacketInv',
           UNCHANGED <<coin, token, under, rewards, earned, status>>,
           \A e \in Denoms : Brought(e)' = 0
    PROVE  TotalInv'
<1>1. Frame' = Frame
  BY DEF Frame
<1>2. PICK f \in FrameType : f = Frame
  BY DEF TypeOK
<1>3. \A e \in Denoms : Covered(f, e)'
  BY <1>2 DEF TotalInv, Covered, Received
<1>4. \A e \in Denoms : Total(f, e) <= Total(f, e) + 0
  BY <1>2, TotalType
<1>5. QED
  BY <1>1, <1>2, <1>3, <1>4 DEF TotalInv

\* What others do between calls.
LEMMA OthersTotal ==
    ASSUME IInv, Frame' \in FrameType, TotalInv,
           \/ \E p \in Packets : Timeout(p)
           \/ \E a \in Accounts, v \in Validators, d \in Denoms, n \in RewardAmounts : Accrue(a, v, d, n)
           \/ \E a, b \in Accounts : SetWithdrawAddress(a, b)
           \/ \E d \in Pairs : Toggle(d)
    PROVE  TotalInv'
<1>0. /\ TypeOK /\ Frame \in FrameType /\ earned \in [Denoms -> Nat]
      /\ status \in [Packets -> {"sent", "received", "refused", "refunded"}]
  BY DEF IInv, TypeOK
<1>1. ASSUME NEW p \in Packets, Timeout(p)
      PROVE  TotalInv'
  <2>1. /\ call = NoCall /\ call' = NoCall /\ Frame' = Frame /\ earned' = earned
        /\ status[p] = "sent" /\ status' = [status EXCEPT ![p] = "refunded"]
    BY <1>1 DEF Timeout, balances, settings, Frame
  <2>2. \A e \in Denoms : Received(e)' = Received(e)
    BY <1>0, <2>1, NotReceived
  <2>3. QED
    BY <2>1, <2>2 DEF TotalInv, PacketInv, Covered
<1>2. ASSUME NEW a \in Accounts, NEW v \in Validators, NEW d \in Denoms, NEW n \in RewardAmounts,
             Accrue(a, v, d, n)
      PROVE  TotalInv'
  <2>1. call = NoCall /\ call' = NoCall /\ status' = status
    BY <1>2 DEF Accrue, packets
  <2>2. PICK m \in Nat : m = n
    BY UnwrapAssumption
  <2>3. \A e \in Denoms : Total(Frame', e) - Total(Frame, e) = earned'[e] - earned[e]
    BY <1>0, <1>2, <2>2, AccrueStep
  <2>4. \A e \in Denoms : Received(e)' = Received(e)
    BY <2>1 DEF Received
  <2>5. earned' \in [Denoms -> Nat]
    BY <1>0, <1>2, <2>2 DEF Accrue
  <2>6. \A e \in Denoms : Total(Frame', e) <= earned'[e] + Received(e)
    <3> SUFFICES ASSUME NEW e \in Denoms PROVE Total(Frame', e) <= earned'[e] + Received(e)
      OBVIOUS
    <3>1. Total(Frame, e) <= earned[e] + Received(e)
      BY <2>1 DEF TotalInv, Covered
    <3>2. /\ Total(Frame, e) \in Nat /\ Total(Frame', e) \in Nat /\ Received(e) \in Nat
          /\ earned[e] \in Nat /\ earned'[e] \in Nat
      BY <1>0, <2>5, TotalType, ReceivedType
    <3>3. QED
      BY <2>3, <3>1, <3>2
  <2>7. \A e \in Denoms : Covered(Frame, e)'
    BY <2>4, <2>6 DEF Covered
  <2>8. QED
    BY <2>1, <2>7 DEF TotalInv, PacketInv
<1>3. ASSUME \/ \E a, b \in Accounts : SetWithdrawAddress(a, b)
             \/ \E d \in Pairs : Toggle(d)
      PROVE  TotalInv'
  <2>1. call = NoCall /\ call' = NoCall /\ Frame' = Frame /\ earned' = earned /\ status' = status
    BY <1>3 DEF SetWithdrawAddress, Toggle, balances, packets, Frame
  <2>2. \A e \in Denoms : Covered(Frame, e)'
    BY <2>1 DEF TotalInv, Covered, Received
  <2>3. QED
    BY <2>1, <2>2 DEF TotalInv, PacketInv
<1>4. QED
  BY <1>1, <1>2, <1>3

LEMMA NextTotal == IInv /\ IInv' /\ TotalInv /\ [Next]_vars => TotalInv'
<1> SUFFICES ASSUME IInv, IInv', TotalInv, [Next]_vars PROVE TotalInv'
  OBVIOUS
<1>0. Frame \in FrameType /\ Frame' \in FrameType /\ TypeOK
  BY DEF IInv, TypeOK
<1>1. ASSUME NEW p \in Packets, RecvPacket(p)
      PROVE  TotalInv'
  <2>1. call' = [kind |-> "recv", pc |-> "transfer", packet |-> p, who |-> p.to,
                 denom |-> p.denom, amount |-> p.amount, given |-> 0, to |-> p.to,
                 told |-> "none", frame |-> Frame]
    BY <1>1 DEF RecvPacket
  <2>2. call' # NoCall /\ call'.frame = Frame /\ PacketInv' /\ \A e \in Denoms : Brought(e)' = 0
    BY <2>1 DEF NoCall, PacketInv, Brought
  <2>3. call = NoCall /\ UNCHANGED <<coin, token, under, rewards, earned, status>>
    BY <1>1 DEF RecvPacket, balances, settings, packets
  <2>4. QED
    BY <1>0, <2>2, <2>3, CallBegins
<1>2. ASSUME NEW a \in Accounts, NEW validators \in SUBSET Validators, NEW d \in Denoms,
             Claim(a, validators, d)
      PROVE  TotalInv'
  <2>1. call' = [kind |-> "claim", pc |-> "withdraw", who |-> a, denom |-> d, amount |-> 0,
                 left |-> validators, totalCoins |-> NoCoins, converted |-> 0, frame |-> Frame]
    BY <1>2 DEF Claim
  <2>2. call' # NoCall /\ call'.frame = Frame /\ PacketInv' /\ \A e \in Denoms : Brought(e)' = 0
    BY <2>1 DEF NoCall, PacketInv, Brought
  <2>3. call = NoCall /\ UNCHANGED <<coin, token, under, rewards, earned, status>>
    BY <1>2 DEF Claim, balances, settings, packets
  <2>4. QED
    BY <1>0, <2>2, <2>3, CallBegins
<1>3. CASE UNCHANGED vars
  <2>1. Frame' = Frame /\ call' = call /\ earned' = earned /\ status' = status
    BY <1>3 DEF vars, balances, settings, packets, Frame
  <2>2. \A e : Received(e)' = Received(e) /\ Brought(e)' = Brought(e)
    BY <2>1 DEF Received, Brought
  <2>3. PacketInv'
    BY <2>1 DEF TotalInv, PacketInv
  <2>4. \A f, e : Covered(f, e) => Total(f, e) <= earned'[e] + Received(e)'
    BY <2>1, <2>2 DEF Covered
  <2>5. QED
    BY <2>1, <2>2, <2>3, <2>4 DEF TotalInv, Covered
<1>4. CASE Next
  BY <1>0, <1>1, <1>2, <1>4, RecvTotal, ClaimTotal, OthersTotal DEF Next
<1>5. QED
  BY <1>3, <1>4

\* Of every denomination there is no more than was there, was earned, or came with
\* packets acknowledged as a success, for any number of accounts, validators and
\* packets, and wherever a receive or a claim fails: what a relayer retries after a
\* panic is not paid twice, and an unwrap that reverts gives nothing (OnRecvPacket,
\* claimRewardsAndConvertCoin).
THEOREM UnwrapNothingCreated == Spec => []NothingCreated
<1>1. TotalInv => NothingCreated
  BY DEF TotalInv, Covered, NothingCreated
<1>2. QED
  BY <1>1, InitTotal, NextTotal, UnwrapInvariant, PTL DEF Spec

-------------------------------------------------------------------------------
(* Every call is one settlement *)

\* What a claim has withdrawn so far, and from whom: all that a validator owed, or
\* nothing of it.
Withdrew(f, who, total) ==
    /\ \A a \in Accounts \ {who} : rewards[a] = f.rewards[a]
    /\ \A v \in Validators : rewards[who][v] \in {f.rewards[who][v], NoCoins}
    /\ \A d \in Denoms : Due(Frame, who, d) + total[d] = Due(f, who, d)

\* A receive leaves rewards alone and is for the receiver of its packet; a claim has
\* withdrawn what it says.
SettleInv ==
    call # NoCall =>
        /\ call.kind = "recv" => rewards = call.frame.rewards /\ call.who = call.packet.to
        /\ call.kind = "claim" => Withdrew(call.frame, call.who, call.totalCoins)

\* A call that goes on keeps what it began with.
Continues(k) == call'.kind = k /\ call'.who = call.who /\ call'.frame = call.frame

LEMMA RecvContinues ==
    ASSUME TypeOK, call \in RecvCall, Receive, call' # NoCall
    PROVE  /\ Continues("recv") /\ call'.packet = call.packet
           /\ rewards' = rewards /\ status' = status
<1>1. ASSUME NEW pc, Goto(pc)
      PROVE  Continues("recv") /\ call'.packet = call.packet
  BY <1>1 DEF Goto, RecvCall, Continues
<1>2. ASSUME NEW pc, NEW told, call' = [call EXCEPT !.pc = pc, !.told = told]
      PROVE  Continues("recv") /\ call'.packet = call.packet
  BY <1>2 DEF RecvCall, Continues
<1>3. ASSUME NEW to, NEW n, Callback(to, n)
      PROVE  Continues("recv") /\ call'.packet = call.packet
  BY <1>3 DEF Callback, RecvCall, Continues
<1>4. Continues("recv") /\ call'.packet = call.packet
  BY <1>1, <1>2, <1>3 DEF Receive, Transfer, ConvertReceived, LeaveCoins, InnerRefuses,
     InnerAccepts, TryUnwrap, Unwrapped, UnwrapFailed, Acknowledge, RecvPanics
<1>5. rewards' = rewards /\ status' = status
  BY DEF Receive, Transfer, ConvertReceived, LeaveCoins, Callback, InnerRefuses,
     InnerAccepts, TryUnwrap, Unwrapped, UnwrapFailed, Acknowledge, RecvPanics, WithdrawTo,
     balances, packets
<1>6. QED
  BY <1>4, <1>5

LEMMA ClaimContinues ==
    ASSUME TypeOK, call \in ClaimCall, ClaimStep, call' # NoCall
    PROVE  /\ Continues("claim") /\ status' = status
           /\ \/ call'.totalCoins = call.totalCoins /\ rewards' = rewards
              \/ \E v \in Validators : WithdrawDelegationRewards(v)
<1>1. ASSUME NEW pc, Goto(pc)
      PROVE  Continues("claim") /\ call'.totalCoins = call.totalCoins
  BY <1>1 DEF Goto, ClaimCall, Continues
<1>2. ASSUME ConvertCoin
      PROVE  Continues("claim") /\ call'.totalCoins = call.totalCoins
  BY <1>2 DEF ConvertCoin, ClaimCall, Continues
<1>3. ASSUME NEW v \in Validators, WithdrawDelegationRewards(v)
      PROVE  Continues("claim")
  BY <1>3 DEF WithdrawDelegationRewards, ClaimCall, Continues
<1>4. status' = status
  BY DEF ClaimStep, WithdrawDelegationRewards, NothingToConvert, ConvertCoin, TryUnwrapWrapper,
     ClaimUnwrapped, ClaimNotUnwrapped, Return, ClaimFails, packets
<1>5. CASE \E v \in Validators : WithdrawDelegationRewards(v)
  BY <1>3, <1>4, <1>5
<1>6. CASE ~\E v \in Validators : WithdrawDelegationRewards(v)
  <2>1. NothingToConvert \/ ConvertCoin \/ TryUnwrapWrapper \/ ClaimUnwrapped \/ ClaimNotUnwrapped
    BY <1>6 DEF ClaimStep, Return, ClaimFails
  <2>2. rewards' = rewards
    BY <2>1 DEF NothingToConvert, ConvertCoin, TryUnwrapWrapper, ClaimUnwrapped,
       ClaimNotUnwrapped, WithdrawTo, balances
  <2>3. Continues("claim") /\ call'.totalCoins = call.totalCoins
    BY <1>1, <1>2, <2>1 DEF NothingToConvert, TryUnwrapWrapper, ClaimUnwrapped, ClaimNotUnwrapped
  <2>4. QED
    BY <1>4, <2>2, <2>3
<1>7. QED
  BY <1>5, <1>6

\* One turn of the loop: what the validator owed is in the total.
LEMMA WithdrawsAll ==
    ASSUME Frame \in FrameType, Frame' \in FrameType,
           NEW CONSTANT f \in FrameType, NEW CONSTANT who \in Accounts, who = call.who,
           NEW CONSTANT total \in [Denoms -> Nat], total = call.totalCoins,
           call \in ClaimCall, Withdrew(f, who, total),
           NEW CONSTANT v \in Validators, WithdrawDelegationRewards(v)
    PROVE  \E sum : call'.totalCoins = sum /\ Withdrew(f, who, sum)'
<1>1. PICK r \in [Denoms -> Nat] : r = rewards[who][v]
  BY FrameOK
<1>2. PICK g \in FrameType, h \in FrameType : g = Frame /\ h = Frame'
  OBVIOUS
<1>3. PICK sum \in [Denoms -> Nat] : sum = Plus(total, r) /\ \A d \in Denoms : sum[d] = total[d] + r[d]
  BY PlusAdds
<1>4. rewards \in [Accounts -> [Validators -> [Denoms -> Nat]]]
  BY FrameOK
<1>5. rewards' = [rewards EXCEPT ![who][v] = NoCoins] /\ call'.totalCoins = sum
  BY <1>1, <1>3 DEF WithdrawDelegationRewards, ClaimCall
<1>6. g.rewards = rewards /\ h.rewards = rewards'
  BY <1>2 DEF Frame
<1>7. /\ \A a \in Accounts \ {who} : rewards'[a] = f.rewards[a]
      /\ \A u \in Validators : rewards'[who][u] \in {f.rewards[who][u], NoCoins}
  BY <1>4, <1>5 DEF Withdrew
<1>8. ASSUME NEW d \in Denoms
      PROVE  Due(h, who, d) + sum[d] = Due(f, who, d)
  <2>1. PICK n \in Nat : n = r[d]
    OBVIOUS
  <2>2. OthersOwe(h, g, who, d, v) /\ g.rewards[who][v][d] = h.rewards[who][v][d] + n
    BY <1>1, <1>4, <1>5, <1>6, <2>1 DEF OthersOwe, NoCoins
  <2>3. Due(g, who, d) = Due(h, who, d) + n
    BY <2>2, DueChanges
  <2>4. Due(g, who, d) + total[d] = Due(f, who, d)
    BY <1>2 DEF Withdrew
  <2>5. Due(h, who, d) \in Nat /\ total[d] \in Nat /\ sum[d] = total[d] + n
    BY <1>3, <2>1, DueType
  <2>6. QED
    BY <2>3, <2>4, <2>5
<1>9. Withdrew(f, who, sum)'
  BY <1>2, <1>7, <1>8 DEF Withdrew
<1>10. QED
  BY <1>5, <1>9

LEMMA NextSettle == IInv /\ IInv' /\ SettleInv /\ [Next]_vars => SettleInv'
<1> SUFFICES ASSUME IInv, IInv', SettleInv, [Next]_vars, call' # NoCall PROVE SettleInv'
  BY DEF SettleInv
<1>0. TypeOK /\ TypeOK' /\ Frame \in FrameType /\ Frame' \in FrameType
  BY DEF IInv, TypeOK
<1>1. ASSUME NEW p \in Packets, RecvPacket(p)
      PROVE  SettleInv'
  <2>1. call' = [kind |-> "recv", pc |-> "transfer", packet |-> p, who |-> p.to,
                 denom |-> p.denom, amount |-> p.amount, given |-> 0, to |-> p.to,
                 told |-> "none", frame |-> Frame]
    BY <1>1 DEF RecvPacket
  <2>2. rewards' = rewards /\ Frame.rewards = rewards
    BY <1>1 DEF RecvPacket, balances, Frame
  <2>3. QED
    BY <2>1, <2>2 DEF SettleInv
<1>2. ASSUME NEW a \in Accounts, NEW validators \in SUBSET Validators, NEW d \in Denoms,
             Claim(a, validators, d)
      PROVE  SettleInv'
  <2>1. call' = [kind |-> "claim", pc |-> "withdraw", who |-> a, denom |-> d, amount |-> 0,
                 left |-> validators, totalCoins |-> NoCoins, converted |-> 0, frame |-> Frame]
    BY <1>2 DEF Claim
  <2>2. PICK f \in FrameType : f = Frame
    BY <1>0
  <2>3. rewards' = f.rewards /\ Frame' = f
    BY <1>2, <2>2 DEF Claim, balances, Frame
  <2>4. \A e \in Denoms : Due(f, a, e) + NoCoins[e] = Due(f, a, e)
    BY DueType DEF NoCoins
  <2>5. Withdrew(f, a, NoCoins)'
    BY <2>3, <2>4 DEF Withdrew
  <2>6. call'.kind = "claim" /\ call'.who = a /\ call'.totalCoins = NoCoins /\ call'.frame = f
    BY <2>1, <2>2
  <2>7. QED
    BY <2>5, <2>6 DEF SettleInv
<1>3. CASE call # NoCall /\ call.kind = "recv" /\ Receive
  <2>1. call \in RecvCall
    BY <1>0, <1>3, ReceiveIsRecv
  <2>2. /\ Continues("recv") /\ call'.packet = call.packet
        /\ rewards' = rewards /\ status' = status
    BY <1>0, <1>3, <2>1, RecvContinues
  <2>3. QED
    BY <1>3, <2>2 DEF SettleInv, Continues
<1>4. CASE call # NoCall /\ call.kind = "claim" /\ ClaimStep
  <2>1. call \in ClaimCall
    BY <1>0, <1>4, ClaimIsClaim
  <2>2. PICK f \in FrameType, who \in Accounts, total \in [Denoms -> Nat] :
            f = call.frame /\ who = call.who /\ total = call.totalCoins
    BY <2>1, ClaimCallFields
  <2>3. Withdrew(f, who, total)
    BY <1>4, <2>2 DEF SettleInv
  <2>4. /\ Continues("claim")
        /\ \/ call'.totalCoins = call.totalCoins /\ rewards' = rewards
           \/ \E v \in Validators : WithdrawDelegationRewards(v)
    BY <1>0, <1>4, <2>1, ClaimContinues
  <2>5. CASE call'.totalCoins = call.totalCoins /\ rewards' = rewards
    <3>1. \A d : Due(Frame, who, d)' = Due(Frame, who, d)
      BY <2>5 DEF Due, Frame
    <3>2. Withdrew(f, who, total)'
      BY <2>3, <2>5, <3>1 DEF Withdrew
    <3>3. QED
      BY <2>2, <2>4, <2>5, <3>2 DEF SettleInv, Continues
  <2>6. ASSUME NEW v \in Validators, WithdrawDelegationRewards(v)
        PROVE  SettleInv'
    <3>1. PICK sum : call'.totalCoins = sum /\ Withdrew(f, who, sum)'
      BY <1>0, <2>1, <2>2, <2>3, <2>6, WithdrawsAll
    <3>2. QED
      BY <2>2, <2>4, <3>1 DEF SettleInv, Continues
  <2>7. QED
    BY <2>4, <2>5, <2>6
<1>5. CASE UNCHANGED vars
  <2>1. Frame' = Frame /\ call' = call /\ rewards' = rewards
    BY <1>5 DEF vars, balances, Frame
  <2>2. \A f, a, t : Withdrew(f, a, t) =>
            /\ \A b \in Accounts \ {a} : rewards'[b] = f.rewards[b]
            /\ \A v \in Validators : rewards'[a][v] \in {f.rewards[a][v], NoCoins}
            /\ \A d \in Denoms : Due(Frame', a, d) + t[d] = Due(f, a, d)
    BY <2>1 DEF Withdrew
  <2>3. QED
    BY <2>1, <2>2 DEF SettleInv, Withdrew
<1>6. \/ \E p \in Packets : Timeout(p)
      \/ \E a \in Accounts, v \in Validators, d \in Denoms, n \in RewardAmounts : Accrue(a, v, d, n)
      \/ \E a, b \in Accounts : SetWithdrawAddress(a, b)
      \/ \E d \in Pairs : Toggle(d)
      => FALSE
  BY DEF Timeout, Accrue, SetWithdrawAddress, Toggle
<1>7. QED
  BY <1>1, <1>2, <1>3, <1>4, <1>5, <1>6 DEF Next

\* The view of Settlement, of the balances f before and g after a step.
WorthIn(f) == [a \in Accounts |-> [d \in Denoms |-> Worth(f, a, d)]]

LEMMA Viewed ==
    ASSUME NEW CONSTANT f, NEW CONSTANT g, Seen = f, Seen' = g
    PROVE  /\ wealth = WorthIn(f) /\ wealth' = WorthIn(g)
           /\ owed = f.rewards /\ owed' = g.rewards
           /\ \A a \in Accounts, d \in Denoms :
                  Promise!More(a, d) = Worth(g, a, d) - Worth(f, a, d)
<1>1. wealth = WorthIn(f) /\ wealth' = WorthIn(g)
  BY DEF wealth, WorthIn
<1>2. owed = f.rewards /\ owed' = g.rewards
  BY DEF owed
<1>3. \A a \in Accounts, d \in Denoms : Promise!More(a, d) = Worth(g, a, d) - Worth(f, a, d)
  BY <1>1 DEF Promise!More, WorthIn
<1>4. QED
  BY <1>1, <1>2, <1>3

LEMMA SameWorth ==
    ASSUME NEW CONSTANT f, NEW CONSTANT g, NEW CONSTANT a \in Accounts,
           \A d \in Denoms : Worth(g, a, d) = Worth(f, a, d)
    PROVE  WorthIn(g)[a] = WorthIn(f)[a]
BY DEF WorthIn

LEMMA NothingSeen ==
    ASSUME Seen' = Seen, status' = status
    PROVE  UNCHANGED Promise!vars
BY DEF Promise!vars, wealth, owed

\* An unwrap that is exact loses no more than what is left of the amount.
LEMMA ExactIsDust ==
    ASSUME NEW amount \in Nat, NEW gain, NEW loss, UnwrapExact(amount, gain, loss)
    PROVE  loss \in Promise!Dust(amount)
<1>1. PICK r \in Nat : r = amount % MinWithdraw
  BY UnwrapAssumption
<1>2. loss \in 0..r
  BY <1>1 DEF UnwrapExact
<1>3. QED
  BY <1>1, <1>2 DEF Promise!Dust

\* All that changes hands is of denomination d: the account to has n more of it, if it
\* is not the receiver itself.
Shared(f, g, who, d, to, n) ==
    /\ n = 0 <=> to = who
    /\ \A a \in Accounts \ {who, to}, e \in Denoms : Worth(g, a, e) = Worth(f, a, e)
    /\ \A a \in {who, to}, e \in Denoms \ {d} : Worth(g, a, e) = Worth(f, a, e)
    /\ to # who => Worth(g, to, d) = Worth(f, to, d) + n

LEMMA ReceiveSettles ==
    ASSUME NEW CONSTANT f \in FrameType, NEW CONSTANT g \in FrameType, Seen = f, Seen' = g,
           NEW CONSTANT p \in Packets, NEW CONSTANT to \in Accounts, NEW CONSTANT given \in Nat,
           status[p] = "sent", status' = [status EXCEPT ![p] = "received"],
           NEW CONSTANT who \in Accounts, NEW CONSTANT d \in Denoms, NEW CONSTANT n \in Nat,
           who = p.to /\ d = p.denom /\ n = p.amount,
           g.rewards = f.rewards, Shared(f, g, who, d, to, given),
           Worth(f, who, d) + n - given - Worth(g, who, d) \in Promise!Dust(n)
    PROVE  Promise!Receive(p)
<1>1. /\ given = 0 <=> to = who
      /\ \A a \in Accounts \ {who, to}, e \in Denoms : Worth(g, a, e) = Worth(f, a, e)
      /\ \A a \in {who, to}, e \in Denoms \ {d} : Worth(g, a, e) = Worth(f, a, e)
      /\ to # who => Worth(g, to, d) = Worth(f, to, d) + given
  BY DEF Shared
<1>2. \A a \in Accounts \ {who, to} : wealth'[a] = wealth[a]
  BY <1>1, SameWorth, Viewed
<1>3. \A a \in {who, to}, e \in Denoms \ {d} : Promise!More(a, e) = 0
  <2>1. \A a \in Accounts, e \in Denoms : Worth(f, a, e) \in Nat /\ Worth(g, a, e) \in Nat
    BY HeldType
  <2>2. \A a \in {who, to}, e \in Denoms \ {d} :
            /\ Promise!More(a, e) = Worth(g, a, e) - Worth(f, a, e)
            /\ Worth(g, a, e) = Worth(f, a, e)
    BY <1>1, Viewed
  <2>3. QED
    BY <2>1, <2>2
<1>4. PICK x \in Nat, y \in Nat, s \in Nat, t \in Nat :
          x = Worth(f, who, d) /\ y = Worth(g, who, d) /\ s = Worth(f, to, d) /\ t = Worth(g, to, d)
  BY HeldType
<1>5. Promise!More(who, d) = y - x /\ Promise!More(to, d) = t - s
  BY <1>4, Viewed
<1>6. PICK left \in Int : left = x + n - given - y /\ left \in Promise!Dust(n)
  BY <1>1, <1>4
<1>7. to = who => n - Promise!More(who, d) \in Promise!Dust(n)
  BY <1>1, <1>5, <1>6
<1>8. to # who => /\ Promise!More(to, d) > 0
                  /\ n - Promise!More(who, d) - Promise!More(to, d) \in Promise!Dust(n)
  BY <1>1, <1>4, <1>5, <1>6
<1>9. owed' = owed
  BY Viewed
<1>10. QED
  BY <1>1, <1>2, <1>3, <1>7, <1>8, <1>9 DEF Promise!Receive

\* Both modules add up alike.
LEMMA SameSum == \A r : Promise!SumFunction(r) = SumFunction(r)
<1> TAKE r
<1>1. Promise!SumFunctionOnSet(r, DOMAIN r) = Table(r, DOMAIN r)[DOMAIN r]
  BY DEF Promise!SumFunctionOnSet, Promise!FoldFunctionOnSet, Promise!MapThenFoldSet, Table, Pick
<1>2. QED
  BY <1>1, SumIsInTable DEF Promise!SumFunction, SumFunction

LEMMA ViewedPaid ==
    ASSUME NEW CONSTANT f, NEW CONSTANT g, Seen = f, Seen' = g,
           NEW CONSTANT a, NEW CONSTANT d
    PROVE  Promise!Paid(a, d) = Due(f, a, d) - Due(g, a, d)
<1>1. owed = f.rewards /\ owed' = g.rewards
  BY Viewed
<1>2. Promise!Due(a, d) = Due(f, a, d) /\ Promise!Due(a, d)' = Due(g, a, d)
  BY <1>1, SameSum DEF Promise!Due, Due
<1>3. QED
  BY <1>2 DEF Promise!Paid

LEMMA ClaimSettles ==
    ASSUME NEW CONSTANT f \in FrameType, NEW CONSTANT g \in FrameType, Seen = f, Seen' = g,
           NEW CONSTANT who \in Accounts, NEW CONSTANT d \in Denoms,
           NEW CONSTANT total \in [Denoms -> Nat], status' = status,
           \A a \in Accounts \ {who} : g.rewards[a] = f.rewards[a],
           \A v \in Validators : g.rewards[who][v] \in {f.rewards[who][v], NoCoins},
           \A e \in Denoms : Due(g, who, e) + total[e] = Due(f, who, e),
           \A a \in Accounts \ {who}, e \in Denoms : Worth(g, a, e) = Worth(f, a, e),
           \A e \in Denoms \ {d} : Worth(g, who, e) = Worth(f, who, e) + total[e],
           Worth(f, who, d) + total[d] - Worth(g, who, d) \in Promise!Dust(total[d])
    PROVE  Promise!Claim(who) \/ UNCHANGED Promise!vars
<1>1. /\ wealth = WorthIn(f) /\ wealth' = WorthIn(g)
      /\ owed = f.rewards /\ owed' = g.rewards
      /\ \A a \in Accounts, e \in Denoms : Promise!More(a, e) = Worth(g, a, e) - Worth(f, a, e)
  BY Viewed
<1>2. \A a \in Accounts \ {who} : wealth'[a] = wealth[a]
  BY <1>1, SameWorth
<1>3. \A a \in Accounts, e \in Denoms : Worth(f, a, e) \in Nat /\ Worth(g, a, e) \in Nat
  BY HeldType
<1>4. \A e \in Denoms : Due(f, who, e) \in Nat /\ Due(g, who, e) \in Nat
  BY DueType
<1>5. CASE g.rewards = f.rewards
  <2>1. \A e \in Denoms : total[e] = 0
    <3>1. \A e \in Denoms : Due(g, who, e) = Due(f, who, e)
      BY <1>5 DEF Due
    <3>2. QED
      BY <1>4, <3>1
  <2>2. 0 % MinWithdraw = 0
    BY UnwrapAssumption
  <2>3. Worth(g, who, d) = Worth(f, who, d)
    BY <1>3, <2>1, <2>2 DEF Promise!Dust
  <2>4. \A e \in Denoms : Worth(g, who, e) = Worth(f, who, e)
    BY <1>3, <2>1, <2>3
  <2>5. WorthIn(g) = WorthIn(f)
    BY <2>4 DEF WorthIn
  <2>6. QED
    BY <1>1, <1>5, <2>5 DEF Promise!vars
<1>6. CASE g.rewards # f.rewards
  <2>1. \A e \in Denoms : Promise!Paid(who, e) = total[e]
    <3>1. \A e \in Denoms : Promise!Paid(who, e) = Due(f, who, e) - Due(g, who, e)
      BY ViewedPaid
    <3>2. QED
      BY <1>4, <3>1
  <2>2. \A e \in Denoms \ {d} : Promise!More(who, e) = Promise!Paid(who, e)
    BY <1>1, <1>3, <2>1
  <2>3. Promise!Paid(who, d) - Promise!More(who, d) \in Promise!Dust(Promise!Paid(who, d))
    <3>1. Promise!Paid(who, d) - Promise!More(who, d) = Worth(f, who, d) + total[d] - Worth(g, who, d)
      BY <1>1, <1>3, <2>1
    <3>2. QED
      BY <2>1, <3>1
  <2>4. \A a \in Accounts \ {who} : wealth'[a] = wealth[a] /\ owed'[a] = owed[a]
    BY <1>1, <1>2
  <2>5. \A v \in Validators : owed'[who][v] \in {owed[who][v], [e \in Denoms |-> 0]}
    BY <1>1 DEF NoCoins
  <2>6. QED
    BY <1>1, <1>6, <2>2, <2>3, <2>4, <2>5 DEF Promise!Claim
<1>7. QED
  BY <1>5, <1>6

LEMMA InitSettles == Init => Promise!Init /\ SettleInv
<1> SUFFICES ASSUME Init PROVE Promise!Init /\ SettleInv
  OBVIOUS
<1>1. PICK f \in FrameType : f = Frame
  BY InitIInv DEF IInv, TypeOK
<1>2. call = NoCall /\ Seen = f
  BY <1>1 DEF Init, Seen
<1>3. wealth \in [Accounts -> [Denoms -> Nat]]
  <2>1. \A a \in Accounts, d \in Denoms : Worth(f, a, d) \in Nat
    BY HeldType
  <2>2. QED
    BY <1>2, <2>1 DEF wealth
<1>4. owed = [a \in Accounts |-> [v \in Validators |-> [d \in Denoms |-> 0]]]
  BY <1>1, <1>2 DEF Init, owed, Frame, NoCoins
<1>5. status = [p \in Packets |-> "sent"]
  BY DEF Init
<1>6. QED
  BY <1>2, <1>3, <1>4, <1>5 DEF Promise!Init, SettleInv

\* Where a receive ends, its packet is settled, or it will be relayed again.
LEMMA ReceiveEndSettles ==
    ASSUME IInv, IInv', PacketInv, SettleInv, Next,
           call # NoCall, call.kind = "recv", call' = NoCall
    PROVE  Promise!Next \/ UNCHANGED Promise!vars
<1>1. call \in RecvCall
  BY DEF IInv, TypeOK, ClaimCall, RecvCall, NoCall
<1>2. PICK f \in FrameType, g \in FrameType, p \in Packets, who \in Accounts, d \in Denoms,
           to \in Accounts, given \in Nat, n \in Nat :
          /\ f = call.frame /\ g = Frame' /\ p = call.packet /\ who = call.who
          /\ d = call.denom /\ to = call.to /\ given = call.given /\ n = call.amount
  BY <1>1, RecvCallFields DEF IInv, TypeOK
<1>3. Seen = f /\ Seen' = g
  BY <1>2 DEF Seen
<1>4. /\ status[p] = "sent" /\ (given = 0 <=> to = who)
      /\ status \in [Packets -> {"sent", "received", "refused", "refunded"}]
  BY <1>2 DEF IInv, RecvInv, RecvAt, RecvOthers, TypeOK
<1>5. who = p.to /\ d = p.denom /\ n = p.amount /\ rewards = f.rewards
  BY <1>2 DEF PacketInv, SettleInv
<1>6. Acknowledge \/ InnerRefuses \/ RecvPanics
  BY ReceiveEnds
<1>7. CASE RecvPanics
  <2>1. Frame' = call.frame /\ status' = status
    BY <1>7, Undone DEF RecvPanics, IInv, packets
  <2>2. QED
    BY <1>2, <1>3, <2>1, NothingSeen
<1>8. CASE InnerRefuses
  <2>1. Frame' = call.frame /\ status' = [status EXCEPT ![p] = "refused"]
    BY <1>2, <1>8, Undone DEF InnerRefuses, IInv
  <2>2. UNCHANGED <<wealth, owed>>
    BY <1>2, <1>3, <2>1 DEF wealth, owed
  <2>3. Promise!Refund(p)
    BY <1>4, <2>1, <2>2 DEF Promise!Refund
  <2>4. QED
    BY <2>3 DEF Promise!Next
<1>9. CASE Acknowledge
  <2>1. status' = [status EXCEPT ![p] = "received"] /\ rewards' = rewards
    BY <1>2, <1>9 DEF Acknowledge, balances
  <2>2. g.rewards = f.rewards
    BY <1>2, <1>5, <2>1 DEF Frame
  <2>3. ReceiveEnd /\ status'[p] = "received"
    BY <1>4, <2>1, ReceiveEndHolds DEF vars
  <2>4. /\ \A a \in Accounts \ {who, to} : Same(f, g, a)
        /\ to # who => OnlyTokens(f, g, to, d) /\ g.token[to][d] = f.token[to][d] + given
        /\ \A e \in Denoms \ {d} : Worth(g, who, e) = Worth(f, who, e)
        /\ UnwrapExact(n, g.under[who][d] - f.under[who][d],
                       Worth(f, who, d) + n - given - Worth(g, who, d))
    BY <1>2, <2>3 DEF ReceiveEnd
  <2>5. \A a \in Accounts \ {who, to}, e \in Denoms : Worth(g, a, e) = Worth(f, a, e)
    BY <2>4 DEF Same, OnlyTokens, Worth
  <2>6. \A a \in {who, to}, e \in Denoms \ {d} : Worth(g, a, e) = Worth(f, a, e)
    BY <2>4 DEF OnlyTokens, Worth
  <2>7. to # who => Worth(g, to, d) = Worth(f, to, d) + given
    <3>1. f.coin[to][d] \in Nat /\ f.token[to][d] \in Nat /\ f.under[to][d] \in Nat
      BY DEF FrameType, Amounts
    <3>2. QED
      BY <2>4, <3>1 DEF OnlyTokens, Worth
  <2>8. Worth(f, who, d) + n - given - Worth(g, who, d) \in Promise!Dust(n)
    BY <2>4, ExactIsDust
  <2>9. Shared(f, g, who, d, to, given)
    BY <1>4, <2>5, <2>6, <2>7 DEF Shared
  <2>10. Promise!Receive(p)
    BY <1>3, <1>4, <1>5, <2>1, <2>2, <2>8, <2>9, ReceiveSettles
  <2>11. QED
    BY <2>10 DEF Promise!Next
<1>10. QED
  BY <1>6, <1>7, <1>8, <1>9

\* Where a claim ends, what it has withdrawn is paid, or nothing happened.
LEMMA ClaimEndSettles ==
    ASSUME IInv, IInv', SettleInv, Next,
           call # NoCall, call.kind = "claim", call' = NoCall
    PROVE  Promise!Next \/ UNCHANGED Promise!vars
<1>1. call \in ClaimCall
  BY ClaimIsClaim DEF IInv, TypeOK, ClaimCall, RecvCall, NoCall
<1>2. PICK f \in FrameType, g \in FrameType, who \in Accounts, d \in Denoms,
           total \in [Denoms -> Nat] :
          /\ f = call.frame /\ g = Frame' /\ who = call.who /\ d = call.denom
          /\ total = call.totalCoins
  BY <1>1, ClaimCallFields DEF IInv, TypeOK
<1>3. Seen = f /\ Seen' = g
  BY <1>2 DEF Seen
<1>4. Withdrew(f, who, total)
  BY <1>2 DEF SettleInv
<1>5. Return \/ ClaimFails
  BY ClaimEnds
<1>6. status' = status
  BY <1>5 DEF Return, ClaimFails, packets
<1>7. CASE g = f
  BY <1>3, <1>6, <1>7, NothingSeen
<1>8. CASE Return /\ g # f
  <2>1. Frame' = Frame /\ Frame.rewards = rewards
    BY <1>8 DEF Return, balances, Frame
  <2>2. /\ \A a \in Accounts \ {who} : g.rewards[a] = f.rewards[a]
        /\ \A v \in Validators : g.rewards[who][v] \in {f.rewards[who][v], NoCoins}
        /\ \A e \in Denoms : Due(g, who, e) + total[e] = Due(f, who, e)
    BY <1>2, <1>4, <2>1 DEF Withdrew
  <2>3. ClaimEnd
    BY ClaimEndHolds DEF vars
  <2>4. /\ \A a \in Accounts \ {who} : Same(f, g, a)
        /\ call.converted = total[d]
        /\ \A e \in Denoms \ {d} :
               /\ g.coin[who][e] = f.coin[who][e] + total[e]
               /\ g.token[who][e] = f.token[who][e]
               /\ g.under[who][e] = f.under[who][e]
        /\ UnwrapExact(call.converted, g.under[who][d] - f.under[who][d],
                       Worth(f, who, d) + call.converted - Worth(g, who, d))
    BY <1>2, <1>8, <2>3 DEF ClaimEnd
  <2>5. \A a \in Accounts \ {who}, e \in Denoms : Worth(g, a, e) = Worth(f, a, e)
    BY <2>4 DEF Same, OnlyTokens, Worth
  <2>6. ASSUME NEW e \in Denoms \ {d}
        PROVE  Worth(g, who, e) = Worth(f, who, e) + total[e]
    <3>1. /\ f.coin[who][e] \in Nat /\ f.token[who][e] \in Nat /\ f.under[who][e] \in Nat
          /\ total[e] \in Nat
      BY DEF FrameType, Amounts
    <3>2. QED
      BY <2>4, <3>1 DEF Worth
  <2>7. Worth(f, who, d) + total[d] - Worth(g, who, d) \in Promise!Dust(total[d])
    <3>1. total[d] \in Nat
      OBVIOUS
    <3>2. QED
      BY <2>4, <3>1, ExactIsDust
  <2>8. Promise!Claim(who) \/ UNCHANGED Promise!vars
    BY <1>3, <1>6, <2>2, <2>5, <2>6, <2>7, ClaimSettles
  <2>9. QED
    BY <2>8 DEF Promise!Next
<1>9. CASE ClaimFails
  <2>1. g = f
    BY <1>2, <1>9, Undone DEF ClaimFails, IInv
  <2>2. QED
    BY <1>7, <2>1
<1>10. QED
  BY <1>5, <1>7, <1>8, <1>9

\* A call that goes on shows nothing.
LEMMA CallShowsNothing ==
    ASSUME IInv, Next, call # NoCall, call' # NoCall
    PROVE  UNCHANGED Promise!vars
<1>1. TypeOK
  BY DEF IInv
<1>2. Receive \/ (call.kind = "claim" /\ ClaimStep)
  <2>1. /\ \A p : ~RecvPacket(p) /\ ~Timeout(p)
        /\ \A a, validators, d : ~Claim(a, validators, d)
        /\ \A a, v, d, n : ~Accrue(a, v, d, n)
        /\ \A a, b : ~SetWithdrawAddress(a, b)
        /\ \A d : ~Toggle(d)
    BY DEF RecvPacket, Timeout, Claim, Accrue, SetWithdrawAddress, Toggle
  <2>2. QED
    BY <2>1 DEF Next
<1>3. CASE Receive
  BY <1>1, <1>3, ReceiveIsRecv, RecvContinues, NothingSeen DEF Continues, Seen
<1>4. CASE call.kind = "claim" /\ ClaimStep
  <2>1. call'.frame = call.frame /\ status' = status
    BY <1>1, <1>4, ClaimIsClaim, ClaimContinues DEF Continues
  <2>2. QED
    BY <2>1, NothingSeen DEF Seen
<1>5. QED
  BY <1>2, <1>3, <1>4

LEMMA AccrueSettles ==
    ASSUME IInv, NEW a \in Accounts, NEW v \in Validators, NEW d \in Denoms,
           NEW n \in RewardAmounts, Accrue(a, v, d, n)
    PROVE  Promise!Accrue(a, v, d)
<1>1. /\ call = NoCall /\ call' = NoCall /\ status' = status
      /\ coin' = coin /\ token' = token /\ under' = under
      /\ rewards' = [rewards EXCEPT ![a][v][d] = @ + n]
  BY DEF Accrue, packets
<1>2. rewards \in [Accounts -> [Validators -> [Denoms -> Nat]]]
  BY FrameOK DEF IInv, TypeOK
<1>3. owed = rewards /\ owed' = rewards'
  BY <1>1 DEF owed, Seen, Frame
<1>4. wealth' = wealth
  BY <1>1 DEF wealth, Seen, Frame, Worth
<1>5. PICK m \in Nat : m = n /\ m > 0
  BY UnwrapAssumption
<1>6. rewards'[a][v][d] = rewards[a][v][d] + m /\ rewards[a][v][d] \in Nat
  BY <1>1, <1>2, <1>5
<1>7. rewards' = [rewards EXCEPT ![a][v][d] = rewards'[a][v][d]]
  BY <1>1, <1>2
<1>8. QED
  BY <1>1, <1>3, <1>4, <1>5, <1>6, <1>7 DEF Promise!Accrue

LEMMA NextSettles ==
    IInv /\ IInv' /\ TotalInv /\ SettleInv /\ [Next]_vars => [Promise!Next]_(Promise!vars)
<1> SUFFICES ASSUME IInv, IInv', TotalInv, SettleInv, [Next]_vars
             PROVE  Promise!Next \/ UNCHANGED Promise!vars
  OBVIOUS
<1>1. CASE UNCHANGED vars
  BY <1>1, NothingSeen DEF vars, balances, packets, Seen, Frame
<1>2. CASE Next /\ call # NoCall /\ call' # NoCall
  BY <1>2, CallShowsNothing
<1>3. CASE Next /\ call # NoCall /\ call' = NoCall
  <2>1. call.kind \in {"recv", "claim"}
    BY <1>3 DEF IInv, TypeOK, RecvCall, ClaimCall
  <2>2. QED
    BY <1>3, <2>1, ReceiveEndSettles, ClaimEndSettles DEF TotalInv
<1>4. CASE Next /\ call = NoCall
  <2>1. ASSUME NEW p \in Packets, RecvPacket(p)
        PROVE  UNCHANGED Promise!vars
    <3>1. call' # NoCall /\ call'.frame = Frame /\ status' = status
      BY <2>1 DEF RecvPacket, NoCall, packets
    <3>2. QED
      BY <1>4, <3>1, NothingSeen DEF Seen
  <2>2. ASSUME NEW a \in Accounts, NEW validators \in SUBSET Validators, NEW d \in Denoms,
               Claim(a, validators, d)
        PROVE  UNCHANGED Promise!vars
    <3>1. call' # NoCall /\ call'.frame = Frame /\ status' = status
      BY <2>2 DEF Claim, NoCall, packets
    <3>2. QED
      BY <1>4, <3>1, NothingSeen DEF Seen
  <2>3. ASSUME NEW p \in Packets, Timeout(p)
        PROVE  Promise!Refund(p)
    <3>1. /\ status[p] = "sent" /\ status' = [status EXCEPT ![p] = "refunded"]
          /\ Seen' = Seen
      BY <1>4, <2>3 DEF Timeout, balances, Seen, Frame
    <3>2. UNCHANGED <<wealth, owed>>
      BY <3>1 DEF wealth, owed
    <3>3. QED
      BY <3>1, <3>2 DEF Promise!Refund
  <2>4. ASSUME \/ \E a, b \in Accounts : SetWithdrawAddress(a, b)
               \/ \E d \in Pairs : Toggle(d)
        PROVE  UNCHANGED Promise!vars
    <3>1. Seen' = Seen /\ status' = status
      BY <1>4, <2>4 DEF SetWithdrawAddress, Toggle, balances, packets, Seen, Frame
    <3>2. QED
      BY <3>1, NothingSeen
  <2>5. QED
    BY <1>4, <2>1, <2>2, <2>3, <2>4, AccrueSettles DEF Next, Promise!Next
<1>5. QED
  BY <1>1, <1>2, <1>3, <1>4

\* However many steps a receive or a claim takes, whichever of them fail, and whatever
\* an undone call had done, it is one settlement of a packet for its whole amount, one
\* payment of exactly what validators owed, or nothing - for any number of accounts,
\* validators, denominations and packets (OnRecvPacket, claimRewardsAndConvertCoin).
THEOREM UnwrapSettles == Spec => ImplementsSettlement
<1>1. Spec => []IInv /\ []TotalInv
  BY UnwrapInvariant, InitTotal, NextTotal, PTL DEF Spec
<1>2. Spec => []SettleInv
  BY UnwrapInvariant, InitSettles, NextSettle, PTL DEF Spec
<1>3. QED
  BY <1>1, <1>2, InitSettles, NextSettles, PTL DEF Spec, ImplementsSettlement, Promise!Spec
================================================================================
