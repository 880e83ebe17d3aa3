---------------------------- MODULE LedgerProofs ----------------------------
(***************************************************************************)
(* Proofs about Ledger, for every limit and price, any dates, and any      *)
(* number of crashes, restarts and failed file operations.                 *)
(***************************************************************************)
EXTENDS Ledger, TLAPS

USE LedgerAssumption

-----------------------------------------------------------------------------
(* Amounts *)

\* What the paid calls of a pass may cost grows with their number.
LEMMA CallsCost ==
  ASSUME NEW n \in 0 .. MaxCalls
  PROVE  /\ n * CallCost \in Nat /\ MaxCalls * CallCost \in Nat
         /\ n * CallCost <= MaxCalls * CallCost
         /\ n > 0 => (n - 1) * CallCost = n * CallCost - CallCost
<1>1. n * CallCost \in Nat /\ MaxCalls * CallCost \in Nat
  OBVIOUS
<1>2. MaxCalls - n \in Nat /\ (MaxCalls - n) * CallCost \in Nat
  OBVIOUS
<1>3. MaxCalls * CallCost = n * CallCost + (MaxCalls - n) * CallCost
  OBVIOUS
<1>4. (n - 1) * CallCost = n * CallCost - CallCost
  OBVIOUS
<1> QED
  BY <1>1, <1>2, <1>3, <1>4

LEMMA EmptyLedger ==
  /\ Empty \in Ledgers /\ Nothing \in [Days -> Nat]
  /\ \A d \in Days : Empty[d].total = 0 /\ Empty[d].plugins = 0 /\ Nothing[d] = 0
  BY DEF Empty, Ledgers, Nothing

-----------------------------------------------------------------------------
(* The inductive invariant *)

\* Between a save's two steps the sibling is the ledger, and the file is whole.
FileInv ==
  /\ file # Corrupt
  /\ pc = "replace" => tmp = ledger

\* A process that is down holds nothing.
DownInv ==
  app = "down" => /\ pc = "idle" /\ calls = 0
                  /\ \A d \in Days : unsaved[d] = 0 /\ unread[d] = 0

\* What a day was charged is in the ledger, and in the file up to what is unsaved.
MoneyInv ==
  \A d \in Days :
    /\ file[d].total + unsaved[d] + lost[d] = charged[d]
    /\ file[d].plugins <= file[d].total
    /\ app = "up" => /\ ledger[d].total + unread[d] + lost[d] = charged[d]
                     /\ ledger[d].plugins <= ledger[d].total

\* Without money to spend nothing is ever charged, and no day is charged early.
GateInv ==
  /\ Limit = 0 => pc = "idle" /\ calls = 0 /\ \A d \in Days : charged[d] = 0
  /\ \A d \in Days : d > today => charged[d] = 0

Ceiling == Limit + PassCost + MaxCalls * CallCost

\* What the pass in progress and its calls may still cost keeps below the ceiling.
RoomInv ==
  Limit > 0 =>
    /\ \A d \in Days : file[d].total < Ceiling
    /\ app = "up" => \A d \in Days : ledger[d].total < Ceiling
    /\ pc = "asked" => calls = 0 /\ ledger[today].total < Limit
    /\ app = "up" => ledger[today].total + calls * CallCost < Ceiling

IInv == TypeOK /\ FileInv /\ DownInv /\ MoneyInv /\ GateInv /\ RoomInv

LEMMA InitInv == Init => IInv
<1> SUFFICES ASSUME Init PROVE IInv
  OBVIOUS
<1>1. TypeOK
  BY EmptyLedger DEF Init, TypeOK
<1>2. FileInv
  BY EmptyLedger DEF Init, FileInv, Ledgers
<1>3. DownInv /\ MoneyInv /\ GateInv
  BY EmptyLedger DEF Init, DownInv, MoneyInv, GateInv
<1>4. RoomInv
  <2>1. MaxCalls * CallCost \in Nat
    BY CallsCost
  <2> QED
    BY <2>1, EmptyLedger DEF Init, RoomInv, Ceiling
<1> QED
  BY <1>1, <1>2, <1>3, <1>4 DEF IInv

-----------------------------------------------------------------------------
(* The steps *)

LEMMA Loaded ==
  ASSUME TypeOK, FileInv
  PROVE  file \in Ledgers /\ Loads(file) = file
  BY DEF TypeOK, FileInv, Loads

\* A charge keeps every part, as long as the day has room for it.
LEMMA ChargeStep ==
  ASSUME IInv, app = "up", UNCHANGED <<app, today, file, tmp, unread, lost, faults>>,
         NEW cost \in Nat, NEW byPlugin \in BOOLEAN, Charge(today, cost, byPlugin),
         calls' \in 0 .. MaxCalls, Limit > 0,
         ledger[today].total + cost + calls' * CallCost < Ceiling
  PROVE  IInv'
<1> DEFINE more == IF byPlugin THEN cost ELSE 0
<1>1. /\ ledger \in Ledgers /\ today \in Days /\ more \in Nat /\ more <= cost
      /\ charged \in [Days -> Nat] /\ unsaved \in [Days -> Nat]
      /\ unread \in [Days -> Nat] /\ lost \in [Days -> Nat] /\ file \in Ledgers
  BY Loaded DEF IInv, TypeOK
<1>2. ledger' = [ledger EXCEPT ![today] = [total |-> @.total + cost,
                                           plugins |-> @.plugins + more]]
  BY <1>1 DEF Charge
<1>3. /\ ledger' \in Ledgers
      /\ ledger'[today].total = ledger[today].total + cost
      /\ ledger'[today].plugins = ledger[today].plugins + more
      /\ \A e \in Days : e # today => ledger'[e] = ledger[e]
  <2> HIDE DEF more
  <2> QED
    BY <1>1, <1>2 DEF Ledgers
<1>4. /\ charged' \in [Days -> Nat] /\ unsaved' \in [Days -> Nat]
      /\ charged'[today] = charged[today] + cost /\ unsaved'[today] = unsaved[today] + cost
      /\ \A e \in Days : e # today => charged'[e] = charged[e] /\ unsaved'[e] = unsaved[e]
  BY <1>1 DEF Charge
<1>5. \A e \in Days : /\ ledger[e].total \in Nat /\ ledger[e].plugins \in Nat
                      /\ file[e].total \in Nat /\ file[e].plugins \in Nat
  BY <1>1 DEF Ledgers
<1>6. TypeOK'
  BY <1>1, <1>3, <1>4 DEF IInv, TypeOK, Charge
<1>7. FileInv' /\ DownInv'
  BY DEF IInv, FileInv, DownInv, Charge
<1>8. MoneyInv'
  <2> SUFFICES ASSUME NEW d \in Days
               PROVE  /\ file'[d].total + unsaved'[d] + lost'[d] = charged'[d]
                      /\ file'[d].plugins <= file'[d].total
                      /\ ledger'[d].total + unread'[d] + lost'[d] = charged'[d]
                      /\ ledger'[d].plugins <= ledger'[d].total
    BY DEF MoneyInv
  <2>0. /\ file[d].total + unsaved[d] + lost[d] = charged[d]
        /\ file[d].plugins <= file[d].total
        /\ ledger[d].total + unread[d] + lost[d] = charged[d]
        /\ ledger[d].plugins <= ledger[d].total
    BY DEF IInv, MoneyInv
  <2>1. /\ file' = file /\ unread' = unread /\ lost' = lost
        /\ {unread[d], lost[d], charged[d], unsaved[d]} \subseteq Nat
        /\ {ledger[d].total, ledger[d].plugins} \subseteq Nat
    BY <1>1, <1>5
  <2>2. CASE d = today
    <3> HIDE DEF more
    <3>1. /\ ledger'[d].total = ledger[d].total + cost
          /\ ledger'[d].plugins = ledger[d].plugins + more
          /\ charged'[d] = charged[d] + cost /\ unsaved'[d] = unsaved[d] + cost
      BY <1>3, <1>4, <2>2
    <3>2. more \in Nat /\ more <= cost /\ file[d].total \in Nat
      BY <1>1, <1>5
    <3> QED
      BY <2>0, <2>1, <3>1, <3>2
  <2>3. CASE d # today
    BY <1>3, <1>4, <2>0, <2>1, <2>3
  <2> QED
    BY <2>2, <2>3
<1>9. GateInv'
  <2>1. \A d \in Days : d > today => d # today
    BY <1>1
  <2>2. today' = today /\ Limit # 0
    BY <1>1
  <2>3. \A d \in Days : d > today => charged[d] = 0
    BY DEF IInv, GateInv
  <2>4. \A d \in Days : d > today => charged'[d] = 0
    BY <1>4, <2>1, <2>3
  <2> QED
    BY <2>2, <2>4 DEF GateInv
<1>10. RoomInv'
  <2>1. calls' * CallCost \in Nat
    BY CallsCost
  <2>2. \A d \in Days : file[d].total < Ceiling /\ ledger[d].total < Ceiling
    BY DEF IInv, RoomInv
  <2>3. ledger'[today].total + calls' * CallCost < Ceiling
    BY <1>3
  <2>4. ledger'[today].total < Ceiling
    <3>1. ledger'[today].total \in Nat /\ Ceiling \in Int
      BY <1>1, <1>3, CallsCost DEF Ledgers, Ceiling
    <3> HIDE DEF Ceiling
    <3> QED
      BY <2>1, <2>3, <3>1
  <2>5. pc' = "write"
    BY DEF Charge
  <2> HIDE DEF Ceiling
  <2>6. \A d \in Days : ledger'[d].total < Ceiling
    BY <1>3, <2>2, <2>4
  <2> QED
    BY <2>2, <2>3, <2>5, <2>6 DEF RoomInv, Ceiling
<1> QED
  BY <1>6, <1>7, <1>8, <1>9, <1>10 DEF IInv

\* The parts that a step without money leaves alone.
LEMMA TypedAmounts ==
  ASSUME TypeOK, FileInv
  PROVE  /\ file \in Ledgers /\ Loads(file) = file /\ ledger \in Ledgers
         /\ today \in Days /\ calls \in 0 .. MaxCalls /\ faults \in 0 .. MaxFaults
         /\ \A d \in Days : /\ file[d].total \in Nat /\ file[d].plugins \in Nat
                            /\ ledger[d].total \in Nat /\ ledger[d].plugins \in Nat
                            /\ charged[d] \in Nat /\ unsaved[d] \in Nat
                            /\ unread[d] \in Nat /\ lost[d] \in Nat
  BY Loaded DEF TypeOK, Ledgers

LEMMA CeilingInt == Ceiling \in Nat /\ (Limit > 0 => Ceiling > 0 /\ Limit <= Ceiling)
  BY CallsCost, MaxCalls \in 0 .. MaxCalls DEF Ceiling

\* A process that starts holds the file.
LEMMA StartStep == IInv /\ Start => IInv'
<1> SUFFICES ASSUME IInv, Start PROVE IInv'
  OBVIOUS
<1>1. TypeOK /\ FileInv
  BY DEF IInv
<1>2. ledger' = file /\ UNCHANGED <<today, file, tmp, charged, unsaved, unread, lost, faults>>
  BY <1>1, TypedAmounts DEF Start
<1>3. TypeOK' /\ FileInv' /\ DownInv'
  BY <1>1, <1>2, TypedAmounts DEF TypeOK, FileInv, DownInv, Start
<1>4. MoneyInv' /\ GateInv'
  BY <1>1, <1>2, TypedAmounts DEF IInv, MoneyInv, DownInv, GateInv, Start
<1>5. RoomInv'
  <2>1. 0 * CallCost = 0
    OBVIOUS
  <2>2. ledger'[today'].total + calls' * CallCost = file[today].total
    <3>1. ledger'[today'] = file[today] /\ file[today].total \in Nat /\ calls' = 0
      BY <1>1, <1>2, TypedAmounts DEF Start
    <3> QED
      BY <2>1, <3>1
  <2>3. Limit > 0 => \A d \in Days : file[d].total < Ceiling
    BY DEF IInv, RoomInv
  <2> QED
    BY <1>1, <1>2, <2>2, <2>3, TypedAmounts DEF RoomInv, Start
<1> QED
  BY <1>3, <1>4, <1>5 DEF IInv

\* A process that cannot read the file holds nothing of it.
LEMMA UnreadStep == IInv /\ StartUnread => IInv'
<1> SUFFICES ASSUME IInv, StartUnread PROVE IInv'
  OBVIOUS
<1>1. TypeOK /\ FileInv
  BY DEF IInv
<1>2. /\ ledger' = Empty
      /\ unread' = [d \in Days |-> file[d].total]
      /\ UNCHANGED <<today, file, tmp, charged, unsaved, lost>>
  BY <1>1, TypedAmounts DEF StartUnread
<1>3. unread' \in [Days -> Nat] /\ faults' \in 0 .. MaxFaults
  BY <1>1, <1>2, TypedAmounts DEF StartUnread
<1>4. TypeOK' /\ FileInv' /\ DownInv'
  BY <1>1, <1>2, <1>3, EmptyLedger DEF TypeOK, FileInv, DownInv, StartUnread
<1>5. MoneyInv' /\ GateInv'
  BY <1>1, <1>2, TypedAmounts, EmptyLedger
  DEF IInv, MoneyInv, DownInv, GateInv, StartUnread
<1>6. RoomInv'
  <2>1. 0 * CallCost = 0
    OBVIOUS
  <2>2. Limit > 0 => \A d \in Days : file[d].total < Ceiling /\ ledger'[d].total < Ceiling
    BY <1>2, EmptyLedger, CeilingInt DEF IInv, RoomInv
  <2>3. ledger'[today'].total + calls' * CallCost = 0
    <3>1. ledger'[today'].total = 0 /\ calls' = 0
      BY <1>1, <1>2, TypedAmounts, EmptyLedger DEF StartUnread
    <3> QED
      BY <2>1, <3>1
  <2> QED
    BY <1>2, <2>2, <2>3, CeilingInt DEF RoomInv, StartUnread, Ceiling
<1> QED
  BY <1>4, <1>5, <1>6 DEF IInv

\* A process that ends takes what it had not saved.
LEMMA StopStep == IInv /\ Stop => IInv'
<1> SUFFICES ASSUME IInv, Stop PROVE IInv'
  OBVIOUS
<1>1. TypeOK /\ FileInv
  BY DEF IInv
<1>2. /\ \A d \in Days : lost'[d] = lost[d] + unsaved[d]
      /\ lost' \in [Days -> Nat] /\ faults' \in 0 .. MaxFaults
  BY <1>1, TypedAmounts DEF Stop, Plus
<1>3. TypeOK' /\ FileInv' /\ DownInv'
  BY <1>1, <1>2, EmptyLedger DEF TypeOK, FileInv, DownInv, Stop
<1>4. MoneyInv' /\ GateInv'
  BY <1>1, <1>2, TypedAmounts, EmptyLedger DEF IInv, MoneyInv, GateInv, Stop
<1>5. RoomInv'
  BY DEF IInv, RoomInv, Stop
<1> QED
  BY <1>3, <1>4, <1>5 DEF IInv

\* A save that has not replaced the file changes no amount.
LEMMA SaveStep == IInv /\ (Write \/ WriteFails \/ ReplaceFails) => IInv'
<1> SUFFICES ASSUME IInv, Write \/ WriteFails \/ ReplaceFails PROVE IInv'
  OBVIOUS
<1>1. /\ UNCHANGED <<app, today, calls, ledger, file, charged, unsaved, unread, lost>>
      /\ pc' \in {"idle", "replace"} /\ faults' \in 0 .. MaxFaults
      /\ tmp' \in {tmp, ledger, Corrupt} /\ (pc' = "replace" => tmp' = ledger)
      /\ app = "up" /\ pc \in {"write", "replace"}
  BY DEF IInv, TypeOK, Write, Writes, WriteFails, ReplaceFails
<1>2. TypeOK' /\ FileInv' /\ DownInv'
  BY <1>1 DEF IInv, TypeOK, FileInv, DownInv
<1>3. MoneyInv' /\ GateInv' /\ RoomInv'
  BY <1>1 DEF IInv, MoneyInv, GateInv, RoomInv
<1> QED
  BY <1>2, <1>3 DEF IInv

\* A save that succeeds holds everything but what its process never read.
LEMMA ReplaceStep == IInv /\ Replace => IInv'
<1> SUFFICES ASSUME IInv, Replace PROVE IInv'
  OBVIOUS
<1>1. TypeOK /\ FileInv
  BY DEF IInv
<1>2. /\ \A d \in Days : lost'[d] = lost[d] + unread[d]
      /\ lost' \in [Days -> Nat]
  BY <1>1, TypedAmounts DEF Replace, Plus
<1>3. file' = ledger
  BY DEF IInv, FileInv, Replace
<1>4. TypeOK' /\ FileInv' /\ DownInv'
  <2>1. ledger # Corrupt
    BY <1>1, TypedAmounts DEF Ledgers
  <2> QED
    BY <1>1, <1>2, <1>3, <2>1, EmptyLedger DEF TypeOK, FileInv, DownInv, Replace
<1>5. MoneyInv' /\ GateInv'
  BY <1>1, <1>2, <1>3, TypedAmounts, EmptyLedger DEF IInv, MoneyInv, GateInv, Replace
<1>6. RoomInv'
  BY <1>3 DEF IInv, RoomInv, Replace
<1> QED
  BY <1>4, <1>5, <1>6 DEF IInv

\* A pass begins only while the day is below its limit.
LEMMA PassStep == IInv /\ (BeginPass \/ PassUncharged) => IInv'
<1> SUFFICES ASSUME IInv, BeginPass \/ PassUncharged PROVE IInv'
  OBVIOUS
<1>1. TypeOK /\ FileInv
  BY DEF IInv
<1>2. /\ UNCHANGED <<app, today, ledger, file, tmp, charged, unsaved, unread, lost, faults>>
      /\ app = "up" /\ pc' \in {"asked", "idle"} /\ calls' \in {0, calls}
  BY DEF BeginPass, PassUncharged
<1>3. TypeOK' /\ FileInv' /\ DownInv' /\ MoneyInv'
  BY <1>1, <1>2 DEF IInv, TypeOK, FileInv, DownInv, MoneyInv
<1>4. GateInv'
  <2>1. CASE Limit = 0
    <3>1. ~ CanAfford /\ pc = "idle"
      BY <1>1, <2>1, TypedAmounts DEF CanAfford, IInv, GateInv
    <3> QED
      BY <3>1 DEF BeginPass, PassUncharged
  <2>2. CASE Limit # 0
    BY <1>2, <2>2 DEF IInv, GateInv
  <2> QED
    BY <2>1, <2>2
<1>5. RoomInv'
  <2>1. 0 * CallCost = 0
    OBVIOUS
  <2>2. BeginPass => ledger[today].total < Limit /\ calls' = 0 /\ pc' = "asked"
    BY DEF BeginPass, CanAfford
  <2>3. PassUncharged => calls' = calls /\ pc' = "idle"
    BY DEF PassUncharged
  <2>4. ledger[today].total \in Nat /\ ledger' = ledger /\ today' = today /\ app = "up"
    BY <1>1, <1>2, TypedAmounts
  <2>5. Limit > 0 => ledger'[today'].total + calls' * CallCost < Ceiling
    <3>1. CASE BeginPass
      BY <2>1, <2>2, <2>4, <3>1, CeilingInt
    <3>2. CASE PassUncharged
      BY <2>3, <2>4, <3>2 DEF IInv, RoomInv
    <3> QED
      BY <3>1, <3>2
  <2>6. pc' = "asked" => calls' = 0 /\ ledger'[today'].total < Limit
    BY <2>2, <2>3, <2>4
  <2> QED
    BY <1>2, <2>5, <2>6 DEF IInv, RoomInv
<1> QED
  BY <1>3, <1>4, <1>5 DEF IInv

\* A pass and its calls are charged within the room the gate left.
LEMMA RecordStep == IInv /\ (RecordTurn \/ RecordPluginCall) => IInv'
<1>1. ASSUME IInv, RecordTurn PROVE IInv'
  <2>1. PICK cost \in 0 .. PassCost : Charge(today, cost, FALSE)
    BY <1>1 DEF RecordTurn
  <2>2. Limit > 0
    BY <1>1 DEF IInv, GateInv, RecordTurn
  <2>3. ledger[today].total + cost + calls' * CallCost < Ceiling
    <3>1. ledger[today].total < Limit /\ ledger[today].total \in Nat
      BY <1>1, <2>2, TypedAmounts DEF IInv, RoomInv, RecordTurn
    <3>2. MaxCalls * CallCost \in Nat /\ calls' = MaxCalls
      BY <1>1, CallsCost DEF RecordTurn
    <3> QED
      BY <3>1, <3>2 DEF Ceiling
  <2>4. calls' \in 0 .. MaxCalls /\ cost \in Nat /\ app = "up"
    BY <1>1 DEF RecordTurn
  <2> QED
    BY <1>1, <2>1, <2>2, <2>3, <2>4, ChargeStep DEF RecordTurn
<1>2. ASSUME IInv, RecordPluginCall PROVE IInv'
  <2>1. PICK cost \in 0 .. CallCost : Charge(today, cost, TRUE)
    BY <1>2 DEF RecordPluginCall, PluginCharge
  <2>2. Limit > 0 /\ app = "up"
    BY <1>2 DEF IInv, TypeOK, GateInv, RecordPluginCall
  <2>3. calls \in 0 .. MaxCalls /\ calls > 0 /\ calls' = calls - 1
    BY <1>2 DEF IInv, TypeOK, RecordPluginCall
  <2>4. ledger[today].total + cost + calls' * CallCost < Ceiling
    <3>1. ledger[today].total + calls * CallCost < Ceiling
      BY <1>2, <2>2 DEF IInv, RoomInv
    <3>2. calls' * CallCost = calls * CallCost - CallCost /\ calls * CallCost \in Nat
      BY <2>3, CallsCost
    <3>3. ledger[today].total \in Nat /\ Ceiling \in Nat
      BY <1>2, TypedAmounts, CeilingInt DEF IInv
    <3> QED
      BY <3>1, <3>2, <3>3
  <2>5. calls' \in 0 .. MaxCalls /\ cost \in Nat
    BY <2>3
  <2> QED
    BY <1>2, <2>1, <2>2, <2>4, <2>5, ChargeStep DEF RecordPluginCall
<1> QED
  BY <1>1, <1>2

\* A new day has nothing charged.
LEMMA DayStep == IInv /\ NextDay => IInv'
<1> SUFFICES ASSUME IInv, NextDay PROVE IInv'
  OBVIOUS
<1>1. TypeOK /\ FileInv
  BY DEF IInv
<1>2. /\ today' = today + 1 /\ today' \in Days /\ today \in Nat /\ today' > today
      /\ UNCHANGED <<app, pc, calls, ledger, file, tmp, charged, unsaved, unread, lost, faults>>
  BY <1>1 DEF NextDay, TypeOK
<1>3. TypeOK' /\ FileInv' /\ DownInv' /\ MoneyInv'
  BY <1>1, <1>2 DEF IInv, TypeOK, FileInv, DownInv, MoneyInv
<1>4. GateInv'
  <2>1. \A d \in Days : d > today' => d > today
    BY <1>2
  <2> QED
    BY <1>2, <2>1 DEF IInv, GateInv
<1>5. RoomInv'
  <2>1. charged[today'] = 0
    BY <1>2 DEF IInv, GateInv
  <2>2. app = "up" => ledger[today'].total = 0
    <3>1. /\ ledger[today'].total \in Nat /\ unread[today'] \in Nat
          /\ lost[today'] \in Nat
      BY <1>1, <1>2, TypedAmounts
    <3>2. app = "up" => ledger[today'].total + unread[today'] + lost[today'] = 0
      BY <1>2, <2>1 DEF IInv, MoneyInv
    <3>3. \A a, b, c \in Nat : a + b + c = 0 => a = 0
      OBVIOUS
    <3> QED
      BY <3>1, <3>2, <3>3, Zenon
  <2>3. calls \in 0 .. MaxCalls /\ calls * CallCost \in Nat
        /\ calls * CallCost <= MaxCalls * CallCost /\ MaxCalls * CallCost \in Nat
    BY <1>1, TypedAmounts, CallsCost
  <2>4. Limit > 0 => 0 + calls * CallCost < Ceiling
    BY <2>3 DEF Ceiling
  <2>5. pc = "asked" => app = "up"
    BY DEF IInv, TypeOK, DownInv
  <2> QED
    BY <1>2, <2>2, <2>4, <2>5 DEF IInv, RoomInv
<1> QED
  BY <1>3, <1>4, <1>5 DEF IInv

LEMMA NextInv == IInv /\ [Next]_vars => IInv'
<1> SUFFICES ASSUME IInv, [Next]_vars PROVE IInv'
  OBVIOUS
<1>1. CASE UNCHANGED vars
  BY <1>1 DEF vars, IInv, TypeOK, FileInv, DownInv, MoneyInv, GateInv, RoomInv
<1>2. CASE Next
  BY <1>2, StartStep, UnreadStep, StopStep, SaveStep, ReplaceStep, PassStep,
     RecordStep, DayStep DEF Next
<1> QED
  BY <1>1, <1>2

-----------------------------------------------------------------------------
(* The theorems *)

\* IInv holds in every reachable state of Budget and its file.
THEOREM LedgerInvariant == Spec => []IInv
  BY InitInv, NextInv, PTL DEF Spec

\* TypeOK for every limit, price and set of dates.
THEOREM LedgerTypes == Spec => []TypeOK
<1>1. IInv => TypeOK
  BY DEF IInv
<1> QED
  BY <1>1, LedgerInvariant, PTL

\* record_turn, record_plugin_call, _save_ledger and _load_ledger forget a charge
\* only with a process that ends before a save or under a file it could not read.
THEOREM NothingElseForgotten == Spec => []NothingElseIsForgotten
<1>1. IInv => NothingElseIsForgotten
  BY DEF IInv, MoneyInv, NothingElseIsForgotten
<1> QED
  BY <1>1, LedgerInvariant, PTL

\* can_afford bounds what a day is charged, whatever crashes and restarts come.
THEOREM OvershootBounded == Spec => []OvershootIsBounded
<1>1. IInv => OvershootIsBounded
  <2> SUFFICES ASSUME IInv, NEW d \in Days, charged[d] > 0
               PROVE  charged[d] - lost[d] - unread[d] < Ceiling
    BY DEF OvershootIsBounded, Ceiling
  <2>1. Limit > 0
    BY DEF IInv, GateInv
  <2>2. /\ ledger[d].total \in Nat /\ file[d].total \in Nat /\ charged[d] \in Nat
        /\ unsaved[d] \in Nat /\ unread[d] \in Nat /\ lost[d] \in Nat
    BY TypedAmounts DEF IInv
  <2>3. CASE app = "up"
    BY <2>1, <2>2, <2>3, CeilingInt DEF IInv, MoneyInv, RoomInv
  <2>4. CASE app = "down"
    BY <2>1, <2>2, <2>4, CeilingInt DEF IInv, MoneyInv, RoomInv, DownInv
  <2> QED
    BY <2>3, <2>4 DEF IInv, TypeOK
<1> QED
  BY <1>1, LedgerInvariant, PTL
=============================================================================
