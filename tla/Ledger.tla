------------------------------- MODULE Ledger -------------------------------
(***************************************************************************)
(* The daily spend ledger: Budget (kernel/budget.py) with its file, the    *)
(* passes and the paid calls that charge it, midnight, failed writes and   *)
(* the death and restart of the process at any point of a save.            *)
(*                                                                         *)
(* Money is counted in a unit of the model.  A pass asks can_afford before *)
(* the provider is called and is charged after it; the calls a pass issues *)
(* are charged without asking.  Saving is synchronous on the event loop:   *)
(* only the end of the process comes between its steps.                    *)
(***************************************************************************)
EXTENDS Integers

CONSTANTS
  Days,       \* the UTC dates, the keys of the ledger
  Limit,      \* daily_limit_usd
  PassCost,   \* what a pass may cost at most
  CallCost,   \* what a call of a paid plugin may cost at most
  MaxCalls,   \* the paid calls of a pass
  MaxFaults,  \* crashes and failed file operations, a bound of the model
  Corrupt     \* a file that does not parse

ASSUME LedgerAssumption ==
  /\ Days \subseteq Nat
  /\ Limit \in Nat /\ PassCost \in Nat /\ CallCost \in Nat
  /\ MaxCalls \in Nat /\ MaxFaults \in Nat
  /\ Corrupt \notin [Days -> [total : Nat, plugins : Nat]]

VARIABLES
  app,      \* "up" or "down": the process
  today,    \* the date of the clock
  pc,       \* "idle", "asked" (the provider streams), "write" or "replace" (a save)
  calls,    \* the paid calls the last pass may still make
  ledger,   \* _ledger: the total of a day, and what of it plugins have spent
  file,     \* budget.json
  tmp,      \* budget.json.tmp
  charged,  \* every charge of a day, whatever became of it
  unsaved,  \* what of it was charged after the last save that succeeded
  unread,   \* what the file holds that this process could not read
  lost,     \* what went with a process or under a save that had not read it
  faults

vars == <<app, today, pc, calls, ledger, file, tmp, charged, unsaved, unread, lost, faults>>

Ledgers == [Days -> [total : Nat, plugins : Nat]]

\* The state has the types of the fields it stands for.
TypeOK ==
  /\ app \in {"up", "down"} /\ today \in Days
  /\ pc \in {"idle", "asked", "write", "replace"} /\ calls \in 0 .. MaxCalls
  /\ ledger \in Ledgers
  /\ file \in Ledgers \cup {Corrupt} /\ tmp \in Ledgers \cup {Corrupt}
  /\ charged \in [Days -> Nat] 
  /\ unsaved \in [Days -> Nat] /\ unread \in [Days -> Nat] /\ lost \in [Days -> Nat]
  /\ faults \in 0 .. MaxFaults

Nothing == [d \in Days |-> 0]
Empty   == [d \in Days |-> [total |-> 0, plugins |-> 0]]

Plus(f, g) == [d \in Days |-> f[d] + g[d]]

Init ==
  /\ app = "down" /\ today \in Days /\ pc = "idle" /\ calls = 0
  /\ ledger = Empty /\ file = Empty /\ tmp = Empty
  /\ charged = Nothing /\ unsaved = Nothing
  /\ unread = Nothing /\ lost = Nothing /\ faults = 0

-----------------------------------------------------------------------------
(* The file *)

\* _load_ledger: what does not parse counts as nothing spent.
Loads(f) == IF f = Corrupt THEN Empty ELSE f

\* A process starts; a file it cannot read counts as nothing spent, and its next
\* save replaces it.
Start ==
  /\ app = "down" /\ app' = "up"
  /\ ledger' = Loads(file)
  /\ pc' = "idle" /\ calls' = 0
  /\ UNCHANGED <<today, file, tmp, charged, unsaved, unread, lost, faults>>

StartUnread ==
  /\ app = "down" /\ app' = "up" /\ faults < MaxFaults
  /\ ledger' = Empty
  /\ unread' = [d \in Days |-> Loads(file)[d].total]
  /\ pc' = "idle" /\ calls' = 0 /\ faults' = faults + 1
  /\ UNCHANGED <<today, file, tmp, charged, unsaved, lost>>

\* Mutated form: the ledger is written in place.
WritesInPlace == tmp' = tmp /\ file' = Corrupt

\* _save_ledger writes a sibling; it may fail with the sibling half written, and
\* the error is logged.
Writes == tmp' = ledger /\ file' = file

Write ==
  /\ app = "up" /\ pc = "write" /\ pc' = "replace"
  /\ Writes
  /\ UNCHANGED <<app, today, calls, ledger, charged, unsaved, unread, lost, faults>>

WriteFails ==
  /\ app = "up" /\ pc = "write" /\ pc' = "idle" /\ faults < MaxFaults
  /\ tmp' = Corrupt /\ faults' = faults + 1
  /\ UNCHANGED <<app, today, calls, ledger, file, charged, unsaved, unread, lost>>

\* os.replace makes the sibling the ledger, or fails.
Replace ==
  /\ app = "up" /\ pc = "replace" /\ pc' = "idle"
  /\ file' = tmp /\ unsaved' = Nothing
  /\ lost' = Plus(lost, unread) /\ unread' = Nothing
  /\ UNCHANGED <<app, today, calls, ledger, tmp, charged, faults>>

ReplaceFails ==
  /\ app = "up" /\ pc = "replace" /\ pc' = "idle" /\ faults < MaxFaults
  /\ faults' = faults + 1
  /\ UNCHANGED <<app, today, calls, ledger, file, tmp, charged, unsaved, unread, lost>>

\* The process ends, by the user or by a crash, and takes what it had not saved.
Stop ==
  /\ app = "up" /\ app' = "down"
  /\ pc # "idle" => faults < MaxFaults
  /\ faults' = IF pc = "idle" THEN faults ELSE faults + 1
  /\ lost' = Plus(lost, unsaved) /\ unsaved' = Nothing /\ unread' = Nothing
  /\ ledger' = Empty /\ pc' = "idle" /\ calls' = 0
  /\ UNCHANGED <<today, file, tmp, charged>>

-----------------------------------------------------------------------------
(* The charges *)

\* Mutated form: the estimate is of the limit, not of what is left of it.
AffordsTheLimit == ledger[today].total <= Limit

\* can_afford, as the loop asks it: nothing estimated.
CanAfford == ledger[today].total < Limit

\* Rule 10: every pass asks.  A refused turn speaks its refusal and is over.
BeginPass ==
  /\ app = "up" /\ pc = "idle" /\ CanAfford
  /\ pc' = "asked" /\ calls' = 0
  /\ UNCHANGED <<app, today, ledger, file, tmp, charged, unsaved, unread, lost, faults>>

\* The stream ends without a TurnComplete, or with a cost that is no amount:
\* nothing is recorded.
PassUncharged ==
  /\ app = "up" /\ pc = "asked" /\ pc' = "idle"
  /\ UNCHANGED <<app, today, calls, ledger, file, tmp, charged, unsaved, unread, lost, faults>>

\* A charge of a day, by a pass or by a plugin.
Charge(d, cost, byPlugin) ==
  /\ ledger' = [ledger EXCEPT
                   ![d] = [total   |-> @.total + cost,
                           plugins |-> @.plugins + (IF byPlugin THEN cost ELSE 0)]]
  /\ charged' = [charged EXCEPT ![d] = @ + cost]
  /\ unsaved' = [unsaved EXCEPT ![d] = @ + cost]
  /\ pc' = "write"

\* record_turn
RecordTurn ==
  /\ app = "up" /\ pc = "asked"
  /\ \E cost \in 0 .. PassCost : Charge(today, cost, FALSE)
  /\ calls' = MaxCalls
  /\ UNCHANGED <<app, today, file, tmp, unread, lost, faults>>

\* record_plugin_call counts the cost in both columns.
PluginCharge(d, cost) == Charge(d, cost, TRUE)

RecordPluginCall ==
  /\ app = "up" /\ pc = "idle" /\ calls > 0
  /\ \E cost \in 0 .. CallCost : PluginCharge(today, cost)
  /\ calls' = calls - 1
  /\ UNCHANGED <<app, today, file, tmp, unread, lost, faults>>

\* Midnight, UTC: the next key.
NextDay ==
  /\ today + 1 \in Days /\ today' = today + 1
  /\ UNCHANGED <<app, pc, calls, ledger, file, tmp, charged, unsaved, unread, lost, faults>>

Next ==
  \/ Start \/ StartUnread \/ Stop
  \/ Write \/ WriteFails \/ Replace \/ ReplaceFails
  \/ BeginPass \/ PassUncharged \/ RecordTurn \/ RecordPluginCall
  \/ NextDay

Spec == Init /\ [][Next]_vars

-----------------------------------------------------------------------------

\* The gate counts every charge there ever was, but for what went with a process
\* before a save or stands in a file that could not be read; and what plugins
\* spent is part of it.
NothingElseIsForgotten ==
  app = "up" =>
    \A d \in Days : /\ ledger[d].total + unread[d] + lost[d] = charged[d]
                    /\ ledger[d].plugins <= ledger[d].total

\* Rule 10 over any number of restarts: what a day is charged beyond what was
\* forgotten stays below the limit, one pass and the paid calls of the pass.
OvershootIsBounded ==
  \A d \in Days :
    charged[d] > 0 =>
      charged[d] - lost[d] - unread[d] < Limit + PassCost + MaxCalls * CallCost
=============================================================================
