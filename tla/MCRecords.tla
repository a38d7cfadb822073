------------------------------- MODULE MCRecords -------------------------------
(***************************************************************************)
(* The records of a user, one part in a behaviour (where says which): the  *)
(* browser's storage under its journal, its ledger of CSV statements, the  *)
(* actions of reviews, the risk rules, the panel that carries classic      *)
(* reviews over, the server's ledger, which reduces the same fills, or the *)
(* encrypted objects of two workspaces.                                     *)
(***************************************************************************)
EXTENDS BrowserStorage, FillLedger, LedgerPromotion, LegacyMigration, VaultObjects

VARIABLE where

recordVars == <<storageVars, csvVars, ledgerVars, migrationVars, objectVars, where>>

\* The three keys of one workspace and the key of the old session.
MCFamily == <<"rv-review-v1", "rv-action-v1", "rv-practice-v1">>
MCOtherKeys == {"rv2-session"}

Exec(i, time, ps, side, qty) ==
    [id |-> i, time |-> time, book |-> <<"BTCUSDT", ps>>, side |-> side, qty |-> qty,
     price |-> 2 * i + 1, fee |-> qty, asset |-> "USDT", pnl |-> i, ref |-> i]

\* Four executions, the second and third in one millisecond, in every direction after the first.
OneBook(s) == <<Exec(9, 1, "BOTH", "BUY", 2), Exec(10, 2, "BOTH", s[1], 1),
                Exec(11, 2, "BOTH", s[2], 3), Exec(12, 3, "BOTH", s[3], 2)>>

TwoBooks(s) == <<Exec(9, 1, "BOTH", "BUY", 2), Exec(10, 2, "LONG", "BUY", 1),
                 Exec(11, 2, "BOTH", s[1], 2), Exec(12, 3, "LONG", s[2], 1)>>

MCHistories == {OneBook(s) : s \in {<<"SELL", "BUY", "SELL">>, <<"BUY", "SELL", "BUY">>,
                                    <<"SELL", "SELL", "BUY">>}}
               \cup {TwoBooks(<<"SELL", "SELL">>)}

Kind(exact, ids, newestFirst, doubled, damaged) ==
    [exact |-> exact, ids |-> ids, newestFirst |-> newestFirst, doubled |-> doubled,
     damaged |-> damaged]

MCKinds == {Kind(TRUE, "plain", FALSE, FALSE, FALSE), Kind(TRUE, "plain", TRUE, FALSE, FALSE),
            Kind(TRUE, "padded", FALSE, FALSE, FALSE), Kind(TRUE, "none", FALSE, FALSE, FALSE),
            Kind(FALSE, "plain", FALSE, FALSE, FALSE), Kind(FALSE, "none", FALSE, FALSE, FALSE),
            Kind(TRUE, "plain", FALSE, TRUE, FALSE), Kind(TRUE, "plain", FALSE, FALSE, TRUE)}

\* The income of an account: result and commission of every fill, a rebate, a funding fee and a row of
\* a type the ledger does not know.
IncomeOf(fills) ==
    LET two(i)  == <<[id |-> 10 * i, type |-> "REALIZED_PNL", asset |-> "USDT",
                      amount |-> fills[i].pnl, after |-> i],
                     [id |-> 10 * i + 1, type |-> "COMMISSION", asset |-> fills[i].asset,
                      amount |-> 0 - fills[i].fee, after |-> i]>>
        extra(type, id, amount) == [id |-> id, type |-> type, asset |-> "USDT",
                                    amount |-> amount, after |-> 2]
    IN  two(1) \o two(2)
        \o <<extra("FUNDING_FEE", 90, 0 - 2), extra("TRANSFER", 91, 50)>>
        \o (IF fills[3].asset = "BNB" THEN <<extra("COMMISSION_REBATE", 92, 1)>> ELSE <<>>)
        \o two(3) \o two(4)

InBnb(fills) == [fills EXCEPT ![3].asset = "BNB"]

Hedged(s) == <<Exec(9, 1, "LONG", s[1], 2), Exec(10, 2, "SHORT", s[2], 1),
               Exec(11, 2, "LONG", s[3], 3), Exec(12, 3, "LONG", "SELL", 2)>>

AccountsFills ==
    {OneBook(s) : s \in [1..3 -> {"BUY", "SELL"}]}
    \cup {InBnb(OneBook(<<"SELL", "SELL", "BUY">>))}
    \cup {Hedged(s) : s \in {<<"BUY", "SELL", "BUY">>, <<"BUY", "SELL", "SELL">>,
                             <<"SELL", "SELL", "BUY">>, <<"BUY", "BUY", "BUY">>}}

MCAccounts == {[fills |-> f, income |-> IncomeOf(f)] : f \in AccountsFills}

\* A classic workspace with every kind of entry.
MCClassicFiles == {[t1 |-> "whole", t2 |-> "whole"], [t1 |-> "flawed", t2 |-> "whole"],
                   [t1 |-> "whole", t2 |-> "oversized"], [t1 |-> "whole", t2 |-> "absent"]}
MCTradeSets == {{"t1"}, {"t1", "t2"}}

\* Two devices of one workspace and one of another.
MCVault == [d \in Sealers |-> IF d = "s3" THEN "v2" ELSE "v1"]

\* Where the parts that are not meant stay; an account without a history for the ledger.
LedgerWaits == /\ account = [fills |-> <<>>, income |-> <<>>]
               /\ executed = 0 /\ fetched = 0 /\ booked = 0
               /\ promotion = [stage |-> "SHADOW", streak |-> 0, last |-> 0]
               /\ outcomes = <<>>

Init ==
    /\ where \in {"storage", "csv", "actions", "rules", "classic", "ledger", "objects"}
    /\ StorageInit
    /\ where # "storage" => user = Cleared /\ stored = Missing /\ epoch = Missing /\ journal = NoJournal
    /\ CsvInit
    /\ where # "csv" => history = OneBook(<<"SELL", "BUY", "SELL">>)
    /\ MigrationInit
    /\ where # "classic" => shownTrades = {"t1"}
    /\ IF where = "ledger" THEN LedgerInit ELSE LedgerWaits
    /\ ObjectInit

Rest == <<shownTrades, panel, call, storageVars, csvVars, ledgerVars, objectVars, where>>

Next ==
    \/ where = "storage" /\ StorageNext /\ UNCHANGED <<csvVars, ledgerVars, migrationVars, objectVars, where>>
    \/ where = "csv" /\ CsvNext /\ UNCHANGED <<storageVars, ledgerVars, migrationVars, objectVars, where>>
    \/ where = "actions" /\ ActionStep /\ UNCHANGED Rest
    \/ where = "rules" /\ RuleStep /\ UNCHANGED Rest
    \/ where \in {"actions", "rules"} /\ ClockTicks /\ UNCHANGED Rest
    \/ where \in {"actions", "rules"} /\ ClockSetBack /\ UNCHANGED Rest
    \* Another tab of the same browser saves a review while the panel works.
    \/ where = "classic" /\ (\E t \in Trades : SaveReview(t, NoLesson)) /\ UNCHANGED Rest
    \/ where = "classic" /\ MigrationNext /\ UNCHANGED <<storageVars, csvVars, ledgerVars, objectVars, where>>
    \/ where = "ledger" /\ LedgerNext /\ UNCHANGED <<storageVars, csvVars, migrationVars, objectVars, where>>
    \/ where = "objects" /\ ObjectNext /\ UNCHANGED <<storageVars, csvVars, ledgerVars, migrationVars, where>>

Spec == Init /\ [][Next]_recordVars

\* The tabs keep answering: the fairness of BrowserStorage.
FairSpec == Spec /\ WF_storageVars(Step) /\ WF_storageVars(Start)
================================================================================
