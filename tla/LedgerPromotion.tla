---------------------------- MODULE LedgerPromotion ----------------------------
(***************************************************************************)
(* The server's ledger: supabase/functions/binance-beta/ledger.mjs and      *)
(* trade-projector.mjs.  An account trades; its fills and its income rows   *)
(* are fetched behind it, in two datasets that are each complete only now   *)
(* and then.  A generation projects what is there, compares the projection  *)
(* with the exchange's own balances and positions, and a ledger becomes     *)
(* primary after seven real generations without a difference.               *)
(*                                                                         *)
(* Amounts are integers in one unit; an entry is [source, effect, asset,    *)
(* postings].  Deployed code calls the projection page by page with the     *)
(* stage SHADOW (runtime.mjs 676); the reconciliation and the promotion      *)
(* have no caller outside the tests yet.                                    *)
(***************************************************************************)
EXTENDS PositionCycles

CONSTANTS
    Accounts,           \* the accounts considered: [fills, income], sequences in time order; an
                        \* income row [id, type, asset, amount, after] follows that many fills
    Assets,             \* the assets of their amounts
    ParityGenerations,  \* passing real generations before PARITY_PASSED (7 in the code)
    MaxLedgerGenerations      \* bound on generations

ASSUME LedgerAssumption == ParityGenerations \in Nat \ {0} /\ MaxLedgerGenerations \in Nat

VARIABLES
    account,        \* the account
    executed,       \* how many of its fills have happened
    fetched,        \* how many of them the connection has stored
    booked,         \* how many of its income rows have been fetched
    promotion,      \* [stage, streak, last]: the ledger promotion state
    outcomes        \* ghost: the last real generations reconciled and whether each passed

ledgerVars == <<account, executed, fetched, booked, promotion, outcomes>>

-------------------------------------------------------------------------------
(* Monetary entries (projectMonetaryEntries)                               *)

\* incomeEffectType
EffectOf(type) ==
    CASE type = "REALIZED_PNL"                          -> "REALIZED_PNL"
      [] type \in {"COMMISSION", "COMMISSION_REBATE"}   -> "COMMISSION"
      [] type = "FUNDING_FEE"                           -> "FUNDING"
      [] OTHER                                          -> "SUSPENSE"

\* makeEntry: the wallet posting and its counter posting.
Posting(dataset, key, effect, asset, amount) ==
    [source |-> <<dataset, key>>, effect |-> effect, asset |-> asset,
     postings |-> <<amount, 0 - amount>>]

FillEntries(fills) ==
    {Posting("fills", f.id, "REALIZED_PNL", "USDT", f.pnl) : f \in {g \in fills : g.pnl # 0}}
    \cup {Posting("fills", f.id, "COMMISSION", f.asset, 0 - f.fee) : f \in {g \in fills : g.fee # 0}}

AuthoritativeAlways(row, incomeCoverage) == TRUE        \* mutant: income is always booked

\* While income is partial, fills are booked provisionally and the income rows that repeat them are not.
Authoritative(row, incomeCoverage) ==
    incomeCoverage = "COMPLETE" \/ EffectOf(row.type) \notin {"REALIZED_PNL", "COMMISSION"}

IncomeEntries(rows, incomeCoverage) ==
    {Posting("income", r.id, EffectOf(r.type), r.asset, r.amount) :
        r \in {q \in rows : Authoritative(q, incomeCoverage) /\ q.amount # 0}}

MonetaryEntries(fills, rows, incomeCoverage) ==
    (IF incomeCoverage = "COMPLETE" THEN {} ELSE FillEntries(fills))
    \cup IncomeEntries(rows, incomeCoverage)

Effects == {"REALIZED_PNL", "COMMISSION", "FUNDING", "SUSPENSE"}

\* sumAssetTotals: per asset and effect.
AssetTotals(entries) ==
    [a \in Assets |-> [k \in Effects |->
        MapThenSumSet(LAMBDA e : e.postings[1],
                      {e \in entries : e.asset = a /\ e.effect = k})]]

\* projectBinanceUsdmLedger: the money and the positions; a refused position refuses it all.
Projection(fills, rows, incomeCoverage) ==
    LET entries == MonetaryEntries(fills, rows, incomeCoverage)
    IN  [entries |-> entries, totals |-> AssetTotals(entries),
         positions |-> ProjectPositions(fills)]

-------------------------------------------------------------------------------
(* What the connection has stored, and what the exchange would answer       *)

Prefix(rows, n) == {rows[i] : i \in 1..n}

KnownFills == Prefix(account.fills, fetched)

KnownIncome == Prefix(account.income, booked)

\* The income rows that exist once n fills have happened.
Happened(n) == Cardinality({i \in DOMAIN account.income : account.income[i].after <= n})

Quantity(fills, book) ==
    MapThenSumSet(LAMBDA f : Direction(f) * f.qty, {f \in fills : f.book = book})

Books == {account.fills[i].book : i \in DOMAIN account.fills}

Oracle ==
    [totals |-> AssetTotals(IncomeEntries(Prefix(account.income, Happened(executed)), "COMPLETE")),
     positions |-> [b \in Books |-> Quantity(Prefix(account.fills, executed), b)]]

-------------------------------------------------------------------------------
(* Reconciliation and promotion                                            *)

EntriesBalance(entries) == \A e \in entries : e.postings[1] + e.postings[2] = 0

QuantityAt(positions, b) == IF b \in DOMAIN positions.books THEN positions.books[b].quantity ELSE 0

\* reconcileLedgerProjection: PASS without a difference in any asset, metric or position.
Passes(projection) ==
    /\ EntriesBalance(projection.entries)
    /\ projection.totals = Oracle.totals
    /\ \A b \in Books : QuantityAt(projection.positions, b) = Oracle.positions[b]

\* mutant: the last generation may be judged again
JudgeableAgain(s, generation, activate) ==
    generation >= s.last /\ (activate => s.stage \in {"PARITY_PASSED", "PRIMARY"})

\* validateGeneration and the refusals of advanceLedgerPromotion: a generation is never judged twice,
\* and only a ledger that passed its observation is made primary.
Judgeable(s, generation, activate) ==
    /\ generation > s.last
    /\ activate => s.stage \in {"PARITY_PASSED", "PRIMARY"}

AfterFailure(s, generation) ==
    [stage  |-> CASE s.stage \in {"PRIMARY", "HALTED"} -> "HALTED"
                  [] s.stage = "SHADOW"                -> "SHADOW"
                  [] OTHER                             -> "PARITY_OBSERVING",
     streak |-> 0, last |-> generation]

AfterPass(s, generation, activate) ==
    LET streak == s.streak + 1
        observed == IF s.stage = "SHADOW" THEN "PARITY_OBSERVING" ELSE s.stage
    IN  IF s.stage = "HALTED" THEN [s EXCEPT !.streak = 0, !.last = generation]
        ELSE [stage  |-> IF activate THEN "PRIMARY"
                         ELSE IF observed = "PARITY_OBSERVING" /\ streak >= ParityGenerations
                         THEN "PARITY_PASSED" ELSE observed,
              streak |-> streak, last |-> generation]

Advanced(s, pass, generation, activate) ==
    IF pass THEN AfterPass(s, generation, activate) ELSE AfterFailure(s, generation)

-------------------------------------------------------------------------------

LedgerInit ==
    /\ account \in Accounts
    /\ executed = 0 /\ fetched = 0 /\ booked = 0
    /\ promotion = [stage |-> "SHADOW", streak |-> 0, last |-> 0]   \* createLedgerPromotionState
    /\ outcomes = <<>>

\* The exchange executes the next order of the account.
Trade ==
    /\ executed < Len(account.fills)
    /\ executed' = executed + 1
    /\ UNCHANGED <<account, fetched, booked, promotion, outcomes>>

\* A page of fills, or of income rows, is committed.
FetchFills ==
    /\ \E n \in (fetched + 1)..executed : fetched' = n
    /\ UNCHANGED <<account, executed, booked, promotion, outcomes>>

FetchIncome ==
    /\ \E n \in (booked + 1)..Happened(executed) : booked' = n
    /\ UNCHANGED <<account, executed, fetched, promotion, outcomes>>

\* Income is declared complete only when every row there is has been fetched.
Coverages == {"PARTIAL"} \cup (IF booked = Happened(executed) THEN {"COMPLETE"} ELSE {})

\* A generation is published and judged; the last one may be submitted again.
Reconcile(incomeCoverage, generation, activate) ==
    LET projection == Projection(KnownFills, KnownIncome, incomeCoverage)
        pass       == Passes(projection)
    IN  /\ generation <= MaxLedgerGenerations
        /\ Judgeable(promotion, generation, activate)
        /\ ~projection.positions.refused
        /\ promotion' = Advanced(promotion, pass, generation, activate)
        /\ outcomes' = LET all == Append(outcomes, [generation |-> generation, pass |-> pass])
                       IN  SubSeq(all, Max({1, Len(all) - ParityGenerations + 1}), Len(all))
        /\ UNCHANGED <<account, executed, fetched, booked>>

LedgerNext ==
    \/ Trade
    \/ FetchFills
    \/ FetchIncome
    \/ \E c \in Coverages, g \in {promotion.last, promotion.last + 1}, a \in BOOLEAN :
          Reconcile(c, g, a)

LedgerSpec == LedgerInit /\ [][LedgerNext]_ledgerVars

-------------------------------------------------------------------------------
(* Properties                                                              *)

\* A ledger that is primary, or may become it, has passed that many different generations in a row,
\* the last ones judged: no replayed generation and no failure in between counted.
PrimaryIsEarned ==
    promotion.stage \in {"PARITY_PASSED", "PRIMARY"} =>
        /\ \A i \in DOMAIN outcomes : outcomes[i].pass
        /\ Cardinality({outcomes[i].generation : i \in DOMAIN outcomes}) = ParityGenerations

\* Nothing is booked twice: with everything fetched, the provisional totals (results and commissions
\* taken from fills) and the authoritative ones (taken from income) differ by the rebates only, which
\* no fill reports, and the authoritative totals are those of the exchange.
BookedOnce ==
    (executed > 0 /\ fetched = executed /\ booked = Happened(executed)) =>
        LET rebates == {r \in KnownIncome : r.type = "COMMISSION_REBATE"}
            partial == MonetaryEntries(KnownFills, KnownIncome, "PARTIAL")
        IN  /\ AssetTotals(partial \cup IncomeEntries(rebates, "COMPLETE"))
                  = AssetTotals(MonetaryEntries(KnownFills, KnownIncome, "COMPLETE"))
            /\ AssetTotals(MonetaryEntries(KnownFills, KnownIncome, "COMPLETE")) = Oracle.totals

\* A closed trade, without the split of commissions by asset and the numbers only one reduction has.
TradeCore(t, fee, gross) ==
    [book |-> t.book, side |-> t.side, entry |-> t.entry, exit |-> t.exit, bought |-> t.bought,
     sold |-> t.sold, qty |-> t.qty, fee |-> fee, gross |-> gross]

\* Without a column of results the browser computes them: at its average entry price the parts of a
\* cycle add up to what was received less what was paid, for a quantity that is closed entirely.
SelfComputedResultsAddUp ==
    LET rows == SourceOrder({[f EXCEPT !.pnl = NoPnl] : f \in KnownFills})
    IN  \A t \in NetPositions(rows).closed :
            /\ t.bought[2] = t.sold[2]
            /\ t.gross = Whole(IF t.side = "LONG" THEN t.sold[1] - t.bought[1]
                               ELSE t.bought[1] - t.sold[1])

\* The three reductions of the same fills are one machine: the projector and the ledger refuse the
\* same fills; where they do not, the browser's trades are the projector's, prices, fees, results and
\* lineage included, what stays open is the ledger's position, and no fee is lost or charged twice.
ProjectionsAgree ==
    LET net       == NetPositions(SourceOrder(KnownFills))
        cycles    == ProjectCycles(KnownFills)
        positions == ProjectPositions(KnownFills)
    IN  fetched > 0 =>
        /\ cycles.refused <=> positions.refused
        /\ ~cycles.refused =>
              /\ {<<TradeCore(t, t.fee, t.gross), t.lineage>> : t \in net.closed}
                   = {<<TradeCore(c, MapThenSumSet(LAMBDA p : p[3], c.paid), Whole(c.reported)),
                        ToSet(c.lineage)>> : c \in cycles.cycles}
              /\ \A b \in DOMAIN positions.books :
                   positions.books[b].quantity =
                       MapThenSumSet(LAMBDA o : o[2].dir * o[2].open,
                                     {o \in net.open : o[1] = b})
              /\ MapThenSumSet(LAMBDA t : t.fee, net.closed)
                   + MapThenSumSet(LAMBDA o : o[2].fee, net.open)
                   = MapThenSumSet(LAMBDA f : f.fee, KnownFills)
              /\ SelfComputedResultsAddUp
===============================================================================
