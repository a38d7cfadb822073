---------------------------- MODULE PositionCycles ----------------------------
(***************************************************************************)
(* What the project makes of an ordered sequence of executions of one      *)
(* position book (a symbol and a position side), three times over:         *)
(*                                                                         *)
(*   NetPositions     frontend/net-position.js, for every trade the        *)
(*                    browser shows (CSV, local runtime, legacy files)     *)
(*   ProjectCycles    supabase/functions/binance-beta/trade-projector.mjs, *)
(*                    the trade read models of a generation                *)
(*   ProjectPositions supabase/functions/binance-beta/ledger.mjs, the      *)
(*                    position half of the ledger projection               *)
(*                                                                         *)
(* A fill is [book, ref, time, side, qty, price, fee, asset, pnl]; amounts  *)
(* are integers, NoPnl stands for a statement without the column.  A fee is *)
(* a multiple of its quantity, so that the split of a fill that crosses    *)
(* zero is exact; average prices are fractions.  The tolerance of          *)
(* quantitiesEqual (two units in the last place) is equality here.         *)
(***************************************************************************)
EXTENDS Integers, Sequences, SequencesExt, FiniteSetsExt

NoPnl == 0 - 999        \* no reported result in this row

Direction(fill) == IF fill.side = "BUY" THEN 1 ELSE 0 - 1

SideOf(dir) == IF dir > 0 THEN "LONG" ELSE "SHORT"

-------------------------------------------------------------------------------
(* Exact fractions, in lowest terms with a positive denominator.           *)

Fraction(n, d) ==
    LET abs == IF n < 0 THEN 0 - n ELSE n
        divisors == {k \in 1..d : abs % k = 0 /\ d % k = 0}
        gcd == Max(divisors)
    IN  [num |-> (IF n < 0 THEN 0 - 1 ELSE 1) * (abs \div gcd), den |-> d \div gcd]

Whole(n) == [num |-> n, den |-> 1]

Plus(a, b) == Fraction(a.num * b.den + b.num * a.den, a.den * b.den)

Minus(a, b) == Fraction(a.num * b.den - b.num * a.den, a.den * b.den)

Times(a, n) == Fraction(a.num * n, a.den)

Over(a, n) == Fraction(a.num, a.den * n)

-------------------------------------------------------------------------------
(* net-position.js *)

Flat == [dir |-> 0]     \* the state variable is null

\* openState: a cycle begins with this much of the fill.
OpenState(fill, dir, qty, fee, pnl) ==
    [dir        |-> dir,
     open       |-> qty,
     value      |-> Whole(fill.price * qty),
     entryTime  |-> fill.time,
     entryValue |-> fill.price * qty,
     entryQty   |-> qty,
     lineage    |-> {fill.ref},
     exitValue  |-> 0,
     exitQty    |-> 0,
     fee        |-> fee,
     reported   |-> pnl,
     complete   |-> TRUE,
     self       |-> Whole(0)]

Reported(fill) == IF fill.pnl = NoPnl THEN 0 ELSE fill.pnl

\* closeState: the trade of a finished cycle.  A price is the pair of the value and the quantity
\* it is the average of.
ClosedTrade(s, fill) ==
    [book    |-> fill.book,
     side    |-> SideOf(s.dir),
     entry   |-> s.entryTime,
     exit    |-> fill.time,
     bought  |-> <<s.entryValue, s.entryQty>>,
     sold    |-> <<s.exitValue, s.exitQty>>,
     qty     |-> s.entryQty,
     fee     |-> s.fee,
     gross   |-> IF s.complete THEN Whole(s.reported) ELSE s.self,
     self    |-> ~s.complete,
     lineage |-> s.lineage]

\* A fill in the direction of the open cycle.
Increased(s, fill) ==
    [s EXCEPT !.open = @ + fill.qty,
              !.value = Plus(@, Whole(fill.price * fill.qty)),
              !.entryValue = @ + fill.price * fill.qty,
              !.entryQty = @ + fill.qty,
              !.lineage = @ \cup {fill.ref},
              !.fee = @ + fill.fee,
              !.reported = @ + Reported(fill)]

\* The closing part of a fill against the open cycle: the position keeps its average entry price.
Reduced(s, fill, closing, fee) ==
    LET average == Over(s.value, s.open)
        result  == IF s.dir > 0 THEN Minus(Whole(fill.price), average)
                                ELSE Minus(average, Whole(fill.price))
    IN  [s EXCEPT !.open = @ - closing,
                  !.lineage = @ \cup {fill.ref},
                  !.fee = @ + fee,
                  !.self = Plus(@, Times(result, closing)),
                  !.value = Minus(@, Times(average, closing)),
                  !.exitValue = @ + fill.price * closing,
                  !.exitQty = @ + closing,
                  !.complete = @ /\ fill.pnl # NoPnl,
                  !.reported = @ + Reported(fill)]

Closing(s, fill) == IF fill.qty > s.open THEN s.open ELSE fill.qty

\* The share of the fee of a fill that its closing part pays.
ClosingFee(s, fill) == (fill.fee * Closing(s, fill)) \div fill.qty

\* One fill of a book: open, add, reduce, close, or close and open the other way.
NetStep(acc, fill) ==
    LET s   == acc.state
        dir == Direction(fill)
    IN  IF s.dir = 0
        THEN [acc EXCEPT !.state = OpenState(fill, dir, fill.qty, fill.fee, Reported(fill))]
        ELSE IF s.dir = dir THEN [acc EXCEPT !.state = Increased(s, fill)]
        ELSE LET closing == Closing(s, fill)
                 fee     == ClosingFee(s, fill)
                 after   == Reduced(s, fill, closing, fee)
             IN  IF after.open > 0 THEN [acc EXCEPT !.state = after]
                 ELSE [closed |-> acc.closed \cup {ClosedTrade(after, fill)},
                       state  |-> IF fill.qty = s.open THEN Flat
                                  ELSE OpenState(fill, dir, fill.qty - closing,
                                                 fill.fee - fee, 0)]

BooksOf(fills) == {fills[i].book : i \in DOMAIN fills}

OfBook(fills, book) == SelectSeq(fills, LAMBDA f : f.book = book)

\* reduceNetPositionsCore, book by book.
NetBook(fills, book) ==
    FoldLeft(NetStep, [closed |-> {}, state |-> Flat], OfBook(fills, book))

NetPositions(fills) ==
    [closed |-> UNION {NetBook(fills, b).closed : b \in BooksOf(fills)},
     open   |-> {<<b, NetBook(fills, b).state>> :
                     b \in {c \in BooksOf(fills) : NetBook(fills, c).state.dir # 0}}]

-------------------------------------------------------------------------------
(* trade-projector.mjs.  A projection that raises an exception is refused.  *)

HedgeDirectionAllowed(book, dir) ==
    CASE book[2] = "BOTH"  -> TRUE
      [] book[2] = "LONG"  -> dir = 1
      [] book[2] = "SHORT" -> dir = 0 - 1

\* startState
StartState(fill, dir, qty, fee, pnl) ==
    [dir |-> dir, open |-> qty, entryTime |-> fill.time, entryValue |-> fill.price * qty,
     entryQty |-> qty, lineage |-> <<fill.ref>>, exitValue |-> 0, exitQty |-> 0,
     paid |-> {<<fill.ref, fill.asset, fee>>}, reported |-> pnl]

Cycle(s, fill) ==
    [book |-> fill.book, side |-> SideOf(s.dir), entry |-> s.entryTime, exit |-> fill.time,
     bought |-> <<s.entryValue, s.entryQty>>, sold |-> <<s.exitValue, s.exitQty>>,
     qty |-> s.entryQty, paid |-> s.paid, reported |-> s.reported, lineage |-> s.lineage]

CycleAdd(s, fill) ==
    [s EXCEPT !.open = @ + fill.qty, !.entryValue = @ + fill.price * fill.qty,
              !.entryQty = @ + fill.qty, !.lineage = Append(@, fill.ref),
              !.paid = @ \cup {<<fill.ref, fill.asset, fill.fee>>},
              !.reported = @ + fill.pnl]

CycleReduce(s, fill, closing) ==
    [s EXCEPT !.open = @ - closing, !.exitValue = @ + fill.price * closing,
              !.exitQty = @ + closing, !.lineage = Append(@, fill.ref),
              !.paid = @ \cup {<<fill.ref, fill.asset, ClosingFee(s, fill)>>},
              !.reported = @ + fill.pnl]

\* One fill of projectCycles: a hedge book neither opens the wrong way nor crosses zero.
CycleStep(acc, fill) ==
    LET s     == acc.state
        dir   == Direction(fill)
        cross == fill.qty > s.open
        after == CycleReduce(s, fill, Closing(s, fill))
    IN  IF acc.refused THEN acc
        ELSE IF s.dir = 0
        THEN IF HedgeDirectionAllowed(fill.book, dir)
             THEN [acc EXCEPT !.state = StartState(fill, dir, fill.qty, fill.fee, fill.pnl)]
             ELSE [acc EXCEPT !.refused = TRUE]
        ELSE IF s.dir = dir THEN [acc EXCEPT !.state = CycleAdd(s, fill)]
        ELSE IF cross /\ fill.book[2] # "BOTH" THEN [acc EXCEPT !.refused = TRUE]
        ELSE IF after.open > 0 THEN [acc EXCEPT !.state = after]
        ELSE [acc EXCEPT !.cycles = @ \cup {Cycle(after, fill)},
                         !.state = IF cross
                                   THEN StartState(fill, dir, fill.qty - s.open,
                                                   fill.fee - ClosingFee(s, fill), 0)
                                   ELSE Flat]

CyclesOfBook(fills, book) ==
    FoldLeft(CycleStep, [refused |-> FALSE, cycles |-> {}, state |-> Flat], OfBook(fills, book))

\* sourceOrder: the fills by time, then by exchange identifier.
SourceOrder(fills) ==
    SetToSortSeq(fills, LAMBDA a, b : a.time < b.time \/ (a.time = b.time /\ a.id < b.id))

\* projectTradeReadModels over a set of fills: a refused book refuses the generation.
ProjectCycles(fills) ==
    LET rows == SourceOrder(fills)
        of(b) == CyclesOfBook(rows, b)
    IN  [refused |-> \E b \in BooksOf(rows) : of(b).refused,
         cycles  |-> UNION {of(b).cycles : b \in BooksOf(rows)}]

-------------------------------------------------------------------------------
(* ledger.mjs, positions *)

\* positionTransition: how a change of the signed quantity splits into closing and opening.
Transition(before, after) ==
    LET abs(n) == IF n < 0 THEN 0 - n ELSE n
    IN  CASE before = 0            -> [close |-> 0, open |-> abs(after)]
          [] after = 0             -> [close |-> abs(before), open |-> 0]
          [] before * after < 0    -> [close |-> abs(before), open |-> abs(after)]
          [] before * after > 0 /\ abs(after) > abs(before)
                                   -> [close |-> 0, open |-> abs(after - before)]
          [] OTHER                 -> [close |-> abs(after - before), open |-> 0]

\* mutant: a hedge book may be closed past zero
HedgeValidAtOpen(book, dir, before, after) == before = 0 => HedgeDirectionAllowed(book, dir)

\* The hedge checks of projectPositions: not opened the wrong way, not closed past zero.
HedgeValid(book, dir, before, after) ==
    /\ before = 0 => HedgeDirectionAllowed(book, dir)
    /\ (book[2] = "LONG") => after >= 0
    /\ (book[2] = "SHORT") => after <= 0

PositionStep(acc, fill) ==
    LET before == acc.quantity
        after  == before + Direction(fill) * fill.qty
    IN  IF acc.valid /\ HedgeValid(fill.book, Direction(fill), before, after)
        THEN [acc EXCEPT !.quantity = after,
                         !.deltas = Append(@, Transition(before, after))]
        ELSE [acc EXCEPT !.valid = FALSE]

PositionsOfBook(fills, book) ==
    FoldLeft(PositionStep, [valid |-> TRUE, quantity |-> 0, deltas |-> <<>>], OfBook(fills, book))

\* projectPositions: the signed quantity and the deltas of each book, or an exception.
ProjectPositions(fills) ==
    LET rows == SourceOrder(fills)
        of(b) == PositionsOfBook(rows, b)
    IN  [refused |-> \E b \in BooksOf(rows) : ~of(b).valid,
         books   |-> [b \in BooksOf(rows) |-> of(b)]]
===============================================================================
