---------------------------- MODULE LegacyMigration ----------------------------
(***************************************************************************)
(* The panel that carries the reviews of the classic version over          *)
(* (shared/legacy-review-export.js, app/src/lib/legacy-review-migration.ts,*)
(* components/LegacyMigrationPanel.tsx, applyLegacyReviewMigration of      *)
(* store.tsx).  An export is parsed, bound to the trades on display, and   *)
(* the candidates the user selects are merged into the stored workspace.   *)
(* Parsing, binding and merging wait for digests, and the merge waits for  *)
(* the browser's lock; meanwhile the user may import trades or leave the   *)
(* view, and another tab may save a review (SaveReview of ReviewActions).  *)
(***************************************************************************)
EXTENDS ReviewActions

CONSTANTS
    ClassicFiles,   \* exports considered: [Trades -> EntryKinds]
    TradeSets       \* the growing sets of trades a user may have on display

EntryKinds ==
    {"absent",      \* the file has no review of the trade
     "whole",       \* all fields, within the limits of the new review
     "flawed",      \* a missing field or grade, a text over 600 characters: an issue
     "oversized"}   \* a text over 20,000 characters: the whole export is refused

ASSUME ClassicFilesAssumption == ClassicFiles \subseteq [Trades -> EntryKinds]

VARIABLES
    shownTrades,    \* the trades of the session
    panel,          \* the panel's state
    call            \* the call of applyLegacyReviewMigration that runs

migrationVars == <<workVars, shownTrades, panel, call>>

\* The export a classic workspace yields, and the entries of its plan.
Exports(file) == \A t \in Trades : file[t] # "oversized"
Entries(file) == {t \in Trades : file[t] = "whole"}

NoPlan == [candidates |-> {}, bound |-> {}]
NoCall == [step |-> "none", plan |-> NoPlan, selected |-> {}, trades |-> {}, panel |-> FALSE]
FreshPanel == [busy |-> FALSE, preparing |-> FALSE, plan |-> NoPlan, selected |-> {}, told |-> "nothing"]

\* The entries whose trade, by its identity, is on display.
Bound(file) == [candidates |-> Entries(file) \cap shownTrades, bound |-> shownTrades]

--------------------------------------------------------------------------------
(* The panel.                                                              *)

\* prepare: the buttons are disabled while the panel is busy.
PreparePlan ==
    /\ ~panel.busy
    /\ shownTrades # {}
    /\ panel' = [FreshPanel EXCEPT !.busy = TRUE, !.preparing = TRUE]
    /\ UNCHANGED <<workVars, shownTrades, call>>

PlanPrepared(file) ==
    /\ panel.preparing
    /\ panel' = [panel EXCEPT !.busy = FALSE, !.preparing = FALSE,
                              !.plan = IF Exports(file) THEN Bound(file) ELSE NoPlan,
                              !.told = IF Exports(file) THEN "nothing" ELSE "invalid"]
    /\ UNCHANGED <<workVars, shownTrades, call>>

\* Candidates with a review are disabled; the selection is not revised when one is saved later.
Select(t) ==
    /\ t \in panel.plan.candidates
    /\ work.reviews[t] = NoReview
    /\ panel' = [panel EXCEPT !.told = "nothing",
                              !.selected = IF t \in @ THEN @ \ {t} ELSE @ \cup {t}]
    /\ UNCHANGED <<workVars, shownTrades, call>>

Apply ==
    /\ panel.selected # {} /\ ~panel.busy /\ call.step = "none"
    /\ panel' = [panel EXCEPT !.busy = TRUE, !.told = "nothing"]
    /\ call' = [step |-> "sent", plan |-> panel.plan, selected |-> panel.selected,
                trades |-> shownTrades, panel |-> TRUE]
    /\ UNCHANGED <<workVars, shownTrades>>

\* The effect on new trades forgets the plan and outdates what runs; it leaves busy alone.
ImportTrades(trades) ==
    /\ shownTrades \subseteq trades /\ shownTrades # trades
    /\ shownTrades' = trades
    /\ panel' = [FreshPanel EXCEPT !.busy = panel.busy]
    /\ UNCHANGED <<workVars, call>>

\* Leaving the view discards the panel; a call that was made goes on.
LeaveView ==
    /\ panel # FreshPanel
    /\ panel' = FreshPanel
    /\ call' = IF call = NoCall THEN NoCall ELSE [call EXCEPT !.panel = FALSE]
    /\ UNCHANGED <<workVars, shownTrades>>

--------------------------------------------------------------------------------
(* The merge, under the lock.                                              *)

\* Mutant: the selected candidates are written, whatever was saved meanwhile.
MergedOver(selected) ==
    [work EXCEPT !.reviews = [t \in Trades |->
        IF t \in selected THEN [lesson |-> NoLesson, by |-> "classic"] ELSE work.reviews[t]]]

\* A review that exists by now is skipped.
Merged(selected) ==
    [work EXCEPT !.reviews = [t \in Trades |->
        IF t \in selected /\ work.reviews[t] = NoReview
        THEN [lesson |-> NoLesson, by |-> "classic"] ELSE work.reviews[t]]]

\* Neither the session nor the binding of the plan is stale.
StillBound == call.trades = shownTrades /\ call.plan.bound = call.trades

Merge ==
    /\ call.step = "sent" /\ StillBound
    /\ call' = [call EXCEPT !.step = "written"]
    /\ Save(Merged(call.selected))
    /\ UNCHANGED <<shownTrades, panel>>

MergeRefused ==
    /\ call.step = "sent" /\ ~(StillBound /\ Opens(work) /\ Encodes(Merged(call.selected)))
    /\ call' = [call EXCEPT !.step = "refused"]
    /\ UNCHANGED <<workVars, shownTrades, panel>>

\* The store withholds the receipt when the trades changed between the write and its answer.
Receipted == call.step = "written" /\ call.trades = shownTrades

Answered ==
    /\ call.step \in {"written", "refused"}
    /\ panel' = IF ~call.panel THEN panel
                ELSE IF Receipted
                THEN [panel EXCEPT !.busy = FALSE, !.selected = {}, !.told = "migrated"]
                ELSE [panel EXCEPT !.busy = FALSE, !.told = "cancelled"]
    /\ call' = NoCall
    /\ UNCHANGED <<workVars, shownTrades>>

MigrationInit ==
    /\ WorkInit
    /\ shownTrades \in TradeSets
    /\ panel = FreshPanel
    /\ call = NoCall

MigrationNext ==
    \/ PreparePlan
    \/ \E file \in ClassicFiles : PlanPrepared(file)
    \/ \E t \in Trades : Select(t)
    \/ Apply
    \/ \E trades \in TradeSets : ImportTrades(trades)
    \/ LeaveView
    \/ Merge
    \/ MergeRefused
    \/ Answered

\* The panel beside another tab, which may change anything of the workspace meanwhile.
MigrationSpec ==
    /\ MigrationInit
    /\ [][MigrationNext \/ (WorkNext /\ UNCHANGED <<shownTrades, panel, call>>)]_migrationVars

--------------------------------------------------------------------------------
(* Properties.                                                             *)

\* A review the user wrote is never replaced by a classic one, also not one that another tab saved
\* after the candidates were selected.
OwnReviewsStay ==
    [][\A t \in Trades : work.reviews[t].by = "user" => work'.reviews[t].by = "user"]_migrationVars

================================================================================
