----------------------------- MODULE RecordsProofs -----------------------------
(***************************************************************************)
(* The records of a workspace, for any trades, lessons, rules, clock and   *)
(* number of actions: what is stored opens and is shown whole, an action   *)
(* follows its lesson, and a classic review replaces no review of the      *)
(* user's, whatever another tab saves while the panel works.               *)
(*                                                                         *)
(* The promotion of a ledger, for any account and number of generations.   *)
(* The inductive invariant ties the streak the state counts to what was    *)
(* judged: the last streak of the outcomes remembered all passed, their    *)
(* generations ascend to the last one judged, and only a streak of the     *)
(* whole observation carries the stages of a ledger that may be primary.   *)
(*                                                                         *)
(* The storage of a browser is its atomic store, for any keys, sizes and   *)
(* quota.  The inductive invariant says what a clear under way leaves to   *)
(* be read (a journal or one marker, whose generation the stored one has   *)
(* or has not yet left), and what each point of an operation relies on.    *)
(***************************************************************************)
EXTENDS LegacyMigration, LedgerPromotion, BrowserStorage, FillLedger, FiniteSetTheorems,
        SequenceTheorems, WellFoundedInduction, TLAPS

\* A workspace of three maps, with no other key.
Shaped(w) ==
    /\ w = [reviews |-> w.reviews, actions |-> w.actions, rules |-> w.rules]
    /\ w.reviews = [t \in Trades |-> w.reviews[t]]
    /\ w.actions = [t \in Trades |-> w.actions[t]]
    /\ w.rules = [g \in Rules |-> w.rules[g]]

\* A row of the actions.
Row(a) ==
    a = [text |-> a.text, status |-> a.status, created |-> a.created, updated |-> a.updated,
         completed |-> a.completed, experiment |-> a.experiment]

\* Rows that do not exist read as the empty row, which opens.
WorkInv ==
    /\ Shaped(work)
    /\ Opens(work)
    /\ \A t \in Trades : ActionOpens(work.actions[t]) /\ Row(work.actions[t])

\* The row of no action is one the reader accepts.
LEMMA EmptyActionOpens == ActionOpens(NoAction) /\ Row(NoAction) /\ ~Exists(NoAction)
  BY DEF ActionOpens, Row, Exists, NoAction, NoExperiment, Never

\* An empty workspace opens.
LEMMA EmptyWorkOpens == Shaped(EmptyWork) /\ Opens(EmptyWork)
<1> DEFINE R == [t \in Trades |-> NoReview]
           A == [t \in Trades |-> NoAction]
           G == [g \in Rules |-> NoRule]
<1>1. EmptyWork = [reviews |-> R, actions |-> A, rules |-> G]
  BY DEF EmptyWork
<1>2. Shaped(EmptyWork)
  BY <1>1 DEF Shaped
<1>3. {t \in Trades : Exists(A[t])} = {}
  BY EmptyActionOpens
<1>4. Cardinality({t \in Trades : Exists(A[t])}) <= MaxActions
  BY <1>3, FS_EmptySet, MaxActionsAssumption
<1>5. ActionsOpen(A)
  BY <1>4, EmptyActionOpens DEF ActionsOpen
<1>6. RulesOpen(G)
  BY DEF RulesOpen, NoRule
<1> QED BY <1>1, <1>2, <1>5, <1>6 DEF Opens

--------------------------------------------------------------------------------
(* What a mutation writes keeps the three maps.                            *)

\* To write one action changes no other record.
LEMMA ActionWritten ==
  ASSUME NEW w, NEW t \in Trades, NEW a, Shaped(w), NEW r, r = [w EXCEPT !.actions[t] = a]
  PROVE  /\ Shaped(r)
         /\ r.reviews = w.reviews /\ r.rules = w.rules
         /\ r.actions[t] = a
         /\ \A u \in Trades : u # t => r.actions[u] = w.actions[u]
<1>1. r = [reviews |-> w.reviews, actions |-> [w.actions EXCEPT ![t] = a], rules |-> w.rules]
  BY DEF Shaped
<1>2. [w.actions EXCEPT ![t] = a] = [u \in Trades |-> IF u = t THEN a ELSE w.actions[u]]
  BY DEF Shaped
<1> QED BY <1>1, <1>2 DEF Shaped

\* To write one rule changes no review and no action.
LEMMA RuleWritten ==
  ASSUME NEW w, NEW g \in Rules, NEW rule, Shaped(w), NEW r, r = [w EXCEPT !.rules[g] = rule]
  PROVE  Shaped(r) /\ r.reviews = w.reviews /\ r.actions = w.actions
<1>1. r = [reviews |-> w.reviews, actions |-> w.actions, rules |-> [w.rules EXCEPT ![g] = rule]]
  BY DEF Shaped
<1>2. [w.rules EXCEPT ![g] = rule] = [h \in Rules |-> IF h = g THEN rule ELSE w.rules[h]]
  BY DEF Shaped
<1> QED BY <1>1, <1>2 DEF Shaped

\* createActionFromReview asks for the lesson of the review, in a row the reader accepts.
LEMMA LessonedExists ==
  ASSUME NEW a, NEW lesson
  PROVE  /\ Exists(Lessoned(a, lesson)) /\ Row(Lessoned(a, lesson))
         /\ Lessoned(a, lesson).text = lesson
  BY DEF Lessoned, Exists, Row

\* To save a review changes that review and the action of its lesson.
LEMMA ReviewWritten ==
  ASSUME NEW w, NEW t \in Trades, NEW lesson, Shaped(w), NEW r, r = Reviewed(w, t, lesson)
  PROVE  /\ Shaped(r)
         /\ r.reviews[t] = [lesson |-> lesson, by |-> "user"]
         /\ r.actions[t] = IF lesson = NoLesson THEN w.actions[t]
                           ELSE Lessoned(w.actions[t], lesson)
         /\ \A u \in Trades : u # t => r.reviews[u] = w.reviews[u] /\ r.actions[u] = w.actions[u]
<1> DEFINE a == IF lesson = NoLesson THEN w.actions[t] ELSE Lessoned(w.actions[t], lesson)
           v == [lesson |-> lesson, by |-> "user"]
<1>1. r = [reviews |-> [w.reviews EXCEPT ![t] = v], actions |-> [w.actions EXCEPT ![t] = a],
           rules |-> w.rules]
  BY DEF Shaped, Reviewed
<1>2. [w.actions EXCEPT ![t] = a] = [u \in Trades |-> IF u = t THEN a ELSE w.actions[u]]
  BY DEF Shaped
<1>3. [w.reviews EXCEPT ![t] = v] = [u \in Trades |-> IF u = t THEN v ELSE w.reviews[u]]
  BY DEF Shaped
<1> QED BY <1>1, <1>2, <1>3 DEF Shaped

\* A workspace whose changed actions are rows the reader accepts opens again.
LEMMA SavedOpens ==
  ASSUME WorkInv, NEW next, Save(next), Shaped(next),
         \A t \in Trades :
             \/ Exists(next.actions[t]) /\ Row(next.actions[t])
             \/ next.actions[t] = work.actions[t]
  PROVE  WorkInv'
<1>1. work' = next /\ Opens(next)
  BY DEF Save, Encodes
<1>2. \A t \in Trades : ActionOpens(next.actions[t]) /\ Row(next.actions[t])
  BY <1>1 DEF WorkInv, Opens, ActionsOpen
<1> QED BY <1>1, <1>2 DEF WorkInv

--------------------------------------------------------------------------------
(* Every operation keeps the invariant.                                    *)

\* A new status leaves a row the reader accepts, about the same lesson.
LEMMA StatusRow ==
  ASSUME NEW a, Row(a), NEW status \in {"open", "done", "dismissed"}
  PROVE  LET b == WithStatus(a, status) IN Row(b) /\ Exists(b) /\ b.text = a.text
<1> DEFINE x == IF a.experiment.decision # "pending" /\ status # StatusOf(a.experiment.decision)
                THEN NoExperiment ELSE a.experiment
           c == IF status = "done" \/ (status = "dismissed" /\ x # NoExperiment)
                THEN now ELSE Never
           b == WithStatus(a, status)
<1>1. b = [a EXCEPT !.status = status, !.updated = now, !.experiment = x, !.completed = c]
  BY DEF WithStatus
<1> HIDE DEF x, c, b
<1>2. Row(b) /\ b.status = status /\ b.text = a.text
  BY <1>1 DEF Row
<1>3. Exists(b)
  BY <1>2 DEF Exists
<1> QED BY <1>2, <1>3 DEF b

\* An experiment that is started or restarted leaves such a row.
LEMMA StartedRow ==
  ASSUME NEW a, Row(a), NEW x, NEW b,
         b = [a EXCEPT !.status = "open", !.completed = Never, !.updated = now, !.experiment = x]
  PROVE  Row(b) /\ Exists(b) /\ b.text = a.text
  BY DEF Row, Exists

\* So does an observation.
LEMMA ObservedRow ==
  ASSUME NEW a, Row(a), Exists(a), NEW x, NEW b, b = [a EXCEPT !.updated = now, !.experiment = x]
  PROVE  Row(b) /\ Exists(b) /\ b.text = a.text
  BY DEF Row, Exists

\* So does a decision.
LEMMA DecidedRow ==
  ASSUME NEW a, Row(a), NEW decision \in {"adopt", "revise", "discard"}
  PROVE  LET b == Decided(a, decision) IN Row(b) /\ Exists(b) /\ b.text = a.text
<1> DEFINE s == StatusOf(decision)
           c == IF decision = "revise" THEN Never ELSE now
           x == [a.experiment EXCEPT !.decision = decision, !.at = now]
           b == Decided(a, decision)
<1>1. b = [a EXCEPT !.status = s, !.updated = now, !.completed = c, !.experiment = x]
  BY DEF Decided
<1>2. s # "none"
  BY DEF StatusOf
<1> HIDE DEF s, c, x, b
<1>3. Row(b) /\ b.status = s /\ b.text = a.text
  BY <1>1 DEF Row
<1>4. Exists(b)
  BY <1>2, <1>3 DEF Exists
<1> QED BY <1>3, <1>4 DEF b

Inv == WorkInv /\ ActionFollowsLesson

\* What every step does: keep the invariant, and the reviews the user wrote.
UserKept == \A t \in Trades : work.reviews[t].by = "user" => work'.reviews[t].by = "user"
Kept == Inv' /\ UserKept

\* A row written over another keeps its text, so the lesson is still followed.
LEMMA ActionSaved ==
  ASSUME Inv, NEW t \in Trades, NEW a, Row(a), Exists(a), a.text = work.actions[t].text,
         Save([work EXCEPT !.actions[t] = a])
  PROVE  Kept
<1> DEFINE next == [work EXCEPT !.actions[t] = a]
<1>1. /\ Shaped(next)
      /\ next.reviews = work.reviews /\ next.actions[t] = a
      /\ \A u \in Trades : u # t => next.actions[u] = work.actions[u]
  <2>1. Shaped(work)
    BY DEF Inv, WorkInv
  <2> HIDE DEF Inv
  <2> QED BY <2>1, ActionWritten
<1>2. work' = next
  BY DEF Save
<1> HIDE DEF next
<1>3. Save(next)
  BY DEF next
<1>4. WorkInv'
  BY <1>1, <1>3, SavedOpens DEF Inv
<1>5. ActionFollowsLesson'
  BY <1>1, <1>2 DEF Inv, ActionFollowsLesson
<1>6. UserKept
  BY <1>1, <1>2 DEF UserKept
<1> QED BY <1>4, <1>5, <1>6 DEF Inv, Kept

\* Saving a review keeps the invariant and the reviews of the user.
LEMMA ReviewSaved ==
  ASSUME Inv, NEW t \in Trades, NEW lesson, SaveReview(t, lesson)
  PROVE  Kept
<1> DEFINE next == Reviewed(work, t, lesson)
<1>1. /\ Shaped(next)
      /\ next.reviews[t] = [lesson |-> lesson, by |-> "user"]
      /\ next.actions[t] = IF lesson = NoLesson THEN work.actions[t]
                           ELSE Lessoned(work.actions[t], lesson)
      /\ \A u \in Trades : u # t => /\ next.reviews[u] = work.reviews[u]
                                     /\ next.actions[u] = work.actions[u]
  BY ReviewWritten DEF Inv, WorkInv
<1>2. Save(next) /\ work' = next
  BY DEF SaveReview, Save
<1> HIDE DEF next
<1>3. WorkInv'
  BY <1>1, <1>2, SavedOpens, LessonedExists DEF Inv
<1>4. ActionFollowsLesson'
  BY <1>1, <1>2, LessonedExists DEF Inv, ActionFollowsLesson
<1>5. UserKept
  BY <1>1, <1>2 DEF UserKept
<1> QED BY <1>3, <1>4, <1>5 DEF Inv, Kept

\* Saving a rule does.
LEMMA RuleSaved ==
  ASSUME Inv, NEW g \in Rules, NEW rule, Save([work EXCEPT !.rules[g] = rule])
  PROVE  Kept
<1> DEFINE next == [work EXCEPT !.rules[g] = rule]
<1>1. Shaped(next) /\ next.reviews = work.reviews /\ next.actions = work.actions
  BY RuleWritten DEF Inv, WorkInv
<1>2. Save(next) /\ work' = next
  BY DEF Save
<1> HIDE DEF next
<1>3. WorkInv'
  BY <1>1, <1>2, SavedOpens DEF Inv
<1>4. ActionFollowsLesson'
  BY <1>1, <1>2 DEF Inv, ActionFollowsLesson
<1>5. UserKept
  BY <1>1, <1>2 DEF UserKept
<1> QED BY <1>3, <1>4, <1>5 DEF Inv, Kept

\* Every operation on an action does.
LEMMA ActionStepKeeps ==
  ASSUME Inv, ActionStep
  PROVE  Kept
<1>1. ASSUME NEW t \in Trades, NEW lesson \in Lessons \cup {NoLesson}, SaveReview(t, lesson)
      PROVE  Kept
  BY <1>1, ReviewSaved
<1>2. ASSUME NEW t \in Trades, NEW status \in {"open", "done", "dismissed"}, SetStatus(t, status)
      PROVE  Kept
  <2> DEFINE a == WithStatus(work.actions[t], status)
  <2>1. Row(a) /\ Exists(a) /\ a.text = work.actions[t].text
    BY StatusRow DEF Inv, WorkInv
  <2>2. Save([work EXCEPT !.actions[t] = a])
    BY <1>2 DEF SetStatus
  <2> HIDE DEF a
  <2> QED BY <2>1, <2>2, ActionSaved
<1>3. ASSUME NEW t \in Trades, NEW target \in Targets, SetExperiment(t, target)
      PROVE  Kept
  <2> DEFINE x == [target |-> target, observed |-> 0, followed |-> 0, decision |-> "pending",
                   at |-> now]
             a == [work.actions[t] EXCEPT !.status = "open", !.completed = Never, !.updated = now,
                                          !.experiment = x]
  <2>1. Save([work EXCEPT !.actions[t] = a])
    BY <1>3 DEF SetExperiment
  <2> HIDE DEF x
  <2>2. Row(a) /\ Exists(a) /\ a.text = work.actions[t].text
    BY StartedRow DEF Inv, WorkInv
  <2> HIDE DEF a
  <2> QED BY <2>1, <2>2, ActionSaved
<1>4. ASSUME NEW t \in Trades, NEW followed \in BOOLEAN, RecordObservation(t, followed)
      PROVE  Kept
  <2> DEFINE was == work.actions[t].experiment
             x == [was EXCEPT !.observed = @ + 1, !.at = now,
                              !.followed = @ + (IF followed THEN 1 ELSE 0)]
             a == [work.actions[t] EXCEPT !.updated = now, !.experiment = x]
  <2>1. Save([work EXCEPT !.actions[t] = a]) /\ Exists(work.actions[t])
    BY <1>4 DEF RecordObservation
  <2> HIDE DEF x
  <2>2. Row(a) /\ Exists(a) /\ a.text = work.actions[t].text
    BY <2>1, ObservedRow DEF Inv, WorkInv
  <2> HIDE DEF a
  <2> QED BY <2>1, <2>2, ActionSaved
<1>5. ASSUME NEW t \in Trades, NEW d \in {"adopt", "revise", "discard"}, DecideExperiment(t, d)
      PROVE  Kept
  <2> DEFINE a == Decided(work.actions[t], d)
  <2>1. Row(a) /\ Exists(a) /\ a.text = work.actions[t].text
    BY DecidedRow DEF Inv, WorkInv
  <2>2. Save([work EXCEPT !.actions[t] = a])
    BY <1>5 DEF DecideExperiment
  <2> HIDE DEF a
  <2> QED BY <2>1, <2>2, ActionSaved
<1> QED BY <1>1, <1>2, <1>3, <1>4, <1>5 DEF ActionStep

\* Every operation on a rule does.
LEMMA RuleStepKeeps ==
  ASSUME Inv, RuleStep
  PROVE  Kept
<1>1. ASSUME NEW g \in Rules, SaveRule(g)
      PROVE  Kept
  BY <1>1, RuleSaved DEF SaveRule
<1>2. ASSUME NEW g \in Rules, NEW active \in BOOLEAN, SetRuleActive(g, active)
      PROVE  Kept
  <2> DEFINE rule == [work.rules[g] EXCEPT !.active = active, !.updated = now]
  <2>1. Save([work EXCEPT !.rules[g] = rule])
    BY <1>2 DEF SetRuleActive
  <2> HIDE DEF rule
  <2> QED BY <2>1, RuleSaved
<1> QED BY <1>1, <1>2 DEF RuleStep

\* So every step of the workspace does, the clock's included.
LEMMA WorkNextKeeps ==
  ASSUME Inv, [WorkNext]_workVars
  PROVE  Kept
<1>1. CASE ActionStep
  BY <1>1, ActionStepKeeps
<1>2. CASE RuleStep
  BY <1>2, RuleStepKeeps
<1>3. CASE ClockTicks \/ ClockSetBack \/ UNCHANGED workVars
  <2>1. work' = work
    BY <1>3 DEF ClockTicks, ClockSetBack, workVars
  <2> QED BY <2>1 DEF Inv, WorkInv, ActionFollowsLesson, Kept, UserKept
<1> QED BY <1>1, <1>2, <1>3 DEF WorkNext

\* A new workspace satisfies the invariant.
LEMMA WorkStarts == WorkInit => Inv
<1> SUFFICES ASSUME WorkInit PROVE Inv
  OBVIOUS
<1>1. work = EmptyWork
  BY DEF WorkInit
<1>2. \A t \in Trades : work.actions[t] = NoAction /\ work.reviews[t] = NoReview
  BY <1>1 DEF EmptyWork
<1>3. WorkInv
  BY <1>1, <1>2, EmptyWorkOpens, EmptyActionOpens DEF WorkInv
<1>4. ActionFollowsLesson
  BY <1>2 DEF ActionFollowsLesson, NoReview
<1> QED BY <1>3, <1>4 DEF Inv

\* A workspace that opens and is stored is shown whole.
LEMMA ShownWhole == Inv => StoredIsShownWhole
<1> SUFFICES ASSUME Inv PROVE Shown(work) = work
  BY DEF Inv, WorkInv, StoredIsShownWhole
<1> DEFINE A == work.actions
           G == work.rules
<1>a. /\ A = [t \in Trades |-> A[t]] /\ \A t \in Trades : ActionOpens(A[t])
      /\ G = [g \in Rules |-> G[g]] /\ \A g \in Rules : G[g].created <= G[g].updated
  BY DEF Inv, WorkInv, Shaped, Opens, RulesOpen
<1> HIDE DEF A, G
<1>1. ShownActions(A) = A
  BY <1>a DEF ShownActions
<1>2. ShownRules(G) = G
  BY <1>a DEF ShownRules
<1> DEFINE S == ShownActions(A)
           R == ShownRules(G)
<1>3. Shown(work) = [work EXCEPT !.actions = S, !.rules = R]
  BY DEF Shown, A, G
<1>4. work = [reviews |-> work.reviews, actions |-> A, rules |-> G]
  BY DEF Inv, WorkInv, Shaped, A, G
<1> HIDE DEF S, R
<1>5. Shown(work) = [reviews |-> work.reviews, actions |-> S, rules |-> R]
  BY <1>3, <1>4
<1> QED BY <1>1, <1>2, <1>4, <1>5 DEF S, R

\* The stored workspace is opened and shown whole, and every action asks for the lesson of its
\* review, after any mutations at any times (the mutations of store.tsx).
THEOREM WorkspaceInvariant == WorkSpec => []Inv
<1>1. WorkInit => Inv
  BY WorkStarts
<1>2. Inv /\ [WorkNext]_workVars => Inv'
  BY WorkNextKeeps DEF Kept
<1> QED BY <1>1, <1>2, PTL DEF WorkSpec

\* No mutation stores a row that the next start would drop (loadActionPlans, normalize).
THEOREM StoredWorkIsShownWhole == WorkSpec => []StoredIsShownWhole
  BY WorkspaceInvariant, ShownWhole, PTL

\* Neither a refused nor an accepted save leaves a lesson without its action (saveTradeReview).
THEOREM ActionsFollowLessons == WorkSpec => []ActionFollowsLesson
<1>1. Inv => ActionFollowsLesson
  BY DEF Inv
<1> QED BY <1>1, WorkspaceInvariant, PTL

--------------------------------------------------------------------------------
(* The migration beside it.                                                *)

\* A merge of classic reviews keeps the invariant and what the user wrote.
LEMMA MergeKeeps ==
  ASSUME Inv, NEW selected, Save(Merged(selected))
  PROVE  Kept
<1> DEFINE next == Merged(selected)
           merged == [t \in Trades |-> IF t \in selected /\ work.reviews[t] = NoReview
                                      THEN [lesson |-> NoLesson, by |-> "classic"]
                                      ELSE work.reviews[t]]
<1>1. Shaped(work)
  BY DEF Inv, WorkInv
<1>2. next = [reviews |-> merged, actions |-> work.actions, rules |-> work.rules]
  BY <1>1 DEF Shaped, Merged
<1>3. \A t \in Trades :
         \/ merged[t] = work.reviews[t]
         \/ work.reviews[t].by = "nobody" /\ merged[t].by = "classic"
  BY DEF NoReview
<1>4. merged = [t \in Trades |-> merged[t]]
  OBVIOUS
<1> HIDE DEF merged
<1>5. Shaped(next) /\ next.reviews = merged /\ next.actions = work.actions
  BY <1>1, <1>2, <1>4 DEF Shaped
<1>6. Save(next) /\ work' = next
  BY DEF Save
<1> HIDE DEF next
<1>7. WorkInv'
  BY <1>5, <1>6, SavedOpens DEF Inv
<1>8. ActionFollowsLesson'
  BY <1>3, <1>5, <1>6 DEF Inv, ActionFollowsLesson
<1>9. UserKept
  BY <1>3, <1>5, <1>6 DEF UserKept
<1> QED BY <1>7, <1>8, <1>9 DEF Inv, Kept

MigrationStep == MigrationNext \/ (WorkNext /\ UNCHANGED <<shownTrades, panel, call>>)

\* So does every step of the migration.
LEMMA MigrationKeeps ==
  ASSUME Inv, [MigrationStep]_migrationVars
  PROVE  Kept
<1>1. CASE Merge
  BY <1>1, MergeKeeps DEF Merge
<1>2. CASE WorkNext
  BY <1>2, WorkNextKeeps
<1>3. CASE UNCHANGED workVars
  BY <1>3, WorkNextKeeps
<1>4. UNCHANGED workVars \/ Merge \/ WorkNext
  BY DEF MigrationStep, MigrationNext, migrationVars, PreparePlan, PlanPrepared, Select, Apply,
         ImportTrades, LeaveView, MergeRefused, Answered
<1> QED BY <1>1, <1>2, <1>3, <1>4

\* The workspace stays whole while classic reviews are carried over and another tab saves.
THEOREM MigrationKeepsWork == MigrationSpec => [](StoredIsShownWhole /\ ActionFollowsLesson)
<1>1. MigrationInit => Inv
  BY WorkStarts DEF MigrationInit
<1>2. Inv /\ [MigrationStep]_migrationVars => Inv'
  BY MigrationKeeps DEF Kept
<1>3. Inv => StoredIsShownWhole /\ ActionFollowsLesson
  BY ShownWhole DEF Inv
<1> QED BY <1>1, <1>2, <1>3, PTL DEF MigrationSpec, MigrationStep

\* A review of the user's is never replaced by a classic one, also not one saved by another tab
\* between the selection and the write (mergeLegacyReviewMigration).
THEOREM OwnReviewsAlwaysStay == MigrationSpec => OwnReviewsStay
<1>1. MigrationInit => Inv
  BY WorkStarts DEF MigrationInit
<1>2. Inv /\ [MigrationStep]_migrationVars => Inv'
  BY MigrationKeeps DEF Kept
<1>3. Inv /\ [MigrationStep]_migrationVars
      => [\A t \in Trades : work.reviews[t].by = "user" => work'.reviews[t].by = "user"]_migrationVars
  BY MigrationKeeps DEF Kept, UserKept
<1> QED BY <1>1, <1>2, <1>3, PTL DEF MigrationSpec, MigrationStep, OwnReviewsStay

--------------------------------------------------------------------------------
(* The promotion of a ledger.                                              *)

Stages == {"SHADOW", "PARITY_OBSERVING", "PARITY_PASSED", "PRIMARY", "HALTED"}
Outcome == [generation : Nat, pass : BOOLEAN]

PromotionTypeOK ==
    /\ promotion \in [stage : Stages, streak : Nat, last : Nat]
    /\ outcomes \in Seq(Outcome)
    /\ Len(outcomes) <= ParityGenerations

\* Generations ascend, and the last one judged is the highest.
JudgedOnce ==
    /\ \A i \in 1..Len(outcomes) : outcomes[i].generation <= promotion.last
    /\ \A i, k \in 1..Len(outcomes) : i < k => outcomes[i].generation < outcomes[k].generation

StreakIsCounted ==
    /\ \A i \in 1..Len(outcomes) : i > Len(outcomes) - promotion.streak => outcomes[i].pass
    /\ Len(outcomes) < promotion.streak => Len(outcomes) = ParityGenerations

StageIsEarned ==
    promotion.stage \in {"PARITY_PASSED", "PRIMARY"} => promotion.streak >= ParityGenerations

PromotionInv == PromotionTypeOK /\ JudgedOnce /\ StreakIsCounted /\ StageIsEarned

\* What the ledger remembers of the outcomes after one more: the last ones.
Remembered(s, e) ==
    LET all == Append(s, e)
    IN  SubSeq(all, Max({1, Len(all) - ParityGenerations + 1}), Len(all))

\* The window of the last outcomes loses its oldest when it is full.
LEMMA LastOutcomes ==
  ASSUME NEW s \in Seq(Outcome), Len(s) <= ParityGenerations, NEW e \in Outcome
  PROVE  /\ Remembered(s, e) \in Seq(Outcome) /\ Remembered(s, e)[Len(Remembered(s, e))] = e
         /\ \/ /\ Len(s) < ParityGenerations /\ Len(Remembered(s, e)) = Len(s) + 1
               /\ \A i \in 1..Len(s) : Remembered(s, e)[i] = s[i]
            \/ /\ Len(s) = ParityGenerations /\ Len(Remembered(s, e)) = ParityGenerations
               /\ \A i \in 1..(Len(s) - 1) : Remembered(s, e)[i] = s[i + 1]
<1> DEFINE all == Append(s, e)
           first == Max({1, Len(all) - ParityGenerations + 1})
           kept == Remembered(s, e)
<1>1. /\ all \in Seq(Outcome) /\ Len(all) = Len(s) + 1 /\ ParityGenerations \in Nat \ {0}
      /\ all[Len(s) + 1] = e /\ \A i \in 1..Len(s) : all[i] = s[i]
  BY LedgerAssumption
<1>2. Len(s) \in Nat
  OBVIOUS
<1> HIDE DEF all
<1>3. first = IF Len(s) = ParityGenerations THEN 2 ELSE 1
  <2>1. Len(all) - ParityGenerations + 1 \in Int
    BY <1>1, <1>2
  <2>2. CASE Len(s) = ParityGenerations
    <3>1. Len(all) - ParityGenerations + 1 = 2
      BY <1>1, <1>2, <2>2
    <3>2. first = Max({1, 2})
      BY <3>1
    <3>3. Max({1, 2}) = 2
      BY DEF Max
    <3> QED BY <2>2, <3>2, <3>3
  <2>3. CASE Len(s) # ParityGenerations
    <3> DEFINE n == Len(all) - ParityGenerations + 1
    <3>1. n \in Int /\ n <= 1
      BY <1>1, <1>2, <2>3
    <3> HIDE DEF n
    <3>2. Max({1, n}) = 1
      BY <3>1 DEF Max
    <3> QED BY <2>3, <3>2 DEF n
  <2> QED BY <2>2, <2>3
<1> HIDE DEF first
<1>4. /\ kept \in Seq(Outcome) /\ Len(kept) = Len(s) + 2 - first
      /\ \A i \in 1..(Len(s) + 2 - first) : kept[i] = all[first + i - 1]
  <2>1. first \in 1..(Len(all) + 1) /\ Len(all) \in 0..Len(all)
    BY <1>1, <1>2, <1>3
  <2>2. \A i \in first..Len(all) : all[i] \in Outcome
    BY <1>1, <1>2, <1>3
  <2>3. kept = SubSeq(all, first, Len(all))
    BY DEF first, all, Remembered
  <2>4. Len(all) - first + 1 = Len(s) + 2 - first /\ first <= Len(all)
        /\ first \in Int /\ Len(all) \in Int
    BY <1>1, <1>2, <1>3
  <2>5. /\ kept \in Seq(Outcome) /\ Len(kept) = Len(all) - first + 1
        /\ \A i \in 1..(Len(all) - first + 1) : kept[i] = all[first + i - 1]
    <3> HIDE DEF kept
    <3>1. /\ SubSeq(all, first, Len(all)) \in Seq(Outcome)
          /\ Len(SubSeq(all, first, Len(all))) = IF first <= Len(all) THEN Len(all) - first + 1 ELSE 0
          /\ \A i \in 1..(Len(all) - first + 1) :
                SubSeq(all, first, Len(all))[i] = all[first + i - 1]
      BY <2>2, <2>4, SubSeqProperties
    <3> QED BY <2>3, <2>4, <3>1
  <2> QED BY <2>4, <2>5
<1> HIDE DEF kept
<1>5. CASE Len(s) = ParityGenerations
  <2>1. first = 2 /\ Len(kept) = ParityGenerations
    BY <1>1, <1>3, <1>4, <1>5
  <2>2. kept[Len(kept)] = e
    BY <1>1, <1>4, <1>5, <2>1
  <2>3. \A i \in 1..(Len(s) - 1) : kept[i] = s[i + 1]
    <3> TAKE i \in 1..(Len(s) - 1)
    <3>1. i + 1 \in 1..Len(s) /\ i \in 1..(Len(s) + 2 - first) /\ first + i - 1 = i + 1
      BY <1>2, <2>1
    <3> QED BY <1>1, <1>4, <3>1
  <2> QED BY <1>4, <1>5, <2>1, <2>2, <2>3 DEF kept
<1>6. CASE Len(s) # ParityGenerations
  <2>1. first = 1 /\ Len(kept) = Len(s) + 1
    BY <1>1, <1>2, <1>3, <1>4, <1>6
  <2>2. kept[Len(kept)] = e
    BY <1>1, <1>2, <1>4, <2>1
  <2>3. \A i \in 1..Len(s) : kept[i] = s[i]
    <3> TAKE i \in 1..Len(s)
    <3>1. i \in 1..(Len(s) + 2 - first) /\ first + i - 1 = i
      BY <1>2, <2>1
    <3> QED BY <1>1, <1>4, <3>1
  <2>4. Len(s) < ParityGenerations
    <3>1. Len(s) <= ParityGenerations /\ ParityGenerations \in Nat
      BY LedgerAssumption
    <3> QED BY <1>2, <1>6, <3>1
  <2> QED BY <1>4, <2>1, <2>2, <2>3, <2>4 DEF kept
<1> QED BY <1>5, <1>6

\* A judgement moves the streak on, or back to nothing.
LEMMA JudgedState ==
  ASSUME PromotionTypeOK, StageIsEarned, NEW pass \in BOOLEAN, NEW generation \in Nat,
         NEW activate \in BOOLEAN, activate => promotion.stage \in {"PARITY_PASSED", "PRIMARY"},
         NEW s, s = Advanced(promotion, pass, generation, activate)
  PROVE  /\ s \in [stage : Stages, streak : Nat, last : Nat] /\ s.last = generation
         /\ s.streak = 0 \/ (pass /\ s.streak = promotion.streak + 1)
         /\ s.stage \in {"PARITY_PASSED", "PRIMARY"} => s.streak >= ParityGenerations
<1>1. /\ promotion.stage \in Stages /\ promotion.streak \in Nat /\ ParityGenerations \in Nat
      /\ promotion \in [stage : Stages, streak : Nat, last : Nat]
  BY LedgerAssumption DEF PromotionTypeOK
<1>2. CASE ~pass
  <2> DEFINE stage == CASE promotion.stage \in {"PRIMARY", "HALTED"} -> "HALTED"
                        [] promotion.stage = "SHADOW" -> "SHADOW"
                        [] OTHER -> "PARITY_OBSERVING"
  <2>1. stage \in Stages /\ stage \notin {"PARITY_PASSED", "PRIMARY"}
    BY DEF Stages
  <2>2. s = [stage |-> stage, streak |-> 0, last |-> generation]
    BY <1>2 DEF Advanced, AfterFailure
  <2> HIDE DEF stage
  <2> QED BY <2>1, <2>2
<1>3. CASE pass /\ promotion.stage = "HALTED"
  <2>1. s = [promotion EXCEPT !.streak = 0, !.last = generation]
    BY <1>3 DEF Advanced, AfterPass
  <2>2. s = [stage |-> "HALTED", streak |-> 0, last |-> generation]
    BY <1>1, <1>3, <2>1
  <2>3. "HALTED" \in Stages
    BY DEF Stages
  <2> QED BY <2>2, <2>3
<1>4. CASE pass /\ promotion.stage # "HALTED"
  <2> DEFINE observed == IF promotion.stage = "SHADOW" THEN "PARITY_OBSERVING" ELSE promotion.stage
             streak == promotion.streak + 1
             stage == IF activate THEN "PRIMARY"
                      ELSE IF observed = "PARITY_OBSERVING" /\ streak >= ParityGenerations
                      THEN "PARITY_PASSED" ELSE observed
  <2>1. s = [stage |-> stage, streak |-> streak, last |-> generation]
    BY <1>4 DEF Advanced, AfterPass
  <2>2. stage \in Stages /\ streak \in Nat
    BY <1>1 DEF Stages
  <2>3. stage \in {"PARITY_PASSED", "PRIMARY"} => streak >= ParityGenerations
    BY <1>1 DEF StageIsEarned
  <2> HIDE DEF stage
  <2>4. s.stage = stage /\ s.streak = streak /\ s.last = generation
        /\ s \in [stage : Stages, streak : Nat, last : Nat]
    BY <2>1, <2>2
  <2> QED BY <1>4, <2>3, <2>4
<1> QED BY <1>2, <1>3, <1>4

\* A judged generation goes to the end of the window and moves the streak with it.
LEMMA ReconcileStep ==
  ASSUME PromotionInv, NEW c \in Coverages, NEW g \in {promotion.last, promotion.last + 1}, NEW a \in BOOLEAN,
         Reconcile(c, g, a)
  PROVE  PromotionInv'
<1> DEFINE pass == Passes(Projection(KnownFills, KnownIncome, c))
           e == [generation |-> g, pass |-> pass]
           n == Len(outcomes)
<1>1. pass \in BOOLEAN
  BY DEF Passes
<1>2. /\ promotion' = Advanced(promotion, pass, g, a)
      /\ outcomes' = LET all == Append(outcomes, e)
                     IN  SubSeq(all, Max({1, Len(all) - ParityGenerations + 1}), Len(all))
      /\ g > promotion.last
      /\ a => promotion.stage \in {"PARITY_PASSED", "PRIMARY"}
  BY DEF Reconcile, Judgeable
<1> HIDE DEF pass
<1>3. /\ promotion.last \in Nat /\ promotion.streak \in Nat /\ g \in Nat
      /\ n \in Nat /\ outcomes \in Seq(Outcome) /\ n <= ParityGenerations
      /\ ParityGenerations \in Nat \ {0}
  BY LedgerAssumption DEF PromotionInv, PromotionTypeOK
<1>4. e \in Outcome /\ e.generation = g /\ e.pass = pass
  BY <1>1, <1>3 DEF Outcome
<1> HIDE DEF e
<1>5. /\ outcomes' \in Seq(Outcome) /\ Len(outcomes') \in Nat /\ outcomes'[Len(outcomes')] = e
      /\ \/ /\ n < ParityGenerations /\ Len(outcomes') = n + 1
            /\ \A i \in 1..n : outcomes'[i] = outcomes[i]
         \/ /\ n = ParityGenerations /\ Len(outcomes') = n
            /\ \A i \in 1..(n - 1) : outcomes'[i] = outcomes[i + 1]
  <2>1. outcomes' = Remembered(outcomes, e)
    BY <1>2 DEF Remembered
  <2>2. outcomes \in Seq(Outcome) /\ Len(outcomes) <= ParityGenerations
    BY <1>3
  <2> DEFINE s == outcomes
             kept == Remembered(s, e)
  <2>3. /\ kept \in Seq(Outcome) /\ kept[Len(kept)] = e
        /\ \/ /\ Len(s) < ParityGenerations /\ Len(kept) = Len(s) + 1
              /\ \A i \in 1..Len(s) : kept[i] = s[i]
           \/ /\ Len(s) = ParityGenerations /\ Len(kept) = ParityGenerations
              /\ \A i \in 1..(Len(s) - 1) : kept[i] = s[i + 1]
    BY <1>4, <2>2, LastOutcomes
  <2> HIDE DEF kept
  <2>4. outcomes' = kept /\ Len(kept) \in Nat
    BY <2>1, <2>3 DEF kept
  <2> QED BY <2>3, <2>4
<1>6. /\ promotion' \in [stage : Stages, streak : Nat, last : Nat] /\ promotion'.last = g
      /\ promotion'.streak = 0 \/ (pass /\ promotion'.streak = promotion.streak + 1)
      /\ promotion'.stage \in {"PARITY_PASSED", "PRIMARY"} => promotion'.streak >= ParityGenerations
  BY <1>1, <1>2, <1>3, JudgedState, ZenonT(60) DEF PromotionInv
<1>7. PromotionTypeOK' /\ StageIsEarned'
  BY <1>3, <1>5, <1>6 DEF PromotionTypeOK, StageIsEarned
<1>9. PICK k \in Nat : /\ Len(outcomes') = k + 1 /\ outcomes'[k + 1] = e
                      /\ k + 1 <= ParityGenerations
  <2>1. Len(outcomes') \in Nat \ {0} /\ Len(outcomes') <= ParityGenerations
    BY <1>3, <1>5
  <2>2. PICK m \in Nat : m + 1 = Len(outcomes')
    <3>1. Len(outcomes') - 1 \in Nat /\ (Len(outcomes') - 1) + 1 = Len(outcomes')
      BY <2>1
    <3> QED BY <3>1
  <2> QED BY <1>5, <2>1, <2>2
\* What stays is a part of what was there, in its order and from its end.
<1>8. PICK d \in {0, 1} : /\ \A i \in 1..k : i + d \in 1..n /\ outcomes'[i] = outcomes[i + d]
                          /\ k + d = n /\ k \in Nat /\ (d = 1 => n = ParityGenerations)
  <2>1. CASE Len(outcomes') = n + 1 /\ \A i \in 1..n : outcomes'[i] = outcomes[i]
    <3> WITNESS 0 \in {0, 1}
    <3> QED BY <1>3, <1>9, <2>1
  <2>2. CASE /\ n = ParityGenerations /\ Len(outcomes') = n
             /\ \A i \in 1..(n - 1) : outcomes'[i] = outcomes[i + 1]
    <3> WITNESS 1 \in {0, 1}
    <3> QED BY <1>3, <1>9, <2>2
  <2> QED BY <1>5, <2>1, <2>2
<1> HIDE DEF n
<1>10. \A i \in 1..n : outcomes[i] \in Outcome /\ outcomes[i].generation \in Nat
  <2>1. \A i \in 1..n : outcomes[i] \in Outcome
    BY <1>3 DEF n
  <2> QED BY <2>1 DEF Outcome
<1>11. JudgedOnce'
  <2>1. \A i \in 1..n : outcomes[i].generation < g
    BY <1>2, <1>3, <1>10 DEF PromotionInv, JudgedOnce, n
  <2>2. \A i \in 1..(k + 1) : i \in 1..k \/ i = k + 1
    BY <1>8
  <2>3. \A i \in 1..k : outcomes'[i].generation < g /\ outcomes'[i].generation \in Nat
    BY <1>8, <1>10, <2>1
  <2>4. \A i, m \in 1..k : i < m => outcomes'[i].generation < outcomes'[m].generation
    <3> SUFFICES ASSUME NEW i \in 1..k, NEW m \in 1..k, i < m
                 PROVE  outcomes'[i].generation < outcomes'[m].generation
      OBVIOUS
    <3>1. i + d < m + d /\ i + d \in 1..n /\ m + d \in 1..n
      BY <1>8
    <3> QED BY <1>8, <3>1 DEF PromotionInv, JudgedOnce, n
  <2>5. outcomes'[k + 1].generation = g
    BY <1>4, <1>9
  <2>6. \A i \in 1..(k + 1) : outcomes'[i].generation <= g
    BY <1>3, <2>2, <2>3, <2>5
  <2>7. \A i, m \in 1..(k + 1) : i < m => outcomes'[i].generation < outcomes'[m].generation
    <3> SUFFICES ASSUME NEW i \in 1..(k + 1), NEW m \in 1..(k + 1), i < m
                 PROVE  outcomes'[i].generation < outcomes'[m].generation
      OBVIOUS
    <3>1. i \in 1..k
      BY <1>8
    <3>2. CASE m \in 1..k
      BY <2>4, <3>1, <3>2
    <3>3. CASE m = k + 1
      BY <2>3, <2>5, <3>1, <3>3
    <3> QED BY <2>2, <3>2, <3>3
  <2> QED BY <1>6, <1>9, <2>6, <2>7 DEF JudgedOnce
<1>12. StreakIsCounted'
  <2>1. CASE promotion'.streak = 0
    <3>1. \A i \in 1..(k + 1) : ~(i > k + 1 - 0)
      BY <1>8
    <3> QED BY <1>8, <1>9, <2>1, <3>1 DEF StreakIsCounted
  <2>2. CASE pass /\ promotion'.streak = promotion.streak + 1
    <3>1. \A i \in 1..n : i > n - promotion.streak => outcomes[i].pass
      BY DEF PromotionInv, StreakIsCounted, n
    <3>2. n < promotion.streak => n = ParityGenerations
      BY DEF PromotionInv, StreakIsCounted, n
    <3>3. \A i \in 1..(k + 1) : i > (k + 1) - promotion'.streak => outcomes'[i].pass
      <4> TAKE i \in 1..(k + 1)
      <4> HAVE i > (k + 1) - promotion'.streak
      <4>1. CASE i = k + 1
        BY <1>4, <1>9, <2>2, <4>1
      <4>2. CASE i \in 1..k
        <5>1. i + d \in 1..n /\ i + d > n - promotion.streak /\ outcomes'[i] = outcomes[i + d]
          BY <1>3, <1>8, <2>2, <4>2
        <5> QED BY <3>1, <5>1
      <4> QED BY <1>8, <4>1, <4>2
    <3>4. k + 1 < promotion'.streak => k + 1 = ParityGenerations
      <4> SUFFICES ASSUME k + 1 < promotion'.streak PROVE k + 1 = ParityGenerations
        OBVIOUS
      <4>1. CASE d = 1
        BY <1>3, <1>8, <4>1
      <4>2. CASE d = 0
        <5>1. n < promotion.streak /\ n = k
          BY <1>3, <1>8, <2>2, <4>2
        <5> QED BY <1>3, <1>9, <3>2, <5>1
      <4> QED BY <4>1, <4>2
    <3> QED BY <1>9, <3>3, <3>4 DEF StreakIsCounted
  <2> QED BY <1>6, <2>1, <2>2
<1> QED BY <1>7, <1>11, <1>12 DEF PromotionInv

\* Every step of the ledger keeps the invariant.
LEMMA PromotionStep == PromotionInv /\ [LedgerNext]_ledgerVars => PromotionInv'
<1> SUFFICES ASSUME PromotionInv, [LedgerNext]_ledgerVars PROVE PromotionInv'
  OBVIOUS
<1>1. CASE UNCHANGED <<promotion, outcomes>>
  BY <1>1 DEF PromotionInv, PromotionTypeOK, JudgedOnce, StreakIsCounted, StageIsEarned
<1>2. ASSUME NEW c \in Coverages, NEW g \in {promotion.last, promotion.last + 1},
             NEW a \in BOOLEAN, Reconcile(c, g, a)
      PROVE  PromotionInv'
  BY <1>2, ReconcileStep
<1> QED BY <1>1, <1>2 DEF LedgerNext, Trade, FetchFills, FetchIncome, ledgerVars

\* For any account, whatever trades and pages come between the generations: a
\* ledger that is primary, or may be made so, has passed as many different
\* generations in a row as the observation asks for (ledger.mjs,
\* advanceLedgerPromotion).
THEOREM PrimaryAlwaysEarned == LedgerSpec => []PrimaryIsEarned
<1>1. LedgerInit => PromotionInv
  BY LedgerAssumption DEF LedgerInit, PromotionInv, PromotionTypeOK, JudgedOnce, StreakIsCounted,
     StageIsEarned, Stages
<1>2. PromotionInv => PrimaryIsEarned
  <2> SUFFICES ASSUME PromotionInv, promotion.stage \in {"PARITY_PASSED", "PRIMARY"}
               PROVE  /\ \A i \in DOMAIN outcomes : outcomes[i].pass
                      /\ Cardinality({outcomes[i].generation : i \in DOMAIN outcomes})
                            = ParityGenerations
    BY DEF PrimaryIsEarned
  <2> DEFINE N == ParityGenerations
             G == {outcomes[i].generation : i \in 1..N}
  <2>1. /\ promotion.streak \in Nat /\ promotion.streak >= N /\ N \in Nat
        /\ outcomes \in Seq(Outcome) /\ Len(outcomes) = N /\ DOMAIN outcomes = 1..N
    BY LedgerAssumption DEF PromotionInv, PromotionTypeOK, StreakIsCounted, StageIsEarned
  <2>2. \A i \in 1..N : outcomes[i].pass
    BY <2>1 DEF PromotionInv, StreakIsCounted
  <2>3. \A i \in 1..N : outcomes[i].generation \in Nat
    <3>1. \A i \in 1..N : outcomes[i] \in Outcome
      BY <2>1
    <3> QED BY <3>1 DEF Outcome
  <2>4. \A i, k \in 1..N : outcomes[i].generation = outcomes[k].generation => i = k
    BY <2>1, <2>3 DEF PromotionInv, JudgedOnce
  <2>5. Cardinality(G) = N
    <3> DEFINE f == [i \in 1..N |-> outcomes[i].generation]
    <3>1. f \in Bijection(1..N, G)
      BY <2>4 DEF Bijection, Injection, Surjection, IsInjective
    <3>2. IsFiniteSet(1..N) /\ Cardinality(1..N) = N
      BY <2>1, FS_Interval
    <3> HIDE DEF f, G
    <3> QED BY <3>1, <3>2, FS_Bijection DEF ExistsBijection
  <2> QED BY <2>1, <2>2, <2>5
<1> QED BY <1>1, <1>2, PromotionStep, PTL DEF LedgerSpec

----------------------------------------------------------------------------
(* The storage of the browser: one invariant of the disk and the run.      *)

\* What a clear may leave under a key, what the three keys of a workspace may hold, and the
\* operations: `next` holds all keys before an operation has decided, three keys then.
Markers == {Marker(g) : g \in 0..(MaxGeneration - 1)}
Files == [FamilyKeys -> Values]
RunPcs == {"idle", "look", "ready", "undo", "write", "clear_fence", "clear_data", "mark_fence",
           "mark_data", "mark_journal", "repair", "repair_epoch", "repair_generation", "repair_data"}
ARun == [op : {"none", "recover", "replace", "clear"}, pc : RunPcs,
         writer : Writers \cup {Idle.writer}, next : [Keys -> Values] \cup Files,
         left : 0..4, final : BOOLEAN, cleared : BOOLEAN]

StorageTypeOK ==
    /\ user \in [Keys -> Values \cup Markers]
    /\ stored \in {Missing, Damaged} \cup 0..MaxGeneration
    /\ epoch \in {Missing, Damaged} \cup 1..epochs
    /\ token \in [Writers -> Tokens \cup {NoToken}]
    /\ run \in ARun
    /\ stamps \in 0..MaxStamps /\ epochs \in 0..MaxEpochs

\* A clear of generation g can be read off the fields it has or has not moved.
Fenced(g) ==
    /\ g \in 0..(MaxGeneration - 1)
    /\ stored # Damaged /\ epoch # Damaged /\ Generation \in {g, g + 1}

JournalOK ==
    /\ journal.kind \in {"NONE", "DAMAGED", "REPLACE", "CLEAR_ALL", "REPAIR_CLEAR_ALL"}
    /\ journal.kind = "NONE" => journal = NoJournal
    /\ journal.kind = "REPLACE" => journal.entries \in Files
    /\ journal.kind = "CLEAR_ALL" => Fenced(journal.before)
    /\ journal.kind = "REPAIR_CLEAR_ALL" => journal.epochAfter \in 1..epochs

\* One marker at most, and beside no journal that was written whole.
MarkersOK ==
    Marked # {} => /\ journal.kind \in {"NONE", "DAMAGED"}
                   /\ \E k \in Keys : Marked = {k} /\ Fenced(user[k].stamp)

\* What the operation under the lock relies on.
RunOK ==
    /\ run.op = "replace" => run.writer \in Writers /\ token[run.writer] # NoToken
    /\ run.op = "clear" /\ ~run.final => epochs < MaxEpochs
    /\ run.pc \in {"look", "ready", "repair"} => ~run.final
    /\ run.pc \in {"ready", "repair", "mark_journal"} => Marked = {}
    /\ run.pc \in {"ready", "mark_fence", "mark_data", "mark_journal"} =>
         journal.kind = "NONE" \/ (journal.kind = "DAMAGED" /\ run.op = "clear")
    /\ run.pc = "repair" => run.op = "clear"
    /\ run.pc \in {"undo", "write"} => journal.kind = "REPLACE"
    /\ run.pc = "undo" =>
         run.left <= 3 /\ \A i \in 1..3 : i > run.left => user[Family[i]] = journal.entries[Family[i]]
    /\ run.pc = "write" =>
         /\ run.op = "replace" /\ run.left >= 1 /\ run.next \in Files
         /\ token[run.writer] = CurrentToken
    /\ run.pc \in {"clear_fence", "clear_data"} => journal.kind = "CLEAR_ALL"
    /\ run.pc = "clear_data" => Generation = journal.before + 1
    /\ run.pc \in {"mark_fence", "mark_data"} => Marked # {}
    /\ run.pc = "mark_data" => \A k \in Marked : Generation = user[k].stamp + 1
    /\ run.pc \in {"repair_epoch", "repair_generation", "repair_data"} => journal.kind = "REPAIR_CLEAR_ALL"
    /\ run.pc \in {"repair_generation", "repair_data"} => epoch = journal.epochAfter
    /\ run.pc = "repair_data" => stored = 0

StorageInv == StorageTypeOK /\ JournalOK /\ MarkersOK /\ RunOK

----------------------------------------------------------------------------
(* What a reader finds, as a function of what is on disk.                  *)

MarkedIn(u) == {k \in Keys : u[k].kind = "marker"}
GenerationOf(g) == IF g = Missing THEN 0 ELSE g
EpochOf(e) == IF e = Missing THEN 0 ELSE e
PendingIn(u, j) ==
    {u[k].stamp : k \in MarkedIn(u)} \cup (IF j.kind = "CLEAR_ALL" THEN {j.before} ELSE {})
TokenOf(u, g, e, j) ==
    IF j.kind = "REPAIR_CLEAR_ALL" THEN [generation |-> 0, epoch |-> j.epochAfter]
    ELSE IF ~(/\ g # Damaged /\ e # Damaged
              /\ Cardinality(MarkedIn(u)) <= 1 /\ Cardinality(PendingIn(u, j)) <= 1
              /\ \A b \in PendingIn(u, j) : GenerationOf(g) \in {b, b + 1})
         THEN NoToken
    ELSE [generation |-> IF PendingIn(u, j) = {} THEN GenerationOf(g)
                         ELSE 1 + CHOOSE b \in PendingIn(u, j) : TRUE,
          epoch |-> EpochOf(e)]
RecoveredOf(u, j) ==
    IF MarkedIn(u) # {} \/ j.kind \in {"CLEAR_ALL", "REPAIR_CLEAR_ALL"} THEN Cleared
    ELSE IF j.kind = "REPLACE"
    THEN [k \in Keys |-> IF k \in FamilyKeys THEN j.entries[k] ELSE u[k]]
    ELSE u

\* They are what the module reads, before a step and after it.
LEMMA Views ==
  /\ CurrentToken = TokenOf(user, stored, epoch, journal)
  /\ CurrentToken' = TokenOf(user', stored', epoch', journal')
  /\ Recovered = RecoveredOf(user, journal) /\ Recovered' = RecoveredOf(user', journal')
  /\ Marked = MarkedIn(user) /\ Marked' = MarkedIn(user')
  /\ Generation = GenerationOf(stored) /\ Generation' = GenerationOf(stored')
  BY DEF CurrentToken, TokenOf, Readable, Pending, PendingIn, Marked, MarkedIn, Generation,
         GenerationOf, Epoch, EpochOf, Recovered, RecoveredOf

\* Three kinds of disks: no clear is under way, one is fenced, an epoch is repaired.
PlainDisk(u, j) == MarkedIn(u) = {} /\ j.kind \in {"NONE", "DAMAGED", "REPLACE"}
FencedDisk(u, g, e, j, b) ==
    /\ \/ MarkedIn(u) = {} /\ j.kind = "CLEAR_ALL" /\ j.before = b
       \/ /\ j.kind \in {"NONE", "DAMAGED"}
          /\ \E k \in Keys : MarkedIn(u) = {k} /\ u[k].stamp = b
    /\ b \in 0..(MaxGeneration - 1) /\ g # Damaged /\ e # Damaged /\ GenerationOf(g) \in {b, b + 1}

\* With no clear under way the token is what is stored, if it can be read.
LEMMA PlainToken ==
  ASSUME NEW u, NEW g, NEW e, NEW j, PlainDisk(u, j)
  PROVE  /\ g # Damaged /\ e # Damaged =>
              TokenOf(u, g, e, j) = [generation |-> GenerationOf(g), epoch |-> EpochOf(e)]
         /\ g = Damaged \/ e = Damaged => TokenOf(u, g, e, j) = NoToken
<1>1. MarkedIn(u) = {} /\ PendingIn(u, j) = {} /\ j.kind # "REPAIR_CLEAR_ALL"
  BY DEF PlainDisk, PendingIn
<1>2. Cardinality({}) = 0
  BY FS_EmptySet
<1> QED BY <1>1, <1>2 DEF TokenOf

\* Under a fence of generation b the token is the one the clear leaves, and nothing is found.
LEMMA FencedToken ==
  ASSUME NEW u, NEW g, NEW e, NEW j, NEW b, FencedDisk(u, g, e, j, b)
  PROVE  /\ TokenOf(u, g, e, j) = [generation |-> b + 1, epoch |-> EpochOf(e)]
         /\ RecoveredOf(u, j) = Cleared
<1>1. PendingIn(u, j) = {b} /\ Cardinality(MarkedIn(u)) <= 1 /\ j.kind # "REPAIR_CLEAR_ALL"
  <2>1. CASE MarkedIn(u) = {} /\ j.kind = "CLEAR_ALL" /\ j.before = b
    BY <2>1, FS_EmptySet DEF PendingIn
  <2>2. ASSUME j.kind \in {"NONE", "DAMAGED"}, NEW k \in Keys, MarkedIn(u) = {k}, u[k].stamp = b
        PROVE  PendingIn(u, j) = {b} /\ Cardinality(MarkedIn(u)) <= 1
    <3>1. Cardinality({k}) = 1
      BY FS_Singleton
    <3> QED BY <2>2, <3>1 DEF PendingIn
  <2> QED BY <2>1, <2>2 DEF FencedDisk
<1>2. Cardinality({b}) = 1
  BY FS_Singleton
<1>3. (CHOOSE x \in {b} : TRUE) = b
  OBVIOUS
<1>4. g # Damaged /\ e # Damaged /\ GenerationOf(g) \in {b, b + 1} /\ b \in Int
  BY DEF FencedDisk
<1>5. TokenOf(u, g, e, j) = [generation |-> 1 + b, epoch |-> EpochOf(e)]
  BY <1>1, <1>2, <1>3, <1>4 DEF TokenOf
<1>6. RecoveredOf(u, j) = Cleared
  BY DEF FencedDisk, RecoveredOf
<1> QED BY <1>4, <1>5, <1>6

\* Values are of three kinds.
LEMMA KindsOf ==
  /\ \A v \in Values : v.kind \in {"none", "data"}
  /\ \A v \in Markers : v.kind = "marker" /\ v.stamp \in 0..(MaxGeneration - 1)
  /\ NoValue \in Values /\ NoValue.kind = "none" /\ Cleared \in [Keys -> Values]
  /\ MarkedIn(Cleared) = {}
  /\ \A v \in Values \cup Markers : v.kind = "marker" => v \in Markers
<1>1. \A v \in Values : v.kind \in {"none", "data"}
  BY DEF Values, Data, NoValue
<1>2. \A v \in Markers : v.kind = "marker" /\ v.stamp \in 0..(MaxGeneration - 1)
  BY DEF Markers, Marker
<1>3. NoValue \in Values /\ NoValue.kind = "none"
  BY DEF Values, NoValue
<1>4. Cleared \in [Keys -> Values] /\ \A k \in Keys : Cleared[k] = NoValue
  BY <1>3 DEF Cleared
<1> QED BY <1>1, <1>2, <1>3, <1>4 DEF MarkedIn

\* What the invariant says of the disk.
LEMMA Disks ==
  ASSUME StorageInv
  PROVE  \/ PlainDisk(user, journal)
         \/ \E b \in 0..(MaxGeneration - 1) : FencedDisk(user, stored, epoch, journal, b)
         \/ journal.kind = "REPAIR_CLEAR_ALL" /\ Marked = {}
<1>1. CASE Marked # {}
  BY <1>1, Views DEF StorageInv, MarkersOK, Fenced, FencedDisk
<1>2. CASE Marked = {} /\ journal.kind = "CLEAR_ALL"
  BY <1>2, Views DEF StorageInv, JournalOK, Fenced, FencedDisk
<1>3. CASE Marked = {} /\ journal.kind # "CLEAR_ALL"
  BY <1>3, Views DEF StorageInv, JournalOK, PlainDisk
<1> QED BY <1>1, <1>2, <1>3

\* The token that is read is one, or none.
LEMMA TokenRead ==
  ASSUME StorageInv
  PROVE  /\ CurrentToken \in Tokens \cup {NoToken}
         /\ CurrentToken # NoToken => CurrentToken.epoch <= epochs
<1>1. /\ MaxGeneration \in Nat /\ MaxEpochs \in Nat /\ epochs \in 0..MaxEpochs
      /\ stored # Damaged => GenerationOf(stored) \in 0..MaxGeneration
      /\ epoch # Damaged => EpochOf(epoch) \in 0..epochs
  BY BoundsAssumption DEF StorageInv, StorageTypeOK, GenerationOf, EpochOf, Missing, Damaged
<1>2. CASE PlainDisk(user, journal)
  BY <1>1, <1>2, PlainToken, Views DEF Tokens
<1>3. ASSUME NEW b \in 0..(MaxGeneration - 1), FencedDisk(user, stored, epoch, journal, b)
      PROVE  CurrentToken \in Tokens /\ CurrentToken.epoch <= epochs
  <2>1. TokenOf(user, stored, epoch, journal) = [generation |-> b + 1, epoch |-> EpochOf(epoch)]
    BY <1>3, FencedToken
  <2>2. epoch # Damaged
    BY <1>3 DEF FencedDisk
  <2>3. CurrentToken = [generation |-> b + 1, epoch |-> EpochOf(epoch)]
    BY <2>1, Views
  <2> QED BY <1>1, <2>2, <2>3 DEF Tokens
<1>4. CASE journal.kind = "REPAIR_CLEAR_ALL"
  <2>1. CurrentToken = [generation |-> 0, epoch |-> journal.epochAfter]
    BY <1>4 DEF CurrentToken
  <2> QED BY <1>1, <1>4, <2>1 DEF Tokens, StorageInv, JournalOK
<1> QED BY <1>2, <1>3, <1>4, Disks

\* No operation runs: it is well typed.
LEMMA IdleRun == Idle \in ARun /\ Idle.op = "none" /\ Idle.pc = "idle" /\ ~Idle.final
<1>1. Cleared \in [Keys -> Values]
  BY KindsOf
<1> QED BY <1>1 DEF Idle, ARun, RunPcs

\* Going to a point changes nothing else of the operation.
LEMMA GotoRun ==
  ASSUME NEW p \in RunPcs, run \in ARun, Goto(p)
  PROVE  /\ run' \in ARun /\ run'.pc = p /\ run'.op = run.op /\ run'.writer = run.writer
         /\ run'.next = run.next /\ run'.left = run.left /\ run'.final = run.final
  BY DEF Goto, ARun

----------------------------------------------------------------------------
(* What a step of the lock's holder may do to what a reader finds.         *)

Unmoved == Recovered' = Recovered /\ CurrentToken' = CurrentToken
Emptied == Recovered' = Cleared /\ CurrentToken' \in Tokens /\ Earlier(CurrentToken, CurrentToken')
Renewed ==
    /\ CurrentToken' = CurrentToken /\ CurrentToken # NoToken /\ Recovered' \in [Keys -> Values]
    /\ \E w \in Writers : token[w] = CurrentToken
DiskInv == StorageTypeOK /\ JournalOK /\ MarkersOK
GoesOn == DiskInv' /\ RunOK' /\ token' = token /\ (Unmoved \/ Emptied \/ Renewed)

DiskStays == UNCHANGED <<user, stored, epoch, journal, token, stamps, epochs>>

\* A finished operation relies on nothing.
LEMMA IdleOK ==
  ASSUME Finish
  PROVE  RunOK' /\ run' \in ARun
  BY IdleRun DEF Finish, RunOK

\* A step that leaves the disk alone leaves what a reader finds.
LEMMA SameDisk ==
  ASSUME StorageInv, DiskStays, run' \in ARun
  PROVE  /\ DiskInv' /\ Unmoved /\ token' = token
         /\ Marked' = Marked /\ Generation' = Generation
<1>1. UNCHANGED <<user, stored, epoch, journal, token, stamps, epochs>>
  BY DEF DiskStays
<1>2. Unmoved /\ Marked' = Marked /\ Generation' = Generation
  BY <1>1, Views DEF Unmoved
<1>3. StorageTypeOK' /\ JournalOK'
  BY <1>1 DEF StorageInv, StorageTypeOK, JournalOK, Fenced, Generation
<1>4. MarkersOK'
  BY <1>1, <1>2 DEF StorageInv, MarkersOK, Fenced
<1> QED BY <1>1, <1>2, <1>3, <1>4 DEF DiskInv

\* An operation may end anywhere.
LEMMA Finishing ==
  ASSUME StorageInv, DiskStays, Finish
  PROVE  GoesOn
  BY IdleOK, SameDisk DEF GoesOn

\* A key of a store that is being cleared goes.
LEMMA KeyGoes ==
  ASSUME StorageInv, NEW k \in Keys, user[k].kind # "marker", user' = Put(k, NoValue),
         Marked # {} \/ journal.kind \in {"CLEAR_ALL", "REPAIR_CLEAR_ALL"},
         UNCHANGED <<stored, epoch, journal, token, stamps, epochs>>, run' \in ARun
  PROVE  /\ DiskInv' /\ Unmoved
         /\ Marked' = Marked /\ Generation' = Generation
         /\ \A l \in Marked : user'[l] = user[l]
<1>1. user \in [Keys -> Values \cup Markers] /\ user' = [user EXCEPT ![k] = NoValue]
  BY DEF StorageInv, StorageTypeOK, Put
<1>2. user' \in [Keys -> Values \cup Markers] /\ user'[k] = NoValue /\ \A l \in Keys : l # k => user'[l] = user[l]
  BY <1>1, KindsOf
<1>3. Marked' = Marked /\ Generation' = Generation /\ \A l \in Marked : user'[l] = user[l]
  BY <1>2, KindsOf DEF Marked, Generation
<1>4. StorageTypeOK' /\ JournalOK'
  BY <1>2 DEF StorageInv, StorageTypeOK, JournalOK, Fenced, Generation
<1>5. MarkersOK'
  BY <1>2, <1>3 DEF StorageInv, MarkersOK, Fenced
<1>6. Unmoved
  <2>1. ASSUME NEW b \in 0..(MaxGeneration - 1), FencedDisk(user, stored, epoch, journal, b)
        PROVE  Unmoved
    <3>1. FencedDisk(user', stored', epoch', journal', b)
      <4>1. MarkedIn(user') = MarkedIn(user) /\ \A l \in MarkedIn(user) : user'[l] = user[l]
        BY <1>3, Views
      <4> QED BY <2>1, <4>1 DEF FencedDisk
    <3>2. /\ TokenOf(user, stored, epoch, journal) = TokenOf(user', stored', epoch', journal')
          /\ RecoveredOf(user, journal) = RecoveredOf(user', journal')
      BY <2>1, <3>1, FencedToken
    <3> QED BY <3>2, Views DEF Unmoved
  <2>2. CASE journal.kind = "REPAIR_CLEAR_ALL"
    BY <2>2 DEF Unmoved, CurrentToken, Recovered
  <2>3. ~PlainDisk(user, journal)
    BY Views DEF PlainDisk
  <2> QED BY <2>1, <2>2, <2>3, Disks
<1> QED BY <1>3, <1>4, <1>5, <1>6 DEF DiskInv

\* The generation of a clear moves.
LEMMA FenceMoves ==
  ASSUME StorageInv, NEW b \in 0..(MaxGeneration - 1), FencedDisk(user, stored, epoch, journal, b),
         stored' = b + 1, UNCHANGED <<user, epoch, journal, token, stamps, epochs>>, run' \in ARun
  PROVE  /\ DiskInv' /\ Unmoved /\ Marked' = Marked /\ Generation' = b + 1
<1>1. Marked' = Marked /\ Generation' = b + 1 /\ b + 1 # Missing /\ b + 1 # Damaged /\ b + 1 \in 0..MaxGeneration
  BY BoundsAssumption DEF Marked, Generation, Missing, Damaged
<1>2. FencedDisk(user', stored', epoch', journal', b)
  <2>1. MarkedIn(user') = MarkedIn(user) /\ GenerationOf(stored') = b + 1
    BY <1>1, Views
  <2> QED BY <1>1, <2>1 DEF FencedDisk
<1>3. /\ TokenOf(user, stored, epoch, journal) = TokenOf(user', stored', epoch', journal')
      /\ RecoveredOf(user, journal) = RecoveredOf(user', journal')
  BY <1>2, FencedToken
<1>4. Unmoved
  BY <1>3, Views DEF Unmoved
<1>5. StorageTypeOK'
  BY <1>1 DEF StorageInv, StorageTypeOK
<1>6. JournalOK' /\ MarkersOK'
  <2>1. /\ journal.kind = "CLEAR_ALL" => journal.before = b
        /\ \A k \in Marked : user[k].stamp = b
    BY Views DEF FencedDisk
  <2>2. epoch' # Damaged
    BY DEF FencedDisk
  <2> QED BY <1>1, <2>1, <2>2 DEF StorageInv, JournalOK, MarkersOK, Fenced
<1> QED BY <1>1, <1>4, <1>5, <1>6 DEF DiskInv

\* A clear is through: nothing is left, and the fence is the one it set.
LEMMA FenceEnds ==
  ASSUME StorageInv, NEW b \in 0..(MaxGeneration - 1), FencedDisk(user, stored, epoch, journal, b),
         Generation = b + 1, user' = Cleared,
         journal' = NoJournal \/ (journal' = journal /\ journal.kind \in {"NONE", "DAMAGED"}),
         UNCHANGED <<stored, epoch, token, stamps, epochs>>, run' \in ARun
  PROVE  /\ DiskInv' /\ Unmoved /\ Marked' = {}
<1>1. user' \in [Keys -> Values] /\ Marked' = {}
  BY KindsOf, Views
<1>2. PlainDisk(user', journal') /\ journal'.kind \in {"NONE", "DAMAGED"}
      /\ (journal'.kind = "NONE" => journal' = NoJournal)
  BY <1>1, Views DEF PlainDisk, NoJournal, StorageInv, JournalOK
<1>3. stored # Damaged /\ epoch # Damaged
  BY DEF FencedDisk
<1>4. TokenOf(user', stored', epoch', journal') = [generation |-> GenerationOf(stored), epoch |-> EpochOf(epoch)]
  BY <1>2, <1>3, PlainToken
<1>5. TokenOf(user, stored, epoch, journal) = [generation |-> b + 1, epoch |-> EpochOf(epoch)]
      /\ RecoveredOf(user, journal) = Cleared
  BY FencedToken
<1>6. RecoveredOf(user', journal') = Cleared
  BY <1>2 DEF RecoveredOf, PlainDisk
<1>7. Unmoved
  BY <1>4, <1>5, <1>6, Views DEF Unmoved
<1>8. StorageTypeOK' /\ JournalOK' /\ MarkersOK'
  BY <1>1, <1>2 DEF StorageInv, StorageTypeOK, JournalOK, MarkersOK
<1> QED BY <1>1, <1>7, <1>8 DEF DiskInv

\* Keys that are enumerated.
LEMMA FirstKeys ==
  ASSUME NEW S \in SUBSET Keys, S # {}
  PROVE  FirstKeyOf(S) \in S
  BY DEF FirstKeyOf

\* No key is left.
LEMMA NothingLeft ==
  ASSUME StorageInv, Present = {}
  PROVE  user = Cleared /\ Marked = {}
<1>1. user \in [Keys -> Values \cup Markers] /\ \A k \in Keys : user[k] = NoValue
  BY DEF StorageInv, StorageTypeOK, Present
<1>2. user = Cleared
  BY <1>1 DEF Cleared
<1> QED BY <1>1, <1>2, KindsOf DEF Marked

----------------------------------------------------------------------------
(* Recovery.                                                               *)

\* Where recovery goes when it is through.
LEMMA ReadyOK ==
  ASSUME StorageInv, Ready \/ ReadyCleared, ~run.final, Marked' = {},
         journal'.kind = "NONE" \/ (journal'.kind = "DAMAGED" /\ run.op = "clear"),
         UNCHANGED <<token, epochs>>
  PROVE  RunOK' /\ run' \in ARun
<1>1. CASE Finish
  BY <1>1, IdleOK
<1>2. ASSUME run' = [run EXCEPT !.pc = "ready"] \/ run' = [run EXCEPT !.pc = "ready", !.cleared = TRUE]
      PROVE  RunOK' /\ run' \in ARun
  <2>1. /\ run' \in ARun /\ run'.pc = "ready" /\ run'.op = run.op /\ run'.writer = run.writer
        /\ run'.final = run.final
    BY <1>2 DEF StorageInv, StorageTypeOK, ARun, RunPcs
  <2> QED BY <2>1 DEF StorageInv, RunOK
<1> QED BY <1>1, <1>2 DEF Ready, ReadyCleared, Goto

\* The forward part of a clear ends the operation or goes back to it.
LEMMA ForwardOK ==
  ASSUME StorageInv, Forward, Marked' = {},
         journal'.kind = "NONE" \/ (journal'.kind = "DAMAGED" /\ run.op = "clear"),
         UNCHANGED <<token, epochs>>
  PROVE  RunOK' /\ run' \in ARun
  BY IdleOK, ReadyOK DEF Forward

\* Recovery finds out what to do.  It refuses no marker the invariant allows.
LEMMA LookGoesOn ==
  ASSUME StorageInv, Look
  PROVE  GoesOn
<1>t. DiskStays /\ run \in ARun /\ run.pc = "look" /\ ~run.final /\ run.op # "dismiss"
  BY DEF Look, DiskStays, diskVars, boundVars, At, StorageInv, StorageTypeOK, RunOK, ARun
<1>0. ASSUME RunOK', run' \in ARun PROVE GoesOn
  BY <1>0, <1>t, SameDisk DEF GoesOn
<1>d. UNCHANGED <<user, stored, epoch, journal, token, epochs>> /\ Marked' = Marked /\ Generation' = Generation
  BY <1>t DEF DiskStays, Marked, Generation
<1>g. ASSUME NEW p \in RunPcs, Goto(p) PROVE
         /\ run' \in ARun /\ run'.pc = p /\ run'.op = run.op /\ run'.writer = run.writer /\ run'.final = run.final
         /\ run'.left = run.left
  BY <1>g, <1>t, GotoRun
<1>f. CASE Finish
  BY <1>f, <1>0, IdleOK
<1>1. CASE journal.kind = "NONE" /\ Marked = {} /\ Ready
  BY <1>1, <1>t, <1>d, <1>0, ReadyOK
<1>2. CASE Marked # {} /\ journal.kind \in {"NONE", "DAMAGED"} /\ Goto("mark_fence")
           /\ (journal.kind = "DAMAGED" => run.op = "clear")
  <2>1. RunOK' /\ run' \in ARun
    BY <1>2, <1>d, <1>g, <1>t DEF RunPcs, RunOK, StorageInv
  <2> QED BY <2>1, <1>0
<1>3. CASE journal.kind = "REPLACE" /\ run' = [run EXCEPT !.pc = "undo", !.left = 3]
  <2>0. run \in ARun /\ run' = [run EXCEPT !.pc = "undo", !.left = 3] /\ 3 \in 0..4
    BY <1>3, <1>t
  <2>1. /\ run' \in ARun /\ run'.pc = "undo" /\ run'.op = run.op /\ run'.writer = run.writer
        /\ run'.final = run.final /\ run'.left = 3
    BY <2>0 DEF ARun, RunPcs
  <2>2. RunOK'
    BY <2>1, <1>3, <1>d, <1>t DEF RunOK, StorageInv
  <2> QED BY <2>1, <2>2, <1>0
<1>4. CASE journal.kind = "CLEAR_ALL" /\ Goto("clear_fence")
  <2>1. RunOK' /\ run' \in ARun
    BY <1>4, <1>d, <1>g, <1>t DEF RunPcs, RunOK, StorageInv
  <2> QED BY <2>1, <1>0
<1>5. CASE journal.kind = "REPAIR_CLEAR_ALL" /\ Goto("repair_epoch")
  <2>1. RunOK' /\ run' \in ARun
    BY <1>5, <1>d, <1>g, <1>t DEF RunPcs, RunOK, StorageInv
  <2> QED BY <2>1, <1>0
<1>6. CASE journal.kind = "DAMAGED" /\ Marked = {} /\ run.op = "clear" /\ Goto("ready")
  <2>1. RunOK' /\ run' \in ARun
    BY <1>6, <1>d, <1>g, <1>t DEF RunPcs, RunOK, StorageInv
  <2> QED BY <2>1, <1>0
\* A fence can be read, and a generation under a clear is not damaged.
<1>7. Marked # {} => Readable
  <2> SUFFICES ASSUME Marked # {} PROVE Readable
    OBVIOUS
  <2>1. PICK b \in 0..(MaxGeneration - 1) : FencedDisk(user, stored, epoch, journal, b)
    BY Disks, Views DEF PlainDisk, StorageInv, MarkersOK
  <2>2. CurrentToken # NoToken
    <3>1. CurrentToken = [generation |-> b + 1, epoch |-> EpochOf(epoch)]
      BY <2>1, FencedToken, Views
    <3>2. CurrentToken.generation = b + 1 /\ NoToken.generation = -2
      BY <3>1 DEF NoToken, Damaged
    <3> QED BY <3>2
  <2>3. journal.kind # "REPAIR_CLEAR_ALL"
    BY DEF StorageInv, MarkersOK
  <2> QED BY <2>2, <2>3 DEF CurrentToken
<1>8. journal.kind = "CLEAR_ALL" => stored # Damaged /\ Generation \in {journal.before, journal.before + 1}
  BY DEF StorageInv, JournalOK, Fenced
<1> QED BY <1>f, <1>1, <1>2, <1>3, <1>4, <1>5, <1>6, <1>7, <1>8, <1>t DEF Look

\* Keys of the workspace are written; the journal says what a reader finds.
LEMMA FamilyWrite ==
  ASSUME StorageInv, journal.kind = "REPLACE", NEW k \in FamilyKeys, NEW v \in Values,
         user' = Put(k, v), UNCHANGED <<stored, epoch, journal, token, stamps, epochs>>, run' \in ARun
  PROVE  /\ DiskInv' /\ Unmoved /\ Marked = {} /\ Marked' = {}
         /\ user' \in [Keys -> Values \cup Markers]
         /\ user'[k] = v /\ \A l \in Keys : l # k => user'[l] = user[l]
<1>1. k \in Keys /\ user \in [Keys -> Values \cup Markers] /\ user' = [user EXCEPT ![k] = v]
  BY DEF Keys, StorageInv, StorageTypeOK, Put
<1>2. user' \in [Keys -> Values \cup Markers] /\ user'[k] = v /\ \A l \in Keys : l # k => user'[l] = user[l]
  BY <1>1
<1>3. Marked = {}
  BY DEF StorageInv, MarkersOK
<1>4. Marked' = {}
  BY <1>1, <1>2, <1>3, KindsOf DEF Marked
<1>5. PlainDisk(user, journal) /\ PlainDisk(user', journal')
  BY <1>3, <1>4, Views DEF PlainDisk
<1>6. TokenOf(user, stored, epoch, journal) = TokenOf(user', stored', epoch', journal')
  BY <1>5, PlainToken
<1>7. RecoveredOf(user', journal') = RecoveredOf(user, journal)
  BY <1>2, <1>5 DEF RecoveredOf, PlainDisk
<1>8. Unmoved
  BY <1>6, <1>7, Views DEF Unmoved
<1>9. StorageTypeOK' /\ JournalOK' /\ MarkersOK'
  BY <1>2, <1>4 DEF StorageInv, StorageTypeOK, JournalOK, MarkersOK
<1> QED BY <1>2, <1>3, <1>4, <1>8, <1>9 DEF DiskInv

\* A key of the journal is put back.
LEMMA UndoGoesOn ==
  ASSUME StorageInv, Undo
  PROVE  GoesOn
<1>t. /\ run \in ARun /\ run.pc = "undo" /\ run.left \in 1..3 /\ journal.kind = "REPLACE"
      /\ journal.entries \in Files /\ user \in [Keys -> Values \cup Markers]
      /\ \A i \in 1..3 : i > run.left => user[Family[i]] = journal.entries[Family[i]]
  BY DEF Undo, At, StorageInv, StorageTypeOK, RunOK, JournalOK, ARun
<1>1. CASE Finish /\ UNCHANGED <<diskVars, token, boundVars>>
  BY <1>1, Finishing DEF DiskStays, diskVars, boundVars
<1>2. ASSUME Write(UndoStep(run.left), stored, epoch, journal), run' = [run EXCEPT !.left = run.left - 1]
      PROVE  GoesOn
  <2>0. PICK i \in 1..3 : i = run.left
    BY <1>t
  <2> DEFINE k == Family[i]
             v == journal.entries[k]
  <2>1. k \in FamilyKeys /\ k \in Keys /\ v \in Values
    BY <1>t DEF FamilyKeys, Keys, Files
  <2>2. user' = Put(k, v) /\ UNCHANGED <<stored, epoch, journal, token, stamps, epochs>>
    BY <1>2, <2>0 DEF Write, UndoStep, boundVars
  <2>3. i - 1 \in 0..4 /\ i - 1 <= 3
    OBVIOUS
  <2>4. /\ run' \in ARun /\ run'.pc = "undo" /\ run'.op = run.op /\ run'.writer = run.writer
        /\ run'.final = run.final /\ run'.left = i - 1
    BY <1>2, <1>t, <2>0, <2>3 DEF ARun
  <2> HIDE DEF v
  <2>5. /\ DiskInv' /\ Unmoved /\ Marked' = {}
        /\ user'[k] = v /\ \A l \in Keys : l # k => user'[l] = user[l]
    BY <1>t, <2>1, <2>2, <2>4, FamilyWrite
  <2>6. \A j \in 1..3 : j > i - 1 => user'[Family[j]] = journal.entries[Family[j]]
    <3> SUFFICES ASSUME NEW j \in 1..3, j > i - 1 PROVE user'[Family[j]] = journal.entries[Family[j]]
      OBVIOUS
    <3>1. Family[j] \in Keys
      BY DEF FamilyKeys, Keys
    <3>2. CASE j = i
      BY <2>5, <3>2 DEF v
    <3>3. CASE j > i
      BY <1>t, <2>0, <2>5, <3>1, <3>3 DEF v
    <3> QED BY <3>2, <3>3
  <2>7. RunOK'
    BY <1>t, <2>2, <2>3, <2>4, <2>5, <2>6 DEF RunOK, StorageInv
  <2> QED BY <2>2, <2>5, <2>7 DEF GoesOn
<1> QED BY <1>1, <1>2 DEF Undo

\* The undo is through: what is stored is what the journal said.
LEMMA UndoDoneGoesOn ==
  ASSUME StorageInv, UndoDone
  PROVE  GoesOn
<1>t. /\ run \in ARun /\ run.pc = "undo" /\ run.left = 0 /\ journal.kind = "REPLACE" /\ Marked = {}
      /\ journal.entries \in Files /\ user \in [Keys -> Values \cup Markers]
      /\ \A i \in 1..3 : user[Family[i]] = journal.entries[Family[i]]
  BY DEF UndoDone, At, StorageInv, StorageTypeOK, RunOK, JournalOK, MarkersOK
<1>1. journal' = NoJournal /\ UNCHANGED <<user, stored, epoch, token, stamps, epochs>>
  BY DEF UndoDone, Write, boundVars
<1>2. Marked' = {} /\ journal'.kind = "NONE"
  BY <1>t, <1>1 DEF Marked, NoJournal
<1>3. RunOK' /\ run' \in ARun
  BY <1>1, <1>2, IdleOK, ReadyOK DEF UndoDone
<1>4. PlainDisk(user, journal) /\ PlainDisk(user', journal')
  BY <1>t, <1>2, Views DEF PlainDisk
<1>5. TokenOf(user, stored, epoch, journal) = TokenOf(user', stored', epoch', journal')
  BY <1>1, <1>4, PlainToken
<1>6. \A k \in FamilyKeys : user[k] = journal.entries[k]
  BY <1>t DEF FamilyKeys
<1>7. RecoveredOf(user, journal) = user /\ RecoveredOf(user', journal') = user
  <2>1. [k \in Keys |-> IF k \in FamilyKeys THEN journal.entries[k] ELSE user[k]] = user
    BY <1>t, <1>6
  <2> QED BY <1>1, <1>2, <1>4, <1>t, <2>1 DEF RecoveredOf, PlainDisk
<1>8. Unmoved
  BY <1>5, <1>7, Views DEF Unmoved
<1>9. StorageTypeOK' /\ JournalOK' /\ MarkersOK'
  BY <1>1, <1>2, <1>3 DEF StorageInv, StorageTypeOK, JournalOK, MarkersOK
<1> QED BY <1>1, <1>3, <1>8, <1>9 DEF GoesOn, DiskInv

\* The state of a clear whose journal is written.
LEMMA ClearJournalled ==
  ASSUME StorageInv, journal.kind = "CLEAR_ALL"
  PROVE  /\ journal.before \in 0..(MaxGeneration - 1) /\ Marked = {}
         /\ FencedDisk(user, stored, epoch, journal, journal.before)
  BY Views DEF StorageInv, JournalOK, MarkersOK, Fenced, FencedDisk

\* The generation of a clear moves, or a key makes room for it.
LEMMA ClearFenceGoesOn ==
  ASSUME StorageInv, ClearFence
  PROVE  GoesOn
<1> DEFINE b == journal.before
<1>t. /\ run \in ARun /\ run.pc = "clear_fence" /\ journal.kind = "CLEAR_ALL"
  BY DEF ClearFence, At, StorageInv, StorageTypeOK, RunOK
<1>b. b \in 0..(MaxGeneration - 1) /\ Marked = {} /\ FencedDisk(user, stored, epoch, journal, b)
  BY <1>t, ClearJournalled
<1>g. ASSUME Goto("clear_data") PROVE
         /\ run' \in ARun /\ run'.pc = "clear_data" /\ run'.op = run.op /\ run'.writer = run.writer
         /\ run'.final = run.final
  BY <1>g, <1>t, GotoRun DEF RunPcs
<1>1. CASE Generation = b + 1 /\ Goto("clear_data") /\ UNCHANGED <<diskVars, token, boundVars>>
  <2>1. DiskStays
    BY <1>1 DEF DiskStays, diskVars, boundVars
  <2>2. DiskInv' /\ Unmoved /\ token' = token /\ Marked' = Marked /\ Generation' = Generation
    BY <1>1, <1>g, <2>1, SameDisk
  <2>3. RunOK'
    BY <1>1, <1>g, <1>t, <2>1, <2>2 DEF DiskStays, RunOK, StorageInv
  <2> QED BY <2>2, <2>3 DEF GoesOn
<1>2. CASE Write(user, b + 1, epoch, journal) /\ Goto("clear_data")
  <2>1. stored' = b + 1 /\ UNCHANGED <<user, epoch, journal, token, stamps, epochs>>
    BY <1>2 DEF Write, boundVars
  <2>2. DiskInv' /\ Unmoved /\ Marked' = Marked /\ Generation' = b + 1
    BY <1>2, <1>b, <1>g, <2>1, FenceMoves
  <2>3. RunOK'
    BY <1>2, <1>g, <1>t, <2>1, <2>2 DEF RunOK, StorageInv
  <2> QED BY <2>1, <2>2, <2>3 DEF GoesOn
<1>3. CASE Finish /\ UNCHANGED <<diskVars, token, boundVars>>
  BY <1>3, Finishing DEF DiskStays, diskVars, boundVars
<1>4. CASE Present # {} /\ Write(Put(FirstKeyOf(Present), NoValue), stored, epoch, journal) /\ UNCHANGED run
  <2>0. PICK k \in Present : k = FirstKeyOf(Present)
    BY <1>4, FirstKeys DEF Present
  <2>1. /\ user' = Put(k, NoValue) /\ UNCHANGED <<stored, epoch, journal, token, stamps, epochs>>
        /\ run' = run /\ k \in Keys
    BY <1>4, <2>0 DEF Write, boundVars, Present
  <2>2. user[k].kind # "marker"
    BY <1>b, <2>1 DEF Marked
  <2>3. DiskInv' /\ Unmoved /\ Marked' = Marked /\ Generation' = Generation
    BY <1>t, <2>1, <2>2, KeyGoes
  <2>4. RunOK'
    BY <1>t, <2>1, <2>3 DEF RunOK, StorageInv
  <2> QED BY <2>1, <2>3, <2>4 DEF GoesOn
<1> QED BY <1>1, <1>2, <1>3, <1>4 DEF ClearFence

\* The keys of a clear go, and its journal last.
LEMMA ClearDataGoesOn ==
  ASSUME StorageInv, ClearData
  PROVE  GoesOn
<1> DEFINE b == journal.before
<1>t. /\ run \in ARun /\ run.pc = "clear_data" /\ journal.kind = "CLEAR_ALL" /\ Generation = b + 1
  BY DEF ClearData, At, StorageInv, StorageTypeOK, RunOK
<1>b. b \in 0..(MaxGeneration - 1) /\ Marked = {} /\ FencedDisk(user, stored, epoch, journal, b)
  BY <1>t, ClearJournalled
<1>1. CASE Present # {} /\ Write(Put(FirstKeyOf(Present), NoValue), stored, epoch, journal) /\ UNCHANGED run
  <2>0. PICK k \in Present : k = FirstKeyOf(Present)
    BY <1>1, FirstKeys DEF Present
  <2>1. /\ user' = Put(k, NoValue) /\ UNCHANGED <<stored, epoch, journal, token, stamps, epochs>>
        /\ run' = run /\ k \in Keys
    BY <1>1, <2>0 DEF Write, boundVars, Present
  <2>2. user[k].kind # "marker"
    BY <1>b, <2>1 DEF Marked
  <2>3. DiskInv' /\ Unmoved /\ Marked' = Marked /\ Generation' = Generation
    BY <1>t, <2>1, <2>2, KeyGoes
  <2>4. RunOK'
    BY <1>t, <2>1, <2>3 DEF RunOK, StorageInv
  <2> QED BY <2>1, <2>3, <2>4 DEF GoesOn
<1>2. CASE Present = {} /\ Write(user, stored, epoch, NoJournal) /\ Forward
  <2>1. user' = Cleared /\ journal' = NoJournal /\ UNCHANGED <<stored, epoch, token, stamps, epochs>>
    BY <1>2, NothingLeft DEF Write, boundVars
  <2>2. Marked' = {} /\ journal'.kind = "NONE"
    BY <2>1, KindsOf, Views DEF NoJournal
  <2>3. RunOK' /\ run' \in ARun
    BY <1>2, <2>1, <2>2, ForwardOK
  <2>4. DiskInv' /\ Unmoved
    BY <1>b, <1>t, <2>1, <2>3, FenceEnds
  <2> QED BY <2>1, <2>3, <2>4 DEF GoesOn
<1> QED BY <1>1, <1>2 DEF ClearData

\* The state of a clear whose marker is written.
LEMMA ClearMarked ==
  ASSUME StorageInv, Marked # {}
  PROVE  \E k \in Keys : \E b \in 0..(MaxGeneration - 1) :
            /\ Marked = {k} /\ b = user[k].stamp /\ FencedDisk(user, stored, epoch, journal, b)
            /\ journal.kind \in {"NONE", "DAMAGED"} /\ Pending = {b}
<1>1. PICK k \in Keys : Marked = {k} /\ Fenced(user[k].stamp)
  BY DEF StorageInv, MarkersOK
<1>2. journal.kind \in {"NONE", "DAMAGED"}
  BY DEF StorageInv, MarkersOK
<1>3. PICK b \in 0..(MaxGeneration - 1) : b = user[k].stamp
  BY <1>1 DEF Fenced
<1>4. FencedDisk(user, stored, epoch, journal, b)
  BY <1>1, <1>2, <1>3, Views DEF FencedDisk, Fenced
<1>5. Pending = {b}
  BY <1>1, <1>2, <1>3 DEF Pending
<1> QED BY <1>1, <1>2, <1>3, <1>4, <1>5

\* The same for a clear by marker: its generation moves, or a key makes room.
LEMMA MarkFenceGoesOn ==
  ASSUME StorageInv, MarkFence
  PROVE  GoesOn
<1>t. /\ run \in ARun /\ run.pc = "mark_fence" /\ Marked # {}
      /\ journal.kind = "NONE" \/ (journal.kind = "DAMAGED" /\ run.op = "clear")
  BY DEF MarkFence, At, StorageInv, StorageTypeOK, RunOK
<1>0. PICK m \in Keys : \E b \in 0..(MaxGeneration - 1) :
            /\ Marked = {m} /\ b = user[m].stamp /\ FencedDisk(user, stored, epoch, journal, b)
            /\ journal.kind \in {"NONE", "DAMAGED"} /\ Pending = {b}
  BY <1>t, ClearMarked
<1>b. PICK b \in 0..(MaxGeneration - 1) :
            /\ Marked = {m} /\ b = user[m].stamp /\ FencedDisk(user, stored, epoch, journal, b)
            /\ journal.kind \in {"NONE", "DAMAGED"} /\ Pending = {b}
  BY <1>0
<1>c. (CHOOSE g \in Pending : TRUE) = b
  <2>1. (CHOOSE g \in {b} : TRUE) = b
    OBVIOUS
  <2> QED BY <2>1, <1>b
<1>g. ASSUME Goto("mark_data") PROVE
         /\ run' \in ARun /\ run'.pc = "mark_data" /\ run'.op = run.op /\ run'.writer = run.writer
         /\ run'.final = run.final
  BY <1>g, <1>t, GotoRun DEF RunPcs
<1>1. CASE Generation = b + 1 /\ Goto("mark_data") /\ UNCHANGED <<diskVars, token, boundVars>>
  <2>1. DiskStays
    BY <1>1 DEF DiskStays, diskVars, boundVars
  <2>2. DiskInv' /\ Unmoved /\ token' = token /\ Marked' = Marked /\ Generation' = Generation
    BY <1>1, <1>g, <2>1, SameDisk
  <2>3. RunOK'
    BY <1>1, <1>b, <1>g, <1>t, <2>1, <2>2 DEF DiskStays, RunOK, StorageInv
  <2> QED BY <2>2, <2>3 DEF GoesOn
<1>2. CASE Write(user, b + 1, epoch, journal) /\ Goto("mark_data")
  <2>1. stored' = b + 1 /\ UNCHANGED <<user, epoch, journal, token, stamps, epochs>>
    BY <1>2 DEF Write, boundVars
  <2>2. DiskInv' /\ Unmoved /\ Marked' = Marked /\ Generation' = b + 1
    BY <1>2, <1>b, <1>g, <2>1, FenceMoves
  <2>3. RunOK'
    BY <1>2, <1>b, <1>g, <1>t, <2>1, <2>2 DEF RunOK, StorageInv
  <2> QED BY <2>1, <2>2, <2>3 DEF GoesOn
<1>3. CASE Finish /\ UNCHANGED <<diskVars, token, boundVars>>
  BY <1>3, Finishing DEF DiskStays, diskVars, boundVars
<1>4. CASE /\ Present \ Marked # {}
           /\ Write(Put(FirstKeyOf(Present \ Marked), NoValue), stored, epoch, journal) /\ UNCHANGED run
  <2>0. PICK k \in Present \ Marked : k = FirstKeyOf(Present \ Marked)
    BY <1>4, FirstKeys DEF Present
  <2>1. /\ user' = Put(k, NoValue) /\ UNCHANGED <<stored, epoch, journal, token, stamps, epochs>>
        /\ run' = run /\ k \in Keys
    BY <1>4, <2>0 DEF Write, boundVars, Present
  <2>2. user[k].kind # "marker"
    BY <2>0, <2>1 DEF Marked
  <2>3. /\ DiskInv' /\ Unmoved /\ Marked' = Marked /\ Generation' = Generation
    BY <1>t, <2>1, <2>2, KeyGoes
  <2>4. RunOK'
    BY <1>t, <2>1, <2>3 DEF RunOK, StorageInv
  <2> QED BY <2>1, <2>3, <2>4 DEF GoesOn
<1> QED BY <1>1, <1>2, <1>3, <1>4, <1>c DEF MarkFence

\* The other keys go, and the marker last.
LEMMA MarkDataGoesOn ==
  ASSUME StorageInv, MarkData
  PROVE  GoesOn
<1>t. /\ run \in ARun /\ run.pc = "mark_data" /\ Marked # {}
      /\ journal.kind = "NONE" \/ (journal.kind = "DAMAGED" /\ run.op = "clear")
      /\ \A k \in Marked : Generation = user[k].stamp + 1
  BY DEF MarkData, At, StorageInv, StorageTypeOK, RunOK
<1>0. PICK m \in Keys : \E b \in 0..(MaxGeneration - 1) :
            /\ Marked = {m} /\ b = user[m].stamp /\ FencedDisk(user, stored, epoch, journal, b)
            /\ journal.kind \in {"NONE", "DAMAGED"} /\ Pending = {b}
  BY <1>t, ClearMarked
<1>b. PICK b \in 0..(MaxGeneration - 1) :
            /\ Marked = {m} /\ b = user[m].stamp /\ FencedDisk(user, stored, epoch, journal, b)
            /\ journal.kind \in {"NONE", "DAMAGED"} /\ Pending = {b}
  BY <1>0
<1>1. CASE /\ Present \ Marked # {}
           /\ Write(Put(FirstKeyOf(Present \ Marked), NoValue), stored, epoch, journal) /\ UNCHANGED run
  <2>0. PICK k \in Present \ Marked : k = FirstKeyOf(Present \ Marked)
    BY <1>1, FirstKeys DEF Present
  <2>1. /\ user' = Put(k, NoValue) /\ UNCHANGED <<stored, epoch, journal, token, stamps, epochs>>
        /\ run' = run /\ k \in Keys
    BY <1>1, <2>0 DEF Write, boundVars, Present
  <2>2. user[k].kind # "marker"
    BY <2>0, <2>1 DEF Marked
  <2>3. /\ DiskInv' /\ Unmoved /\ Marked' = Marked /\ Generation' = Generation
        /\ \A l \in Marked : user'[l] = user[l]
    BY <1>t, <2>1, <2>2, KeyGoes
  <2>4. RunOK'
    BY <1>t, <2>1, <2>3 DEF RunOK, StorageInv
  <2> QED BY <2>1, <2>3, <2>4 DEF GoesOn
<1>2. ASSUME Write(Cleared, stored, epoch, journal),
             \/ run.op = "clear" /\ journal # NoJournal /\ Goto("mark_journal")
             \/ ~(run.op = "clear" /\ journal # NoJournal) /\ Forward
      PROVE  GoesOn
  <2>1. user' = Cleared /\ UNCHANGED <<stored, epoch, journal, token, stamps, epochs>>
    BY <1>2 DEF Write, boundVars
  <2>2. Marked' = {} /\ Generation = b + 1
    BY <1>t, <1>b, <2>1, KindsOf, Views
  <2>3. RunOK' /\ run' \in ARun
    <3>1. CASE Forward
      BY <1>t, <2>1, <2>2, <3>1, ForwardOK
    <3>2. CASE run.op = "clear" /\ journal # NoJournal /\ Goto("mark_journal")
      <4>1. /\ run' \in ARun /\ run'.pc = "mark_journal" /\ run'.op = run.op /\ run'.writer = run.writer
            /\ run'.final = run.final
        BY <3>2, <1>t, GotoRun DEF RunPcs
      <4> QED BY <1>t, <2>1, <2>2, <4>1 DEF RunOK, StorageInv
    <3> QED BY <1>2, <3>1, <3>2
  <2>4. DiskInv' /\ Unmoved
    BY <1>b, <2>1, <2>2, <2>3, FenceEnds
  <2> QED BY <2>1, <2>3, <2>4 DEF GoesOn
<1> QED BY <1>1, <1>2 DEF MarkData

\* A damaged journal gives way where no clear is under way: nothing a reader finds moves.
LEMMA PlainJournalDrops ==
  ASSUME StorageInv, Marked = {}, journal.kind \in {"NONE", "DAMAGED"},
         journal' = NoJournal, UNCHANGED <<user, stored, epoch, token, stamps, epochs>>, run' \in ARun
  PROVE  DiskInv' /\ Unmoved /\ Marked' = {}
<1>1. Marked' = {} /\ journal'.kind = "NONE"
  BY DEF Marked, NoJournal
<1>2. PlainDisk(user, journal) /\ PlainDisk(user', journal')
  BY <1>1, Views DEF PlainDisk
<1>3. TokenOf(user, stored, epoch, journal) = TokenOf(user', stored', epoch', journal')
  BY <1>2, PlainToken
<1>4. RecoveredOf(user, journal) = RecoveredOf(user', journal')
  BY <1>1, <1>2 DEF RecoveredOf, PlainDisk
<1>5. StorageTypeOK' /\ JournalOK' /\ MarkersOK'
  BY <1>1 DEF StorageInv, StorageTypeOK, JournalOK, MarkersOK
<1> QED BY <1>1, <1>3, <1>4, <1>5, Views DEF Unmoved, DiskInv

\* The damaged journal beside the marker goes.
LEMMA MarkJournalGoesOn ==
  ASSUME StorageInv, MarkJournal
  PROVE  GoesOn
<1>t. /\ run \in ARun /\ run.pc = "mark_journal" /\ Marked = {} /\ journal.kind \in {"NONE", "DAMAGED"}
  BY DEF MarkJournal, At, StorageInv, StorageTypeOK, RunOK
<1>1. journal' = NoJournal /\ UNCHANGED <<user, stored, epoch, token, stamps, epochs>> /\ Forward
  BY DEF MarkJournal, Write, boundVars
<1>2. Marked' = {} /\ journal'.kind = "NONE"
  BY <1>t, <1>1 DEF Marked, NoJournal
<1>3. RunOK' /\ run' \in ARun
  BY <1>1, <1>2, ForwardOK
<1>4. DiskInv' /\ Unmoved
  BY <1>t, <1>1, <1>3, PlainJournalDrops
<1> QED BY <1>1, <1>3, <1>4 DEF GoesOn

\* While an epoch is repaired the journal alone says what a reader finds.
LEMMA RepairStays ==
  ASSUME StorageInv, journal.kind = "REPAIR_CLEAR_ALL",
         stored' \in {Missing, Damaged} \cup 0..MaxGeneration, epoch' \in {Missing, Damaged} \cup 1..epochs,
         UNCHANGED <<user, journal, token, stamps, epochs>>, run' \in ARun
  PROVE  DiskInv' /\ Unmoved /\ Marked = {} /\ Marked' = {}
<1>1. Marked = {} /\ Marked' = {}
  BY DEF StorageInv, MarkersOK, Marked
<1>2. Unmoved
  BY DEF Unmoved, CurrentToken, Recovered
<1>3. StorageTypeOK' /\ JournalOK' /\ MarkersOK'
  BY <1>1 DEF StorageInv, StorageTypeOK, JournalOK, MarkersOK
<1> QED BY <1>1, <1>2, <1>3 DEF DiskInv

\* A repair writes its epoch.
LEMMA RepairEpochGoesOn ==
  ASSUME StorageInv, RepairEpoch
  PROVE  GoesOn
<1>t. /\ run \in ARun /\ run.pc = "repair_epoch" /\ journal.kind = "REPAIR_CLEAR_ALL"
      /\ journal.epochAfter \in 1..epochs
  BY DEF RepairEpoch, At, StorageInv, StorageTypeOK, RunOK, JournalOK
<1>1. CASE Finish /\ UNCHANGED <<diskVars, token, boundVars>>
  BY <1>1, Finishing DEF DiskStays, diskVars, boundVars
<1>2. CASE Write(user, stored, journal.epochAfter, journal) /\ Goto("repair_generation")
  <2>1. epoch' = journal.epochAfter /\ UNCHANGED <<user, stored, journal, token, stamps, epochs>>
    BY <1>2 DEF Write, boundVars
  <2>2. /\ run' \in ARun /\ run'.pc = "repair_generation" /\ run'.op = run.op /\ run'.writer = run.writer
        /\ run'.final = run.final
    BY <1>2, <1>t, GotoRun DEF RunPcs
  <2>3. stored' \in {Missing, Damaged} \cup 0..MaxGeneration /\ epoch' \in {Missing, Damaged} \cup 1..epochs
    BY <1>t, <2>1 DEF StorageInv, StorageTypeOK
  <2>4. DiskInv' /\ Unmoved /\ Marked' = {}
    BY <1>t, <2>1, <2>2, <2>3, RepairStays
  <2>5. RunOK'
    BY <1>t, <2>1, <2>2, <2>4 DEF RunOK, StorageInv
  <2> QED BY <2>1, <2>4, <2>5 DEF GoesOn
<1> QED BY <1>1, <1>2 DEF RepairEpoch

\* A repair starts its generations over.
LEMMA RepairGenerationGoesOn ==
  ASSUME StorageInv, RepairGeneration
  PROVE  GoesOn
<1>t. /\ run \in ARun /\ run.pc = "repair_generation" /\ journal.kind = "REPAIR_CLEAR_ALL"
      /\ epoch = journal.epochAfter
  BY DEF RepairGeneration, At, StorageInv, StorageTypeOK, RunOK, JournalOK
<1>1. CASE Finish /\ UNCHANGED <<diskVars, token, boundVars>>
  BY <1>1, Finishing DEF DiskStays, diskVars, boundVars
<1>2. CASE Write(user, 0, epoch, journal) /\ Goto("repair_data")
  <2>1. stored' = 0 /\ UNCHANGED <<user, epoch, journal, token, stamps, epochs>>
    BY <1>2 DEF Write, boundVars
  <2>2. /\ run' \in ARun /\ run'.pc = "repair_data" /\ run'.op = run.op /\ run'.writer = run.writer
        /\ run'.final = run.final
    BY <1>2, <1>t, GotoRun DEF RunPcs
  <2>3. stored' \in {Missing, Damaged} \cup 0..MaxGeneration /\ epoch' \in {Missing, Damaged} \cup 1..epochs
    BY <2>1, BoundsAssumption DEF StorageInv, StorageTypeOK
  <2>4. DiskInv' /\ Unmoved /\ Marked' = {}
    BY <1>t, <2>1, <2>2, <2>3, RepairStays
  <2>5. RunOK'
    BY <1>t, <2>1, <2>2, <2>4 DEF RunOK, StorageInv
  <2> QED BY <2>1, <2>4, <2>5 DEF GoesOn
<1> QED BY <1>1, <1>2 DEF RepairGeneration

\* A repair is through: the stored fields say what its journal said.
LEMMA RepairDataGoesOn ==
  ASSUME StorageInv, RepairData
  PROVE  GoesOn
<1>t. /\ run \in ARun /\ run.pc = "repair_data" /\ journal.kind = "REPAIR_CLEAR_ALL" /\ Marked = {}
      /\ stored = 0 /\ epoch = journal.epochAfter /\ journal.epochAfter \in 1..epochs
  BY DEF RepairData, At, StorageInv, StorageTypeOK, RunOK, JournalOK, MarkersOK
<1>1. CASE Present # {} /\ Write(Put(FirstKeyOf(Present), NoValue), stored, epoch, journal) /\ UNCHANGED run
  <2>0. PICK k \in Present : k = FirstKeyOf(Present)
    BY <1>1, FirstKeys DEF Present
  <2>1. /\ user' = Put(k, NoValue) /\ UNCHANGED <<stored, epoch, journal, token, stamps, epochs>>
        /\ run' = run /\ k \in Keys
    BY <1>1, <2>0 DEF Write, boundVars, Present
  <2>2. user[k].kind # "marker"
    BY <1>t, <2>1 DEF Marked
  <2>3. DiskInv' /\ Unmoved /\ Marked' = Marked /\ Generation' = Generation
    BY <1>t, <2>1, <2>2, KeyGoes
  <2>4. RunOK'
    BY <1>t, <2>1, <2>3 DEF RunOK, StorageInv
  <2> QED BY <2>1, <2>3, <2>4 DEF GoesOn
<1>2. CASE Present = {} /\ Write(user, stored, epoch, NoJournal) /\ Forward
  <2>1. user = Cleared /\ journal' = NoJournal /\ UNCHANGED <<user, stored, epoch, token, stamps, epochs>>
    BY <1>2, NothingLeft DEF Write, boundVars
  <2>2. Marked' = {} /\ journal'.kind = "NONE"
    BY <2>1, KindsOf, Views DEF NoJournal
  <2>3. RunOK' /\ run' \in ARun
    BY <1>2, <2>1, <2>2, ForwardOK
  <2>4. CurrentToken = [generation |-> 0, epoch |-> epoch] /\ Recovered = Cleared
    BY <1>t DEF CurrentToken, Recovered
  <2>5. PlainDisk(user', journal')
    BY <2>2, Views DEF PlainDisk
  <2>6. stored' # Damaged /\ epoch' # Damaged /\ GenerationOf(stored') = 0 /\ EpochOf(epoch') = epoch
    <3>1. epochs \in Nat
      BY BoundsAssumption DEF StorageInv, StorageTypeOK
    <3> QED BY <1>t, <2>1, <3>1 DEF Damaged, Missing, GenerationOf, EpochOf
  <2>7. CurrentToken' = [generation |-> 0, epoch |-> epoch]
    BY <2>5, <2>6, PlainToken, Views
  <2>8. Recovered' = Cleared
    BY <2>1, <2>2 DEF Recovered
  <2>9. StorageTypeOK' /\ JournalOK' /\ MarkersOK'
    BY <2>1, <2>2, <2>3 DEF StorageInv, StorageTypeOK, JournalOK, MarkersOK
  <2> QED BY <2>1, <2>3, <2>4, <2>7, <2>8, <2>9 DEF GoesOn, Unmoved, DiskInv
<1> QED BY <1>1, <1>2 DEF RepairData

----------------------------------------------------------------------------
(* A replacement.                                                          *)

\* The undo journal says what is stored; only the token in force gets one.
LEMMA PrepareGoesOn ==
  ASSUME StorageInv, Prepare
  PROVE  GoesOn
<1>t. /\ run \in ARun /\ run.pc = "ready" /\ run.op = "replace" /\ Marked = {} /\ journal.kind = "NONE"
      /\ user \in [Keys -> Values \cup Markers]
      /\ run.writer \in Writers /\ token[run.writer] # NoToken
  BY DEF Prepare, At, StorageInv, StorageTypeOK, RunOK
<1>1. CASE Finish /\ UNCHANGED <<diskVars, token, boundVars>>
  BY <1>1, Finishing DEF DiskStays, diskVars, boundVars
<1>2. ASSUME StillCurrent, stamps < MaxStamps, journal' = ReplaceJournal([k \in FamilyKeys |-> user[k]]),
             NEW sizes \in [FamilyKeys -> Sizes],
             run' = [run EXCEPT !.pc = "write", !.left = 1,
                          !.next = [k \in FamilyKeys |-> Data(stamps + 1, sizes[k])]],
             stamps' = stamps + 1,
             UNCHANGED <<user, stored, epoch, foreign, token, epochs, crashes>>
      PROVE  GoesOn
  <2>1. /\ journal'.kind = "REPLACE" /\ journal'.entries = [k \in FamilyKeys |-> user[k]]
    BY <1>2 DEF ReplaceJournal
  <2>2. \A k \in Keys : user[k] \in Values
    BY <1>t, KindsOf DEF Marked
  <2>3. journal'.entries \in Files /\ FamilyKeys \subseteq Keys
    BY <2>1, <2>2 DEF Files, Keys
  <2>4. PICK st \in 0..MaxStamps : st = stamps + 1
    BY <1>2, BoundsAssumption DEF StorageInv, StorageTypeOK
  <2>5. PICK nx \in Files : nx = [k \in FamilyKeys |-> Data(stamps + 1, sizes[k])]
    <3>1. \A k \in FamilyKeys : Data(st, sizes[k]) \in Values
      BY DEF Values
    <3>2. \A k \in FamilyKeys : Data(stamps + 1, sizes[k]) \in Values
      BY <2>4, <3>1
    <3> QED BY <3>2 DEF Files
  <2>6. run' = [run EXCEPT !.pc = "write", !.left = 1, !.next = nx]
    BY <1>2, <2>5
  <2>7. /\ run' \in ARun /\ run'.pc = "write" /\ run'.op = run.op /\ run'.writer = run.writer
        /\ run'.final = run.final /\ run'.left = 1 /\ run'.next = nx
    <3>1. run \in ARun /\ nx \in [Keys -> Values] \cup Files /\ 1 \in 0..4 /\ "write" \in RunPcs
      BY <1>t DEF RunPcs
    <3> QED BY <2>6, <3>1 DEF ARun
  <2>8. Marked' = {}
    BY <1>t, <1>2 DEF Marked
  <2>9. PlainDisk(user, journal) /\ PlainDisk(user', journal')
    BY <1>t, <2>1, <2>8, Views DEF PlainDisk
  <2>10. TokenOf(user, stored, epoch, journal) = TokenOf(user', stored', epoch', journal')
    BY <1>2, <2>9, PlainToken
  <2>11. RecoveredOf(user, journal) = RecoveredOf(user', journal')
    <3>1. RecoveredOf(user, journal) = user
      BY <1>t, <2>9 DEF RecoveredOf, PlainDisk
    <3>2. RecoveredOf(user', journal') = [k \in Keys |-> IF k \in FamilyKeys THEN journal'.entries[k] ELSE user[k]]
      BY <1>2, <2>1, <2>9 DEF RecoveredOf, PlainDisk
    <3>3. \A k \in Keys : (IF k \in FamilyKeys THEN journal'.entries[k] ELSE user[k]) = user[k]
      BY <2>1
    <3>4. [k \in Keys |-> IF k \in FamilyKeys THEN journal'.entries[k] ELSE user[k]] = user
      BY <1>t, <3>3
    <3> QED BY <3>1, <3>2, <3>4
  <2>12. Unmoved
    BY <2>10, <2>11, Views DEF Unmoved
  <2>13. StorageTypeOK' /\ JournalOK' /\ MarkersOK'
    <3>1. stamps' \in 0..MaxStamps
      BY <1>2, <2>4
    <3>2. StorageTypeOK'
      BY <1>2, <2>7, <3>1 DEF StorageInv, StorageTypeOK
    <3>3. JournalOK' /\ MarkersOK'
      BY <2>1, <2>3, <2>8 DEF JournalOK, MarkersOK
    <3> QED BY <3>2, <3>3
  <2>14. RunOK'
    <3>1. token'[run'.writer] = CurrentToken'
      BY <1>2, <2>7, <2>12 DEF Unmoved, StillCurrent
    <3> QED BY <1>t, <1>2, <2>1, <2>7, <2>8, <3>1 DEF RunOK, StorageInv
  <2> QED BY <1>2, <2>12, <2>13, <2>14 DEF GoesOn, DiskInv
<1> QED BY <1>1, <1>2 DEF Prepare

\* A key of the replacement is written; a write that fails starts the undo.
LEMMA WriteKeyGoesOn ==
  ASSUME StorageInv, WriteKey
  PROVE  GoesOn
<1>t. /\ run \in ARun /\ run.pc = "write" /\ run.op = "replace" /\ run.left \in 1..3 /\ journal.kind = "REPLACE"
      /\ run.next \in Files /\ run.writer \in Writers /\ token[run.writer] = CurrentToken
      /\ token[run.writer] # NoToken
  BY DEF WriteKey, At, StorageInv, StorageTypeOK, RunOK, ARun
<1>1. CASE Write(Put(Family[run.left], run.next[Family[run.left]]), stored, epoch, journal)
           /\ run' = [run EXCEPT !.left = @ + 1]
  <2>0. PICK i \in 1..3 : i = run.left
    BY <1>t
  <2> DEFINE k == Family[i]
             v == run.next[k]
  <2>1. k \in FamilyKeys /\ v \in Values
    BY <1>t DEF FamilyKeys, Files
  <2>2. user' = Put(k, v) /\ UNCHANGED <<stored, epoch, journal, token, stamps, epochs>>
    BY <1>1, <2>0 DEF Write, boundVars
  <2>3. i + 1 \in 0..4 /\ i + 1 >= 1 /\ run' = [run EXCEPT !.left = i + 1]
    BY <1>1, <2>0
  <2>4. /\ run' \in ARun /\ run'.pc = "write" /\ run'.op = run.op /\ run'.writer = run.writer
        /\ run'.final = run.final /\ run'.left = i + 1 /\ run'.next = run.next
    BY <1>t, <2>3 DEF ARun
  <2> HIDE DEF v
  <2>5. DiskInv' /\ Unmoved /\ Marked' = {}
    BY <1>t, <2>1, <2>2, <2>4, FamilyWrite
  <2>6. token'[run'.writer] = CurrentToken'
    BY <1>t, <2>2, <2>4, <2>5 DEF Unmoved
  <2>7. RunOK'
    BY <1>t, <2>2, <2>3, <2>4, <2>5, <2>6 DEF RunOK, StorageInv
  <2> QED BY <2>2, <2>5, <2>7 DEF GoesOn
<1>2. CASE /\ run' = [run EXCEPT !.pc = "undo", !.left = 3, !.final = TRUE]
           /\ UNCHANGED <<diskVars, token, boundVars>>
  <2>0. run \in ARun /\ run' = [run EXCEPT !.pc = "undo", !.left = 3, !.final = TRUE] /\ 3 \in 0..4
    BY <1>2, <1>t
  <2>1. /\ run' \in ARun /\ run'.pc = "undo" /\ run'.op = run.op /\ run'.writer = run.writer
        /\ run'.final = TRUE /\ run'.left = 3
    BY <2>0 DEF ARun, RunPcs
  <2>2. DiskStays
    BY <1>2 DEF DiskStays, diskVars, boundVars
  <2>3. DiskInv' /\ Unmoved /\ token' = token /\ Marked' = Marked
    BY <2>1, <2>2, SameDisk
  <2>4. RunOK'
    BY <1>t, <2>1, <2>2, <2>3 DEF DiskStays, RunOK, StorageInv
  <2> QED BY <2>3, <2>4 DEF GoesOn
<1> QED BY <1>1, <1>2 DEF WriteKey

\* The journal goes: the content is the new one, under the token in force.
LEMMA CommitGoesOn ==
  ASSUME StorageInv, Commit
  PROVE  GoesOn
<1>t. /\ run \in ARun /\ run.pc = "write" /\ run.op = "replace" /\ journal.kind = "REPLACE" /\ Marked = {}
      /\ run.writer \in Writers /\ token[run.writer] = CurrentToken /\ token[run.writer] # NoToken
      /\ user \in [Keys -> Values \cup Markers]
  BY DEF Commit, At, StorageInv, StorageTypeOK, RunOK, MarkersOK
<1>1. journal' = NoJournal /\ UNCHANGED <<user, stored, epoch, token, stamps, epochs>> /\ Finish
  BY DEF Commit, Write, boundVars
<1>2. Marked' = {} /\ journal'.kind = "NONE"
  BY <1>t, <1>1 DEF Marked, NoJournal
<1>3. PlainDisk(user, journal) /\ PlainDisk(user', journal')
  BY <1>t, <1>2, Views DEF PlainDisk
<1>4. CurrentToken' = CurrentToken
  <2>1. TokenOf(user, stored, epoch, journal) = TokenOf(user', stored', epoch', journal')
    BY <1>1, <1>3, PlainToken
  <2> QED BY <2>1, Views
<1>5. Recovered' = user /\ user \in [Keys -> Values]
  <2>1. user \in [Keys -> Values]
    BY <1>t, KindsOf DEF Marked
  <2> QED BY <1>1, <1>2, <2>1 DEF Recovered
<1>6. Renewed
  BY <1>t, <1>4, <1>5 DEF Renewed
<1>7. StorageTypeOK' /\ JournalOK' /\ MarkersOK' /\ RunOK'
  BY <1>1, <1>2, IdleOK DEF StorageInv, StorageTypeOK, JournalOK, MarkersOK
<1> QED BY <1>1, <1>6, <1>7 DEF GoesOn, DiskInv

----------------------------------------------------------------------------
(* A clear.                                                                *)

\* Natural numbers have a least one among them.
LEMMA LeastNat ==
  ASSUME NEW T \in SUBSET Nat, T # {}
  PROVE  \E m \in T : \A n \in T : m <= n
<1> DEFINE R == {ss \in Nat \X Nat : ss[1] < ss[2]}
<1>1. IsWellFoundedOn(R, Nat)
  BY NatLessThanWellFounded DEF OpToRel
<1> HIDE DEF R
<1>2. PICK x \in T : \A y \in T : ~(<<y, x>> \in R)
  BY <1>1, WFMin
<1>3. ASSUME NEW y \in T PROVE x <= y
  <2>1. <<y, x>> \notin R /\ <<y, x>> \in Nat \X Nat
    BY <1>2
  <2>2. ~(y < x)
    BY <2>1 DEF R
  <2>3. x \in Nat /\ y \in Nat
    OBVIOUS
  <2> QED BY <2>2, <2>3
<1> QED BY <1>3

\* A finite set has an element of the largest size.
LEMMA LargestOf ==
  ASSUME NEW S, IsFiniteSet(S), S # {}, NEW size, \A k \in S : size[k] \in Nat
  PROVE  \E k \in S : \A l \in S : size[l] <= size[k]
<1> DEFINE Above(k) == {l \in S : size[l] > size[k]}
           T == {Cardinality(Above(k)) : k \in S}
<1>1. ASSUME NEW k \in S PROVE IsFiniteSet(Above(k)) /\ Cardinality(Above(k)) \in Nat
  <2>1. Above(k) \subseteq S
    OBVIOUS
  <2> HIDE DEF Above
  <2> QED BY <2>1, FS_Subset, FS_CardinalityType
<1>2. T \in SUBSET Nat /\ T # {}
  BY <1>1
<1> HIDE DEF T
<1>3. PICK m \in T : \A n \in T : m <= n
  BY <1>2, LeastNat
<1>4. PICK k \in S : m = Cardinality(Above(k))
  BY DEF T
<1>5. ASSUME NEW l \in S, ~(size[l] <= size[k]) PROVE FALSE
  <2>1. l \in Above(k) /\ l \notin Above(l) /\ Above(l) \subseteq Above(k)
    BY <1>5
  <2>2. Cardinality(Above(l)) \in T
    BY DEF T
  <2>3. Cardinality(Above(k)) <= Cardinality(Above(l))
    BY <1>3, <1>4, <2>2
  <2>4. Above(l) # Above(k)
    BY <2>1
  <2>5. IsFiniteSet(Above(k)) /\ Cardinality(Above(k)) \in Nat /\ Cardinality(Above(l)) \in Nat
    BY <1>1
  <2> HIDE DEF Above
  <2>6. Cardinality(Above(l)) < Cardinality(Above(k))
    BY <2>1, <2>4, <2>5, FS_Subset
  <2> QED BY <2>3, <2>5, <2>6
<1> QED BY <1>5

\* There is a value for a marker to replace, if any is larger than a marker.
LEMMA LargestIsOne ==
  ASSUME StorageInv, Replaceable # {}
  PROVE  Largest \in Replaceable
<1>1. IsFiniteSet(Keys)
  <2>1. FamilyKeys = ({Family[1]} \cup {Family[2]}) \cup {Family[3]}
    BY DEF FamilyKeys
  <2>2. IsFiniteSet(FamilyKeys)
    <3>1. IsFiniteSet({Family[1]}) /\ IsFiniteSet({Family[2]}) /\ IsFiniteSet({Family[3]})
      BY FS_Singleton
    <3>2. IsFiniteSet({Family[1]} \cup {Family[2]})
      BY <3>1, FS_Union
    <3> QED BY <2>1, <3>1, <3>2, FS_Union
  <2> QED BY <2>2, KeysAssumption, FS_Union DEF Keys
<1>2. Replaceable \subseteq Keys
  BY DEF Replaceable, Present
<1>3. IsFiniteSet(Replaceable)
  BY <1>1, <1>2, FS_Subset
<1> DEFINE size == [k \in Replaceable |-> user[k].size]
<1>4. \A k \in Replaceable : size[k] \in Nat
  <2> SUFFICES ASSUME NEW k \in Replaceable PROVE user[k].size \in Nat
    OBVIOUS
  <2>1. user[k] \in Values \cup Markers
    BY <1>2 DEF StorageInv, StorageTypeOK
  <2> QED BY <2>1, BoundsAssumption DEF Values, Markers, NoValue, Data, Marker
<1>5. \E k \in Replaceable : \A l \in Replaceable : size[l] <= size[k]
  <2> HIDE DEF size
  <2> QED BY <1>3, <1>4, LargestOf
<1>6. \E k \in Replaceable : \A l \in Replaceable : user[l].size <= user[k].size
  BY <1>5
<1> QED BY <1>6 DEF Largest

\* Where no clear is under way a token that can be read is what is stored.
LEMMA PlainRead ==
  ASSUME StorageInv, PlainDisk(user, journal), CurrentToken # NoToken
  PROVE  /\ stored # Damaged /\ epoch # Damaged
         /\ CurrentToken.generation = Generation /\ CurrentToken.epoch = EpochOf(epoch)
         /\ Generation \in 0..MaxGeneration /\ EpochOf(epoch) \in 0..MaxEpochs
<1>1. stored # Damaged /\ epoch # Damaged
  BY PlainToken, Views
<1>2. CurrentToken = [generation |-> Generation, epoch |-> EpochOf(epoch)]
  <2>1. TokenOf(user, stored, epoch, journal) = [generation |-> GenerationOf(stored), epoch |-> EpochOf(epoch)]
    BY <1>1, PlainToken
  <2> QED BY <2>1, Views
<1>3. Generation \in 0..MaxGeneration /\ EpochOf(epoch) \in 0..MaxEpochs
  <2>1. stored \in {Missing} \cup 0..MaxGeneration /\ epoch \in {Missing} \cup 1..epochs
        /\ epochs \in 0..MaxEpochs /\ MaxGeneration \in Nat /\ MaxEpochs \in Nat
    BY <1>1, BoundsAssumption DEF StorageInv, StorageTypeOK
  <2>2. Generation \in 0..MaxGeneration
    BY <2>1 DEF Generation
  <2>3. EpochOf(epoch) \in 0..MaxEpochs
    BY <2>1 DEF EpochOf
  <2> QED BY <2>2, <2>3
<1> QED BY <1>1, <1>2, <1>3

\* A clear is fenced, by a journal or by a marker: from here on nothing is found.
LEMMA FenceSet ==
  ASSUME StorageInv, PlainDisk(user, journal), CurrentToken # NoToken,
         Generation < MaxGeneration,
         FencedDisk(user', stored', epoch', journal', Generation),
         UNCHANGED <<stored, epoch, token>>
  PROVE  Emptied
<1> DEFINE g == Generation
           e == EpochOf(epoch)
<1>1. /\ stored # Damaged /\ epoch # Damaged /\ g \in 0..MaxGeneration /\ e \in 0..MaxEpochs
      /\ CurrentToken.generation = g /\ CurrentToken.epoch = e
  BY PlainRead
<1>2. CurrentToken' = [generation |-> g + 1, epoch |-> e] /\ Recovered' = Cleared
  <2>1. /\ TokenOf(user', stored', epoch', journal') = [generation |-> g + 1, epoch |-> EpochOf(epoch')]
        /\ RecoveredOf(user', journal') = Cleared
    BY FencedToken
  <2> QED BY <2>1, Views DEF EpochOf
<1> HIDE DEF g, e
<1>3. PICK h \in 0..MaxGeneration : h = g /\ h < MaxGeneration
  BY <1>1 DEF g
<1>4. h + 1 \in 0..MaxGeneration /\ h < h + 1
  BY <1>3, BoundsAssumption
<1>5. CurrentToken' \in Tokens
  BY <1>1, <1>2, <1>3, <1>4 DEF Tokens
<1>6. Earlier(CurrentToken, CurrentToken')
  <2>1. CurrentToken'.epoch = e /\ CurrentToken'.generation = h + 1
    BY <1>2, <1>3
  <2> QED BY <1>1, <1>3, <1>4, <2>1 DEF Earlier
<1> QED BY <1>2, <1>5, <1>6 DEF Emptied

\* A clear installs its fence: a journal, or a marker where no journal fits.
LEMMA ClearInstallGoesOn ==
  ASSUME StorageInv, ClearInstall
  PROVE  GoesOn
<1>t. /\ run \in ARun /\ run.pc = "ready" /\ run.op = "clear" /\ ~run.final /\ Marked = {}
      /\ journal.kind \in {"NONE", "DAMAGED"} /\ user \in [Keys -> Values \cup Markers]
  BY DEF ClearInstall, At, StorageInv, StorageTypeOK, RunOK
<1>p. PlainDisk(user, journal)
  BY <1>t, Views DEF PlainDisk
<1>1. CASE Finish /\ UNCHANGED <<diskVars, token, boundVars>>
  BY <1>1, Finishing DEF DiskStays, diskVars, boundVars
<1>2. CASE Goto("repair") /\ UNCHANGED <<diskVars, token, boundVars>>
  <2>1. /\ run' \in ARun /\ run'.pc = "repair" /\ run'.op = run.op /\ run'.writer = run.writer
        /\ run'.final = run.final
    BY <1>2, <1>t, GotoRun DEF RunPcs
  <2>2. DiskStays
    BY <1>2 DEF DiskStays, diskVars, boundVars
  <2>3. DiskInv' /\ Unmoved /\ token' = token /\ Marked' = Marked
    BY <2>1, <2>2, SameDisk
  <2>4. RunOK'
    BY <1>t, <2>1, <2>2, <2>3 DEF DiskStays, RunOK, StorageInv
  <2> QED BY <2>3, <2>4 DEF GoesOn
<1>g. ASSUME ~MustRepair
      PROVE  /\ CurrentToken # NoToken /\ stored # Damaged /\ epoch # Damaged
             /\ CurrentToken.generation = Generation /\ Generation \in 0..(MaxGeneration - 1)
             /\ Generation < MaxGeneration
  <2>1. CurrentToken # NoToken /\ ~(CurrentToken.generation >= MaxGeneration)
    BY <1>g DEF MustRepair
  <2>2. /\ stored # Damaged /\ epoch # Damaged /\ CurrentToken.generation = Generation
        /\ Generation \in 0..MaxGeneration /\ MaxGeneration \in Nat
    BY <1>p, <2>1, PlainRead, BoundsAssumption
  <2> QED BY <2>1, <2>2
<1>3. ASSUME ~MustRepair, Write(user, stored, epoch, ClearJournal(CurrentToken.generation)),
             run' = [run EXCEPT !.pc = "clear_fence", !.final = TRUE]
      PROVE  GoesOn
  <2>0. PICK g \in 0..(MaxGeneration - 1) : g = Generation /\ g = CurrentToken.generation
    BY <1>3, <1>g
  <2>1. UNCHANGED <<user, stored, epoch, token, stamps, epochs>> /\ journal' = ClearJournal(g)
    BY <1>3, <2>0 DEF Write, boundVars
  <2>2. /\ run' \in ARun /\ run'.pc = "clear_fence" /\ run'.op = run.op /\ run'.writer = run.writer
        /\ run'.final = TRUE
    <3>1. run \in ARun /\ "clear_fence" \in RunPcs
      BY <1>t DEF RunPcs
    <3> QED BY <1>3, <3>1 DEF ARun
  <2>3. journal'.kind = "CLEAR_ALL" /\ journal'.before = g
    BY <2>1 DEF ClearJournal
  <2>4. Marked' = {} /\ Generation' = Generation
    BY <1>t, <2>1 DEF Marked, Generation
  <2>5. FencedDisk(user', stored', epoch', journal', Generation)
    BY <1>3, <1>g, <2>0, <2>1, <2>3, <2>4, Views DEF FencedDisk
  <2>6. Emptied
    BY <1>3, <1>g, <1>p, <2>1, <2>5, FenceSet
  <2>7. StorageTypeOK'
    BY <2>1, <2>2 DEF StorageInv, StorageTypeOK
  <2>8. JournalOK' /\ MarkersOK'
    <3>1. Fenced(g)'
      BY <1>3, <1>g, <2>0, <2>1, <2>4 DEF Fenced
    <3> QED BY <2>3, <2>4, <3>1 DEF JournalOK, MarkersOK
  <2>9. RunOK'
    BY <1>t, <2>1, <2>2, <2>3, <2>4 DEF RunOK, StorageInv
  <2> QED BY <2>1, <2>6, <2>7, <2>8, <2>9 DEF GoesOn, DiskInv
<1>4. ASSUME ~MustRepair, Replaceable # {},
             Write(Put(Largest, Marker(CurrentToken.generation)), stored, epoch, journal),
             run' = [run EXCEPT !.pc = "mark_fence", !.final = TRUE]
      PROVE  GoesOn
  <2>0. PICK g \in 0..(MaxGeneration - 1) : g = Generation /\ g = CurrentToken.generation
    BY <1>4, <1>g
  <2>k. PICK k \in Keys : k = Largest
    BY <1>4, LargestIsOne DEF Replaceable, Present
  <2>1. UNCHANGED <<stored, epoch, journal, token, stamps, epochs>> /\ user' = [user EXCEPT ![k] = Marker(g)]
    BY <1>4, <2>0, <2>k DEF Write, boundVars, Put
  <2>2. /\ run' \in ARun /\ run'.pc = "mark_fence" /\ run'.op = run.op /\ run'.writer = run.writer
        /\ run'.final = TRUE
    <3>1. run \in ARun /\ "mark_fence" \in RunPcs
      BY <1>t DEF RunPcs
    <3> QED BY <1>4, <3>1 DEF ARun
  <2>3. Marker(g) \in Markers /\ Marker(g).kind = "marker" /\ Marker(g).stamp = g
    BY DEF Markers, Marker
  <2>u. /\ user' \in [Keys -> Values \cup Markers] /\ user'[k] = Marker(g)
        /\ \A l \in Keys : l # k => user'[l] = user[l]
    BY <1>t, <2>1, <2>3
  <2>4. Marked' = {k} /\ Generation' = Generation
    BY <1>t, <2>1, <2>3, <2>u DEF Marked, Generation
  <2>5. FencedDisk(user', stored', epoch', journal', Generation)
    <3>1. MarkedIn(user') = {k} /\ user'[k].stamp = Generation
      BY <2>0, <2>3, <2>4, <2>u, Views
    <3> QED BY <1>4, <1>g, <1>t, <2>0, <2>1, <2>4, <3>1, Views DEF FencedDisk
  <2>6. Emptied
    BY <1>4, <1>g, <1>p, <2>1, <2>5, FenceSet
  <2>7. StorageTypeOK'
    BY <2>1, <2>2, <2>u DEF StorageInv, StorageTypeOK
  <2>8. JournalOK' /\ MarkersOK'
    <3>1. JournalOK'
      BY <1>t, <2>1 DEF StorageInv, JournalOK
    <3>2. Fenced(g)'
      BY <1>4, <1>g, <2>0, <2>1, <2>4 DEF Fenced
    <3>3. user'[k].stamp = g
      BY <2>3, <2>u
    <3>4. MarkersOK'
      BY <1>t, <2>1, <2>4, <3>2, <3>3 DEF MarkersOK, Fenced
    <3> QED BY <3>1, <3>4
  <2>9. RunOK'
    BY <1>t, <2>1, <2>2, <2>4 DEF RunOK, StorageInv
  <2> QED BY <2>1, <2>6, <2>7, <2>8, <2>9 DEF GoesOn, DiskInv
<1> QED BY <1>1, <1>2, <1>3, <1>4 DEF ClearInstall

\* A repair installs its journal: its epoch is later than every token.
LEMMA RepairGoesOn ==
  ASSUME StorageInv, Repair
  PROVE  GoesOn
<1>t. /\ run \in ARun /\ run.pc = "repair" /\ run.op = "clear" /\ ~run.final /\ Marked = {}
      /\ epochs < MaxEpochs /\ epochs \in 0..MaxEpochs /\ MaxEpochs \in Nat /\ MaxGeneration \in Nat
  BY BoundsAssumption DEF Repair, At, StorageInv, StorageTypeOK, RunOK
<1>1. CASE Finish /\ UNCHANGED <<diskVars, token, boundVars>>
  BY <1>1, Finishing DEF DiskStays, diskVars, boundVars
<1>2. ASSUME journal' = RepairJournal(epochs + 1), epochs' = epochs + 1,
             run' = [run EXCEPT !.pc = "repair_epoch", !.final = TRUE],
             UNCHANGED <<user, stored, epoch, foreign, token, stamps, crashes>>
      PROVE  GoesOn
  <2>0. PICK n \in 1..MaxEpochs : n = epochs + 1 /\ epochs < n
    BY <1>t
  <2>1. journal'.kind = "REPAIR_CLEAR_ALL" /\ journal'.epochAfter = n /\ epochs' = n
    BY <1>2, <2>0 DEF RepairJournal
  <2>2. /\ run' \in ARun /\ run'.pc = "repair_epoch" /\ run'.op = run.op /\ run'.writer = run.writer
        /\ run'.final = TRUE
    <3>1. run \in ARun /\ "repair_epoch" \in RunPcs
      BY <1>t DEF RunPcs
    <3> QED BY <1>2, <3>1 DEF ARun
  <2>3. Marked' = {}
    BY <1>t, <1>2 DEF Marked
  <2>4. CurrentToken' = [generation |-> 0, epoch |-> n] /\ Recovered' = Cleared
    BY <2>1 DEF CurrentToken, Recovered
  <2>5. CurrentToken' \in Tokens
    BY <1>t, <2>0, <2>4 DEF Tokens
  <2>6. Earlier(CurrentToken, CurrentToken')
    <3>1. CASE CurrentToken = NoToken
      BY <3>1 DEF Earlier
    <3>2. CASE CurrentToken # NoToken
      <4>1. CurrentToken \in Tokens /\ CurrentToken.epoch <= epochs
        BY <3>2, TokenRead
      <4>2. CurrentToken.epoch < n
        BY <4>1, <2>0, <1>t DEF Tokens
      <4> QED BY <2>4, <4>2 DEF Earlier
    <3> QED BY <3>1, <3>2
  <2>7. StorageTypeOK'
    <3>1. epoch \in {Missing, Damaged} \cup 1..n /\ n \in 0..MaxEpochs
      BY <1>t, <2>0 DEF StorageInv, StorageTypeOK
    <3> QED BY <1>2, <2>1, <2>2, <3>1 DEF StorageInv, StorageTypeOK
  <2>8. JournalOK' /\ MarkersOK'
    BY <2>0, <2>1, <2>3 DEF JournalOK, MarkersOK
  <2>9. RunOK'
    BY <1>t, <1>2, <2>1, <2>2, <2>3 DEF RunOK, StorageInv
  <2> QED BY <1>2, <2>4, <2>5, <2>6, <2>7, <2>8, <2>9 DEF GoesOn, DiskInv, Emptied
<1> QED BY <1>1, <1>2 DEF Repair

----------------------------------------------------------------------------
(* Every step, and the theorem.                                            *)

\* Every step of the lock's holder.
LEMMA StepGoesOn ==
  ASSUME StorageInv, Step
  PROVE  GoesOn
  BY LookGoesOn, UndoGoesOn, UndoDoneGoesOn, ClearFenceGoesOn, ClearDataGoesOn, MarkFenceGoesOn,
     MarkDataGoesOn, MarkJournalGoesOn, RepairEpochGoesOn, RepairGenerationGoesOn, RepairDataGoesOn,
     PrepareGoesOn, WriteKeyGoesOn, CommitGoesOn, ClearInstallGoesOn, RepairGoesOn
  DEF Step, Recovery

\* A step that leaves the disk and the operation alone.
LEMMA SameRun ==
  ASSUME StorageInv, DiskStays, run' = run
  PROVE  GoesOn
<1>1. run' \in ARun
  BY DEF StorageInv, StorageTypeOK
<1>2. DiskInv' /\ Unmoved /\ token' = token /\ Marked' = Marked /\ Generation' = Generation
  BY <1>1, SameDisk
<1>3. RunOK'
  BY <1>2 DEF DiskStays, StorageInv, RunOK, Unmoved
<1> QED BY <1>2, <1>3 DEF GoesOn

\* An operation takes the lock.
LEMMA StartGoesOn ==
  ASSUME StorageInv, Start
  PROVE  GoesOn
<1>1. ASSUME NEW op \in Ops, Begin(op) PROVE GoesOn
  <2>1. DiskStays /\ op \in {"recover", "clear"} /\ (op = "clear" => epochs < MaxEpochs)
        /\ run' = [Idle EXCEPT !.op = op, !.pc = "look"]
    BY <1>1 DEF Begin, DiskStays, diskVars, boundVars
  <2>2. run' \in ARun /\ run'.pc = "look" /\ run'.op = op /\ ~run'.final
    <3>1. Idle \in ARun /\ ~Idle.final /\ "look" \in RunPcs
      BY IdleRun DEF RunPcs
    <3> QED BY <2>1, <3>1 DEF ARun
  <2>3. DiskInv' /\ Unmoved /\ token' = token
    BY <2>1, <2>2, SameDisk
  <2>4. RunOK'
    BY <2>1, <2>2 DEF RunOK, DiskStays
  <2> QED BY <2>3, <2>4 DEF GoesOn
<1>2. ASSUME NEW w \in Writers, BeginReplace(w) PROVE GoesOn
  <2>1. DiskStays /\ token[w] # NoToken
        /\ run' = [Idle EXCEPT !.op = "replace", !.pc = "look", !.writer = w]
    BY <1>2 DEF BeginReplace, DiskStays, diskVars, boundVars
  <2>2. run' \in ARun /\ run'.pc = "look" /\ run'.op = "replace" /\ run'.writer = w /\ ~run'.final
    <3>1. Idle \in ARun /\ ~Idle.final /\ "look" \in RunPcs
      BY IdleRun DEF RunPcs
    <3> QED BY <2>1, <3>1 DEF ARun
  <2>3. DiskInv' /\ Unmoved /\ token' = token
    BY <2>1, <2>2, SameDisk
  <2>4. RunOK'
    BY <2>1, <2>2, <2>3 DEF RunOK
  <2> QED BY <2>3, <2>4 DEF GoesOn
<1> QED BY <1>1, <1>2 DEF Start

\* A writer takes a token: all a reader finds stays where it is.
LEMMA CaptureGoesOn ==
  ASSUME StorageInv, NEW w \in Writers, Capture(w)
  PROVE  StorageInv' /\ Store!Capture(w)
<1>1. /\ UNCHANGED <<user, stored, epoch, journal, run, stamps, epochs>>
      /\ token' = [token EXCEPT ![w] = CurrentToken] /\ ~(run.op = "replace" /\ run.writer = w)
  BY DEF Capture, diskVars, boundVars
<1>2. Unmoved /\ Marked' = Marked /\ Generation' = Generation
  BY <1>1, Views DEF Unmoved
<1>3. CurrentToken \in Tokens \cup {NoToken}
  BY TokenRead
<1>4. token' \in [Writers -> Tokens \cup {NoToken}]
  BY <1>1, <1>3 DEF StorageInv, StorageTypeOK
<1>5. StorageTypeOK' /\ JournalOK'
  BY <1>1, <1>4 DEF StorageInv, StorageTypeOK, JournalOK, Fenced, Generation
<1>6. MarkersOK'
  BY <1>1, <1>2 DEF StorageInv, MarkersOK, Fenced
<1>7. run.op = "replace" => token'[run.writer] = token[run.writer]
  BY <1>1 DEF StorageInv, StorageTypeOK, RunOK
<1>8. RunOK'
  BY <1>1, <1>2, <1>7 DEF StorageInv, RunOK, Unmoved
<1>9. Store!Capture(w)
  BY <1>1, <1>2 DEF Unmoved, Store!Capture
<1> QED BY <1>5, <1>6, <1>8, <1>9 DEF StorageInv

\* A browser that has stored anything, or nothing, starts in order.
LEMMA StorageStarts ==
  ASSUME StorageInit
  PROVE  StorageInv /\ Store!Init
<1>0. user \in [Keys -> Values]
  <2>1. CASE user = Cleared
    BY <2>1, KindsOf
  <2>2. ASSUME NEW sizes \in [Keys -> Sizes], user = [k \in Keys |-> Data(0, sizes[k])]
        PROVE  user \in [Keys -> Values]
    <3>1. 0 \in 0..MaxStamps
      BY BoundsAssumption
    <3>2. \A k \in Keys : Data(0, sizes[k]) \in Values
      BY <3>1 DEF Values
    <3> QED BY <2>2, <3>2
  <2> QED BY <2>1, <2>2 DEF StorageInit
<1>1. Marked = {} /\ journal.kind \in {"NONE", "DAMAGED"} /\ (journal.kind = "NONE" => journal = NoJournal)
  BY <1>0, KindsOf DEF StorageInit, Marked, NoJournal, DamagedJournal
<1>2. StorageTypeOK
  <2>1. token \in [Writers -> Tokens \cup {NoToken}]
    BY DEF StorageInit
  <2>2. run \in ARun /\ stamps \in 0..MaxStamps /\ epochs \in 0..MaxEpochs
    BY IdleRun, BoundsAssumption DEF StorageInit
  <2> QED BY <1>0, <2>1, <2>2 DEF StorageInit, StorageTypeOK
<1>3. JournalOK /\ MarkersOK
  BY <1>1 DEF JournalOK, MarkersOK
<1>4. RunOK
  BY IdleRun DEF StorageInit, RunOK
<1>5. StorageInv
  BY <1>2, <1>3, <1>4 DEF StorageInv
<1>6. Recovered = user
  BY <1>1 DEF Recovered
<1>7. CurrentToken \in Tokens \cup {NoToken}
  BY <1>5, TokenRead
<1>8. Store!Init
  BY <1>0, <1>6, <1>7 DEF StorageInit, Store!Init
<1> QED BY <1>5, <1>8

\* Every step keeps the invariant, and is one of the abstract store or none of it.
LEMMA StorageGoesOn ==
  ASSUME StorageInv, [StorageNext]_storageVars
  PROVE  StorageInv' /\ [Store!Next]_<<Recovered, CurrentToken, token>>
<1>1. ASSUME GoesOn PROVE StorageInv' /\ [Store!Next]_<<Recovered, CurrentToken, token>>
  <2>1. StorageInv' /\ token' = token
    BY <1>1 DEF GoesOn, DiskInv, StorageInv
  <2>2. CASE Unmoved
    BY <2>1, <2>2 DEF Unmoved
  <2>3. CASE Emptied
    <3>1. Store!Clear
      BY <2>1, <2>3 DEF Emptied, Store!Clear
    <3> QED BY <2>1, <3>1 DEF Store!Next
  <2>4. CASE Renewed
    <3>1. PICK w \in Writers : token[w] = CurrentToken
      BY <2>4 DEF Renewed
    <3>2. Store!Replace(w)
      BY <2>1, <2>4, <3>1 DEF Renewed, Store!Replace
    <3> QED BY <2>1, <3>2 DEF Store!Next
  <2> QED BY <1>1, <2>2, <2>3, <2>4 DEF GoesOn
<1>2. CASE Step
  BY <1>1, <1>2, StepGoesOn
<1>3. CASE Start
  BY <1>1, <1>3, StartGoesOn
<1>4. CASE Abandon
  <2>1. DiskStays /\ Finish
    BY <1>4 DEF Abandon, DiskStays, diskVars
  <2> QED BY <1>1, <2>1, Finishing
<1>5. CASE ForeignWrite
  <2>1. DiskStays /\ run' = run
    BY <1>5 DEF ForeignWrite, DiskStays, boundVars
  <2> QED BY <1>1, <2>1, SameRun
<1>6. ASSUME NEW w \in Writers, Capture(w)
      PROVE  StorageInv' /\ [Store!Next]_<<Recovered, CurrentToken, token>>
  BY <1>6, CaptureGoesOn DEF Store!Next
<1>7. CASE UNCHANGED storageVars
  <2>1. DiskStays /\ run' = run
    BY <1>7 DEF storageVars, DiskStays
  <2> QED BY <1>1, <2>1, SameRun
<1> QED BY <1>2, <1>3, <1>4, <1>5, <1>6, <1>7 DEF StorageNext

(***************************************************************************)
(* ImplementsAtomicStore, for any keys, sizes, quota and number of crashes *)
(* of app/src/lib/browser-restore-transaction.ts: whatever tab dies        *)
(* between two writes and whichever write the quota refuses, the content   *)
(* recovery finds is replaced as a whole by the holder of the token in     *)
(* force, or emptied under a token later than all before it.               *)
(***************************************************************************)
THEOREM StorageIsAtomic == StorageSpec => ImplementsAtomicStore
<1>1. StorageInit => StorageInv /\ Store!Init
  BY StorageStarts
<1>2. StorageInv /\ [StorageNext]_storageVars => StorageInv' /\ [Store!Next]_<<Recovered, CurrentToken, token>>
  BY StorageGoesOn
<1> QED BY <1>1, <1>2, PTL DEF StorageSpec, ImplementsAtomicStore, Store!Spec, Store!storeVars

\* The numbers of a set in order are each of them once.
LEMMA AscendingIs ==
  ASSUME NEW S \in SUBSET Nat, IsFiniteSet(S)
  PROVE  /\ Cardinality(S) \in Nat
         /\ Ascending(S) \in [1..Cardinality(S) -> S]
         /\ \A n, m \in 1..Cardinality(S) : Ascending(S)[n] = Ascending(S)[m] => n = m
         /\ \A i \in S : \E n \in 1..Cardinality(S) : Ascending(S)[n] = i
<1> DEFINE Below(i) == {j \in S : j < i}
           N == Cardinality(S)
           rank == [i \in S |-> Cardinality(Below(i)) + 1]
<1>1. N \in Nat
  BY FS_CardinalityType
<1>2. ASSUME NEW i \in S PROVE IsFiniteSet(Below(i)) /\ Cardinality(Below(i)) \in 0..(N - 1)
  <2>1. Below(i) \subseteq S /\ Below(i) # S
    OBVIOUS
  <2> HIDE DEF Below
  <2>2. /\ IsFiniteSet(Below(i)) /\ Cardinality(Below(i)) \in Nat /\ Cardinality(Below(i)) <= N
        /\ Cardinality(Below(i)) # N
    BY <2>1, FS_Subset, FS_CardinalityType
  <2> QED BY <1>1, <2>2
<1>3. ASSUME NEW i \in S, NEW k \in S, i < k PROVE Cardinality(Below(i)) < Cardinality(Below(k))
  <2>1. Below(i) \subseteq Below(k) /\ Below(i) # Below(k)
    <3>1. i \in Below(k) /\ i \notin Below(i)
      BY <1>3
    <3>2. \A j \in S : j < i => j < k
      BY <1>3
    <3> QED BY <3>1, <3>2
  <2>2. IsFiniteSet(Below(k))
    BY <1>2
  <2> HIDE DEF Below
  <2>3. /\ Cardinality(Below(i)) <= Cardinality(Below(k)) /\ Cardinality(Below(i)) # Cardinality(Below(k))
    BY <2>1, <2>2, FS_Subset
  <2>4. Cardinality(Below(i)) \in Int /\ Cardinality(Below(k)) \in Int
    BY <1>2
  <2> QED BY <2>3, <2>4
<1>4. ASSUME NEW i \in S, NEW k \in S, Cardinality(Below(i)) = Cardinality(Below(k)) PROVE i = k
  <2>1. ~(i < k) /\ ~(k < i)
    <3>1. Cardinality(Below(i)) \in Int /\ Cardinality(Below(k)) \in Int
      BY <1>2
    <3> HIDE DEF Below
    <3> QED BY <1>3, <1>4, <3>1
  <2> QED BY <2>1
<1>5. rank \in Injection(S, 1..N)
  <2>1. \A i \in S : Cardinality(Below(i)) + 1 \in 1..N
    BY <1>1, <1>2
  <2>2. \A i, k \in S : Cardinality(Below(i)) + 1 = Cardinality(Below(k)) + 1 => i = k
    <3> SUFFICES ASSUME NEW i \in S, NEW k \in S, Cardinality(Below(i)) + 1 = Cardinality(Below(k)) + 1
                 PROVE  i = k
      OBVIOUS
    <3>1. Cardinality(Below(i)) \in Int /\ Cardinality(Below(k)) \in Int
      BY <1>2
    <3> HIDE DEF Below
    <3>2. Cardinality(Below(i)) = Cardinality(Below(k))
      BY <3>1
    <3> QED BY <3>2, <1>4
  <2> HIDE DEF Below
  <2> QED BY <2>1, <2>2 DEF Injection, IsInjective
<1>6. rank \in Surjection(S, 1..N)
  <2>1. IsFiniteSet(1..N) /\ Cardinality(1..N) = N
    BY <1>1, FS_Interval
  <2> HIDE DEF rank
  <2> QED BY <1>5, <2>1, FS_Injection
<1>7. ASSUME NEW n \in 1..N PROVE \E i \in S : Cardinality(Below(i)) = n - 1
  <2>1. PICK i \in S : rank[i] = n
    BY <1>6 DEF Surjection
  <2>2. Cardinality(Below(i)) \in Int
    BY <1>2
  <2>3. Cardinality(Below(i)) + 1 = n
    BY <2>1
  <2> HIDE DEF Below
  <2> QED BY <2>2, <2>3
<1>8. ASSUME NEW n \in 1..N PROVE Ascending(S)[n] \in S /\ Cardinality(Below(Ascending(S)[n])) = n - 1
  <2>1. Ascending(S)[n] = CHOOSE i \in S : Cardinality(Below(i)) = n - 1
    BY DEF Ascending
  <2> HIDE DEF Below
  <2> QED BY <1>7, <2>1
<1>9. Ascending(S) \in [1..N -> S]
  BY <1>8 DEF Ascending
<1>10. \A n, m \in 1..N : Ascending(S)[n] = Ascending(S)[m] => n = m
  <2> SUFFICES ASSUME NEW n \in 1..N, NEW m \in 1..N, Ascending(S)[n] = Ascending(S)[m] PROVE n = m
    OBVIOUS
  <2>1. n - 1 = m - 1
    BY <1>8
  <2> QED BY <2>1
<1>11. ASSUME NEW i \in S PROVE \E n \in 1..N : Ascending(S)[n] = i
  <2>0. Cardinality(Below(i)) \in 0..(N - 1)
    BY <1>2
  <2>1. PICK n \in 1..N : n = Cardinality(Below(i)) + 1
    <3> HIDE DEF Below
    <3> QED BY <1>1, <2>0
  <2>2. Cardinality(Below(i)) = n - 1
    <3>1. Cardinality(Below(i)) \in Int
      BY <1>2
    <3> HIDE DEF Below
    <3> QED BY <2>1, <3>1
  <2> HIDE DEF Below
  <2>3. Ascending(S)[n] = i
    BY <1>4, <1>8, <2>2
  <2> QED BY <2>3
<1> QED BY <1>1, <1>9, <1>10, <1>11

----------------------------------------------------------------------------
(* Statements. *)

\* A row that reports an execution of the account.
Reports(r) ==
    /\ r.exec \in DOMAIN history
    /\ r.num = history[r.exec].id /\ r.time = history[r.exec].time /\ r.book = history[r.exec].book

\* The rows of a statement of n rows of one kind, each of the execution `read` says.
ReadAs(rows, kind, n, read) ==
    /\ read \in [1..n -> DOMAIN history]
    /\ kind.ids = "none" => \A i, j \in 1..n : read[i] = read[j] => i = j
    /\ rows = [i \in 1..n |-> RowOf(read[i], kind)]

\* A row reports its execution, with an identifier if its kind of statement has them.
LEMMA RowReports ==
  ASSUME NEW kind, NEW e \in DOMAIN history
  PROVE  Reports(RowOf(e, kind)) /\ RowOf(e, kind).exec = e
         /\ (RowOf(e, kind).id = NoId <=> kind.ids = "none")
<1>1. RowOf(e, kind).id = IF kind.ids = "none" THEN NoId
                          ELSE <<history[e].id, IF kind.ids = "padded" THEN 1 ELSE 0>>
  BY DEF RowOf
<1>2. <<history[e].id, IF kind.ids = "padded" THEN 1 ELSE 0>> # NoId
  BY DEF NoId
<1> QED BY <1>1, <1>2 DEF RowOf, Reports

\* A period is listed in either order, and only a statement with identifiers lists a row twice.
LEMMA ListedRows ==
  ASSUME history \in Histories, NEW lo, NEW hi, NEW kind \in Kinds
  PROVE  /\ Len(Listed(lo, hi, kind)) \in Nat
         /\ Listed(lo, hi, kind) \in [1..Len(Listed(lo, hi, kind)) -> DOMAIN history]
         /\ kind.ids = "none" => \A i, j \in 1..Len(Listed(lo, hi, kind)) :
                Listed(lo, hi, kind)[i] = Listed(lo, hi, kind)[j] => i = j
<1> DEFINE H == DOMAIN history
           S == {e \in H : history[e].time >= lo /\ history[e].time <= hi}
           covered == Ascending(S)
           N == Cardinality(S)
           listed == IF kind.newestFirst THEN Reverse(covered) ELSE covered
<1>1. PICK h \in Nat : H = 1..h
  BY HistoriesAssumption
<1>2. S \in SUBSET Nat /\ IsFiniteSet(S)
  <2>1. IsFiniteSet(H) /\ H \subseteq Nat
    BY <1>1, FS_Interval
  <2>2. S \in SUBSET H
    OBVIOUS
  <2> HIDE DEF S, H
  <2> QED BY <2>1, <2>2, FS_Subset
<1>3. N \in Nat /\ covered \in [1..N -> S] /\ \A n, m \in 1..N : covered[n] = covered[m] => n = m
  <2> HIDE DEF S
  <2> QED BY <1>2, AscendingIs
<1>4. covered \in [1..N -> H]
  BY <1>3
<1> HIDE DEF S, N, covered
<1>5. covered \in Seq(H) /\ Len(covered) = N
  BY <1>3, <1>4
<1>6. listed \in [1..N -> H] /\ \A n, m \in 1..N : listed[n] = listed[m] => n = m
  <2>1. CASE ~kind.newestFirst
    BY <1>3, <1>4, <2>1
  <2>2. CASE kind.newestFirst
    <3>1. listed = [i \in 1..N |-> covered[(N - i) + 1]]
      BY <1>5, <2>2 DEF Reverse
    <3>2. \A i \in 1..N : (N - i) + 1 \in 1..N
      BY <1>3
    <3>3. \A i \in 1..N : listed[i] = covered[(N - i) + 1]
      BY <3>1
    <3>4. listed \in [1..N -> H]
      BY <1>4, <3>1, <3>2
    <3>5. ASSUME NEW n \in 1..N, NEW m \in 1..N, listed[n] = listed[m] PROVE n = m
      <4>1. covered[(N - n) + 1] = covered[(N - m) + 1]
        BY <3>3, <3>5
      <4>2. (N - n) + 1 = (N - m) + 1
        BY <1>3, <3>2, <4>1
      <4> QED BY <1>3, <4>2
    <3> QED BY <3>4, <3>5
  <2> QED BY <2>1, <2>2
<1>7. Listed(lo, hi, kind) = IF kind.doubled /\ listed # <<>> THEN Append(listed, listed[1]) ELSE listed
  BY DEF Listed, covered, S
<1> HIDE DEF listed
<1>8. listed \in Seq(H) /\ Len(listed) = N
  BY <1>3, <1>6
<1>9. CASE ~(kind.doubled /\ listed # <<>>)
  BY <1>3, <1>6, <1>7, <1>8, <1>9
<1>10. CASE kind.doubled /\ listed # <<>>
  <2>1. 1 \in 1..N /\ listed[1] \in H
    BY <1>6, <1>8, <1>10
  <2>2. Listed(lo, hi, kind) = Append(listed, listed[1])
    BY <1>7, <1>10
  <2>3. Append(listed, listed[1]) \in Seq(H) /\ Len(Append(listed, listed[1])) = N + 1
    BY <1>8, <2>1
  <2>4. Append(listed, listed[1]) \in [1..(N + 1) -> H]
    BY <2>3, LenProperties
  <2> QED BY <1>3, <1>10, <2>2, <2>3, <2>4, KindsAssumption
<1> QED BY <1>9, <1>10

\* What a statement that is not refused at once holds.
LEMMA StatementRows ==
  ASSUME history \in Histories, NEW s \in Statements, Complete(s)
  PROVE  \E kind \in Kinds, n \in Nat : \E read \in [1..n -> DOMAIN history] :
            /\ ReadAs(s.rows, kind, n, read)
            /\ s.evidence.trusted => kind.ids # "none"
<1>1. PICK lo \in ReportTimes, hi \in ReportTimes, kind \in Kinds : s = Statement(lo, hi, kind)
  <2>1. \E p \in {q \in ReportTimes \X ReportTimes : q[1] <= q[2]}, kind \in Kinds :
           s = Statement(p[1], p[2], kind)
    BY DEF Statements
  <2> QED BY <2>1
<1> DEFINE listed == Listed(lo, hi, kind)
           n == Len(listed)
<1>2. n \in Nat /\ listed \in [1..n -> DOMAIN history]
      /\ (kind.ids = "none" => \A i, j \in 1..n : listed[i] = listed[j] => i = j)
  BY ListedRows
<1>3. ~kind.damaged
  BY <1>1 DEF Complete, Statement
<1>4. s.rows = [i \in DOMAIN listed |-> RowOf(listed[i], kind)] /\ s.evidence.trusted = TrustedHeader(kind)
  BY <1>1, <1>3 DEF Statement
<1> HIDE DEF listed, n
<1>5. DOMAIN listed = 1..n
  BY <1>2
<1>6. ReadAs(s.rows, kind, n, listed)
  BY <1>2, <1>4, <1>5 DEF ReadAs
<1>7. s.evidence.trusted => kind.ids # "none"
  BY <1>4 DEF TrustedHeader
<1> QED BY <1>2, <1>6, <1>7

----------------------------------------------------------------------------
(* What a statement adds. *)

\* The first row with the identifier of a row; it is its own first row.
LEMMA FirstRow ==
  ASSUME NEW rows, NEW n \in Nat, NEW i \in 1..n
  PROVE  /\ FirstOf(rows, i) \in 1..i
         /\ rows[i].id = NoId => FirstOf(rows, i) = i
         /\ rows[i].id # NoId => /\ rows[FirstOf(rows, i)].id # NoId
                                 /\ ProviderKey(rows[FirstOf(rows, i)]) = ProviderKey(rows[i])
         /\ \A j \in 1..i : rows[i].id # NoId /\ rows[j].id # NoId /\ ProviderKey(rows[j]) = ProviderKey(rows[i])
               => FirstOf(rows, i) <= j
         /\ FirstOf(rows, FirstOf(rows, i)) = FirstOf(rows, i)
<1> DEFINE Same(k) == {j \in 1..k : rows[j].id # NoId /\ ProviderKey(rows[j]) = ProviderKey(rows[k])}
<1>m. ASSUME NEW k \in 1..n, rows[k].id # NoId
      PROVE  FirstOf(rows, k) \in Same(k) /\ \A j \in Same(k) : FirstOf(rows, k) <= j
  <2>1. Same(k) \in SUBSET Nat /\ Same(k) # {}
    BY <1>m
  <2>2. FirstOf(rows, k) = Min(Same(k))
    BY <1>m DEF FirstOf
  <2> HIDE DEF Same
  <2>3. \E m \in Same(k) : \A j \in Same(k) : m <= j
    BY <2>1, LeastNat
  <2> QED BY <2>2, <2>3 DEF Min
<1>1. CASE rows[i].id = NoId
  <2>1. FirstOf(rows, i) = i
    BY <1>1 DEF FirstOf
  <2> QED BY <1>1, <2>1
<1>2. CASE rows[i].id # NoId
  <2>1. PICK f \in 1..i : f = FirstOf(rows, i) /\ f \in Same(i) /\ \A j \in Same(i) : f <= j
    BY <1>2, <1>m
  <2>2. rows[f].id # NoId /\ ProviderKey(rows[f]) = ProviderKey(rows[i]) /\ f \in 1..n
    BY <2>1
  <2>3. PICK g \in 1..f : g = FirstOf(rows, f) /\ g \in Same(f)
    BY <2>2, <1>m
  <2>4. g \in Same(i)
    BY <2>1, <2>2, <2>3
  <2>5. f <= g
    BY <2>1, <2>4
  <2>6. f = g
    BY <2>3, <2>5
  <2> QED BY <1>2, <2>1, <2>2, <2>3, <2>6
<1> QED BY <1>1, <1>2

\* A row is new when no fill has its identifier and no earlier row of its statement has it.
IsNew(l, rows, i) == KnownFill(l, rows[i]) = {} /\ FirstOf(rows, i) = i

\* The m new rows of a statement of n.
NewOnes(l, rows, n, m) ==
    /\ NewIndexes(l, rows) \in [1..m -> 1..n]
    /\ \A k \in 1..m : IsNew(l, rows, NewIndexes(l, rows)[k])
    /\ \A k, j \in 1..m : NewIndexes(l, rows)[k] = NewIndexes(l, rows)[j] => k = j
    /\ \A i \in 1..n : IsNew(l, rows, i) => \E k \in 1..m : NewIndexes(l, rows)[k] = i
    /\ NewRows(l, rows) = [k \in 1..m |-> rows[NewIndexes(l, rows)[k]]]

LEMMA NewRowsAre ==
  ASSUME NEW l, NEW rows, NEW n \in Nat, DOMAIN rows = 1..n
  PROVE  \E m \in Nat : NewOnes(l, rows, n, m)
<1> DEFINE S == {i \in 1..n : IsNew(l, rows, i)}
<1>1. S \in SUBSET Nat /\ IsFiniteSet(S)
  <2>1. IsFiniteSet(1..n)
    BY FS_Interval
  <2>2. S \in SUBSET (1..n) /\ S \in SUBSET Nat
    OBVIOUS
  <2> HIDE DEF S
  <2> QED BY <2>1, <2>2, FS_Subset
<1>2. NewIndexes(l, rows) = Ascending(S)
  BY DEF NewIndexes, IsNew
<1>3. PICK m \in Nat : m = Cardinality(S)
  <2> HIDE DEF S
  <2> QED BY <1>1, AscendingIs
<1>4. /\ NewIndexes(l, rows) \in [1..m -> S]
      /\ \A k, j \in 1..m : NewIndexes(l, rows)[k] = NewIndexes(l, rows)[j] => k = j
      /\ \A i \in S : \E k \in 1..m : NewIndexes(l, rows)[k] = i
  <2> HIDE DEF S
  <2> QED BY <1>1, <1>2, <1>3, AscendingIs
<1>5. NewRows(l, rows) = [k \in 1..m |-> rows[NewIndexes(l, rows)[k]]]
  BY <1>4 DEF NewRows
<1> QED BY <1>4, <1>5 DEF NewOnes

\* Each row of a statement is accounted for: by fills with its identifier, or by one of the new rows.
AccountedFor(l, rows, i, m) ==
    /\ KnownFill(l, rows[i]) # {} =>
          RowPlan(l, rows)[i] = [old |-> {f.ref : f \in KnownFill(l, rows[i])}, new |-> 0]
    /\ KnownFill(l, rows[i]) = {} =>
          /\ RowPlan(l, rows)[i].new \in 1..m /\ RowPlan(l, rows)[i].new # 0
          /\ NewIndexes(l, rows)[RowPlan(l, rows)[i].new] = FirstOf(rows, i)

LEMMA Planned ==
  ASSUME NEW l, NEW rows, NEW n \in Nat, DOMAIN rows = 1..n, NEW i \in 1..n,
         NEW m \in Nat, NewOnes(l, rows, n, m)
  PROVE  AccountedFor(l, rows, i, m)
<1>1. CASE KnownFill(l, rows[i]) # {}
  BY <1>1 DEF RowPlan, AccountedFor
<1>2. CASE KnownFill(l, rows[i]) = {}
  <2> DEFINE f == FirstOf(rows, i)
  <2>1. f \in 1..n /\ FirstOf(rows, f) = f
        /\ (rows[i].id = NoId => f = i)
        /\ (rows[i].id # NoId => rows[f].id # NoId /\ ProviderKey(rows[f]) = ProviderKey(rows[i]))
    <3>1. FirstOf(rows, i) \in 1..i
      BY FirstRow
    <3>2. FirstOf(rows, i) \in 1..n
      BY <3>1
    <3>3. FirstOf(rows, FirstOf(rows, i)) = FirstOf(rows, i)
      BY FirstRow, Zenon
    <3>4. rows[i].id = NoId => FirstOf(rows, i) = i
      BY FirstRow, Zenon
    <3>5. rows[i].id # NoId => /\ rows[FirstOf(rows, i)].id # NoId
                               /\ ProviderKey(rows[FirstOf(rows, i)]) = ProviderKey(rows[i])
      BY FirstRow, Zenon
    <3> QED BY <3>2, <3>3, <3>4, <3>5
  <2> HIDE DEF f
  <2>2. KnownFill(l, rows[f]) = {}
    <3>1. CASE rows[i].id = NoId
      BY <1>2, <2>1, <3>1
    <3>2. CASE rows[i].id # NoId
      BY <1>2, <2>1, <3>2 DEF KnownFill
    <3> QED BY <3>1, <3>2
  <2>3. \E k \in 1..m : NewIndexes(l, rows)[k] = f
    BY <2>1, <2>2 DEF IsNew, NewOnes
  <2>4. DOMAIN NewIndexes(l, rows) = 1..m
    BY DEF NewOnes
  <2>5. RowPlan(l, rows)[i] = [old |-> {}, new |-> CHOOSE k \in 1..m : NewIndexes(l, rows)[k] = f]
    BY <1>2, <2>4 DEF RowPlan, f
  <2> QED BY <1>2, <2>3, <2>5 DEF f, AccountedFor
<1> QED BY <1>1, <1>2

----------------------------------------------------------------------------
(* What a ledger is. *)

\* A statement in the ledger: its rows report executions, and a trusted one has identifiers.
BatchReads(b) ==
    /\ b = [digest |-> b.digest, rows |-> b.rows, plan |-> b.plan, unidentified |-> b.unidentified,
            intervals |-> b.intervals, evidence |-> b.evidence]
    /\ \A i \in DOMAIN b.rows : Reports(b.rows[i]) /\ (b.evidence.trusted => b.rows[i].id # NoId)

LedgerInv(l) ==
    /\ l = [batches |-> l.batches, fills |-> l.fills]
    /\ \E p \in Nat : l.batches = [k \in 1..p |-> l.batches[k]]
    /\ \A k \in DOMAIN l.batches : BatchReads(l.batches[k]) /\ BatchVerifies(l, k)
    /\ l.fills = LineageFills(l)
    /\ \A f, g \in l.fills : f.exec = g.exec => f = g

CsvInv ==
    /\ history \in Histories
    /\ LedgerInv(ledger)
    /\ ledger # NoLedger => /\ WellFormed(ledger) /\ ~OrderAmbiguous(ledger)
                            /\ Replayed(ledger) = trades

\* A fill is a row of a statement of its ledger.
LEMMA FillIs ==
  ASSUME NEW l, LedgerInv(l), NEW f \in l.fills
  PROVE  \E k \in DOMAIN l.batches : \E i \in DOMAIN l.batches[k].rows :
            /\ f = Stored(l.batches[k].rows[i], l.batches[k].digest, i)
            /\ Reports(f) /\ f.batch = l.batches[k].digest /\ f.id = l.batches[k].rows[i].id
<1>1. f \in LineageFills(l)
  BY DEF LedgerInv
<1>2. PICK k \in DOMAIN l.batches : \E i \in DOMAIN l.batches[k].rows :
         f = Stored(l.batches[k].rows[i], l.batches[k].digest, i)
  BY <1>1 DEF LineageFills
<1>3. PICK i \in DOMAIN l.batches[k].rows : f = Stored(l.batches[k].rows[i], l.batches[k].digest, i)
  BY <1>2
<1>4. Reports(l.batches[k].rows[i])
  BY DEF LedgerInv, BatchReads
<1> QED BY <1>3, <1>4 DEF Stored, Reports

\* In a ledger of trusted statements the order of replay is the order of the account.
LEMMA TrustedOrder ==
  ASSUME history \in Histories, NEW l, LedgerInv(l), ~OrderAmbiguous(l),
         \A b \in ToSet(l.batches) : b.evidence.trusted,
         NEW f \in l.fills, NEW g \in l.fills, f.book = g.book, Precedes(l, f, g)
  PROVE  f.exec < g.exec
<1>h. PICK h \in Nat : DOMAIN history = 1..h
  BY HistoriesAssumption
<1>1. /\ f.exec \in 1..h /\ f.num = history[f.exec].id /\ f.time = history[f.exec].time
      /\ f.book = history[f.exec].book
      /\ g.exec \in 1..h /\ g.num = history[g.exec].id /\ g.time = history[g.exec].time
      /\ g.book = history[g.exec].book
  <2>1. Reports(f) /\ Reports(g)
    BY FillIs
  <2> QED BY <1>h, <2>1 DEF Reports
<1>2. /\ \A i \in 1..h : history[i].time \in Int /\ history[i].id \in Int
      /\ \A i, j \in 1..h : i < j => history[i].time <= history[j].time
      /\ \A i, j \in 1..h : i < j /\ history[i].book = history[j].book => history[i].id < history[j].id
  BY <1>h, HistoriesAssumption
<1>3. ASSUME ~(f.exec < g.exec) PROVE f.time >= g.time /\ f.num >= g.num
  <2>1. CASE f.exec = g.exec
    BY <1>1, <1>2, <2>1
  <2>2. CASE g.exec < f.exec
    <3>1. history[g.exec].time <= history[f.exec].time
      BY <1>1, <1>2, <2>2
    <3>2. history[g.exec].book = history[f.exec].book
      BY <1>1
    <3>3. history[g.exec].id < history[f.exec].id
      BY <1>1, <1>2, <2>2, <3>2
    <3>4. f.time \in Int /\ g.time \in Int /\ f.num \in Int /\ g.num \in Int
      BY <1>1, <1>2
    <3>5. g.time <= f.time /\ g.num < f.num
      BY <1>1, <3>1, <3>3
    <3> HIDE DEF Precedes
    <3> QED BY <3>4, <3>5
  <2> QED BY <1>1, <1>3, <2>1, <2>2
\* A trusted fill is ordered by its identifier.
<1>4. ASSUME NEW a \in l.fills PROVE Ordering(l, a)
  <2>1. PICK k \in DOMAIN l.batches : \E i \in DOMAIN l.batches[k].rows :
            /\ a = Stored(l.batches[k].rows[i], l.batches[k].digest, i)
            /\ Reports(a) /\ a.batch = l.batches[k].digest /\ a.id = l.batches[k].rows[i].id
    BY FillIs
  <2>2. l.batches[k] \in ToSet(l.batches)
    BY DEF ToSet
  <2>3. a.id # NoId
    <3>1. PICK i \in DOMAIN l.batches[k].rows : a.id = l.batches[k].rows[i].id
      BY <2>1
    <3>2. l.batches[k].evidence.trusted
      BY <2>2
    <3>3. BatchReads(l.batches[k])
      BY DEF LedgerInv
    <3> QED BY <3>1, <3>2, <3>3 DEF BatchReads
  <2>4. EvidenceOf(l, a.batch).trusted
    <3>1. \E b \in ToSet(l.batches) : b.digest = a.batch
      BY <2>1, <2>2
    <3>2. (CHOOSE b \in ToSet(l.batches) : b.digest = a.batch) \in ToSet(l.batches)
      BY <3>1
    <3> QED BY <3>2 DEF EvidenceOf
  <2> QED BY <2>3, <2>4 DEF Ordering
\* Two fills of a point with one identifier would be one execution counted twice.
<1>5. UniquelyOrdered(l, AtPoint(l, Point(f)))
  <2>1. ASSUME NEW a \in AtPoint(l, Point(f)), NEW b \in AtPoint(l, Point(f)), a.num = b.num PROVE a = b
    <3>1. /\ a \in l.fills /\ b \in l.fills /\ a.time = b.time /\ a.book = b.book
      BY DEF AtPoint, Point
    <3>2. Reports(a) /\ Reports(b)
      BY <3>1, FillIs
    <3>3. /\ a.exec \in 1..h /\ b.exec \in 1..h /\ history[a.exec].book = history[b.exec].book
          /\ history[a.exec].id = history[b.exec].id
      BY <1>h, <2>1, <3>1, <3>2 DEF Reports
    <3>4. ~(a.exec < b.exec) /\ ~(b.exec < a.exec)
      BY <1>2, <3>3
    <3>5. a.exec = b.exec
      BY <3>3, <3>4
    <3> QED BY <3>1, <3>5 DEF LedgerInv
  <2>2. \A a \in AtPoint(l, Point(f)) : Ordering(l, a)
    BY <1>4 DEF AtPoint
  <2> QED BY <2>1, <2>2 DEF UniquelyOrdered
<1>6. f.time < g.time \/ f.num < g.num
  BY <1>5 DEF Precedes
<1>7. f.time \in Int /\ g.time \in Int /\ f.num \in Int /\ g.num \in Int
  BY <1>1, <1>2
<1> QED BY <1>3, <1>6, <1>7

----------------------------------------------------------------------------
(* A statement seen twice. *)

\* A ledger that differs in its evidence alone verifies alike.
LEMMA EvidenceApart ==
  ASSUME NEW l, NEW next, next.fills = l.fills, DOMAIN next.batches = DOMAIN l.batches,
         NEW p \in Nat, DOMAIN l.batches = 1..p,
         \A k \in DOMAIN l.batches :
            /\ next.batches[k].digest = l.batches[k].digest /\ next.batches[k].rows = l.batches[k].rows
            /\ next.batches[k].plan = l.batches[k].plan
            /\ next.batches[k].unidentified = l.batches[k].unidentified
            /\ next.batches[k].intervals = l.batches[k].intervals
  PROVE  /\ LineageFills(next) = LineageFills(l)
         /\ \A k \in DOMAIN l.batches : BatchVerifies(l, k) => BatchVerifies(next, k)
<1>1. LineageFills(next) = LineageFills(l)
  <2>1. \A k \in DOMAIN l.batches :
          {Stored(next.batches[k].rows[i], next.batches[k].digest, i) : i \in DOMAIN next.batches[k].rows}
            = {Stored(l.batches[k].rows[i], l.batches[k].digest, i) : i \in DOMAIN l.batches[k].rows}
    OBVIOUS
  <2> QED BY <2>1 DEF LineageFills
<1>2. ASSUME NEW k \in DOMAIN l.batches, BatchVerifies(l, k) PROVE BatchVerifies(next, k)
  <2>0. \A j \in 1..(k - 1) : j \in DOMAIN l.batches
    OBVIOUS
  <2>1. {f \in next.fills : \E j \in 1..(k - 1) : next.batches[j].digest = f.batch}
          = {f \in l.fills : \E j \in 1..(k - 1) : l.batches[j].digest = f.batch}
    BY <2>0
  <2>2. Rebuilt(next, k) = Rebuilt(l, k)
    BY <2>1 DEF Rebuilt
  <2> QED BY <1>2, <2>0, <2>2 DEF BatchVerifies
<1> QED BY <1>1, <1>2

\* What a ledger holds does not depend on what its files are evidence of.
LEMMA DowngradedKeeps ==
  ASSUME NEW l, LedgerInv(l), NEW digests, NEW evidence
  PROVE  LedgerInv(Downgraded(l, digests, evidence))
<1> DEFINE next == Downgraded(l, digests, evidence)
<1>1. PICK p \in Nat : l.batches = [k \in 1..p |-> l.batches[k]]
  BY DEF LedgerInv
<1>2. DOMAIN l.batches = 1..p
  BY <1>1
<1>3. /\ next = [batches |-> next.batches, fills |-> next.fills] /\ next.fills = l.fills
      /\ next.batches = [k \in DOMAIN l.batches |->
                            IF l.batches[k].digest \in digests
                            THEN [l.batches[k] EXCEPT !.evidence = BothProve(l.batches[k].evidence, evidence)]
                            ELSE l.batches[k]]
  <2>1. l = [batches |-> l.batches, fills |-> l.fills]
    BY DEF LedgerInv
  <2>2. next = [l EXCEPT !.batches = [k \in DOMAIN l.batches |->
                            IF l.batches[k].digest \in digests
                            THEN [l.batches[k] EXCEPT !.evidence = BothProve(l.batches[k].evidence, evidence)]
                            ELSE l.batches[k]]]
    BY DEF Downgraded
  <2> HIDE DEF next
  <2> QED BY <2>1, <2>2
<1> HIDE DEF next
<1>4. ASSUME NEW k \in DOMAIN l.batches
      PROVE  /\ next.batches[k].digest = l.batches[k].digest /\ next.batches[k].rows = l.batches[k].rows
             /\ next.batches[k].plan = l.batches[k].plan
             /\ next.batches[k].unidentified = l.batches[k].unidentified
             /\ next.batches[k].intervals = l.batches[k].intervals
             /\ BatchReads(next.batches[k])
  <2>0. BatchReads(l.batches[k])
    BY DEF LedgerInv
  <2>1. CASE l.batches[k].digest \notin digests
    BY <1>3, <2>0, <2>1
  <2>2. CASE l.batches[k].digest \in digests
    <3> DEFINE b == l.batches[k]
               e == BothProve(b.evidence, evidence)
    <3>1. next.batches[k] = [b EXCEPT !.evidence = e]
      BY <1>3, <2>2
    <3>2. e.trusted => b.evidence.trusted
      BY DEF BothProve
    <3>3. b = [digest |-> b.digest, rows |-> b.rows, plan |-> b.plan, unidentified |-> b.unidentified,
               intervals |-> b.intervals, evidence |-> b.evidence]
      BY <2>0 DEF BatchReads
    <3>4. \A i \in DOMAIN b.rows : Reports(b.rows[i]) /\ (b.evidence.trusted => b.rows[i].id # NoId)
      BY <2>0 DEF BatchReads
    <3> HIDE DEF b, e
    <3>5. [b EXCEPT !.evidence = e] =
              [digest |-> b.digest, rows |-> b.rows, plan |-> b.plan, unidentified |-> b.unidentified,
               intervals |-> b.intervals, evidence |-> e]
      BY <3>3
    <3>6. /\ next.batches[k].digest = b.digest /\ next.batches[k].rows = b.rows
          /\ next.batches[k].plan = b.plan /\ next.batches[k].unidentified = b.unidentified
          /\ next.batches[k].intervals = b.intervals /\ next.batches[k].evidence = e
      BY <3>1, <3>5
    <3>7. BatchReads(next.batches[k])
      <4>1. next.batches[k] = [digest |-> b.digest, rows |-> b.rows, plan |-> b.plan,
                               unidentified |-> b.unidentified, intervals |-> b.intervals, evidence |-> e]
        BY <3>1, <3>5
      <4> QED BY <3>2, <3>4, <3>6, <4>1 DEF BatchReads
    <3> QED BY <3>6, <3>7 DEF b
  <2> QED BY <2>1, <2>2
<1>5. DOMAIN next.batches = DOMAIN l.batches /\ next.batches = [k \in 1..p |-> next.batches[k]]
  BY <1>2, <1>3
<1>6. /\ LineageFills(next) = LineageFills(l)
      /\ \A k \in DOMAIN l.batches : BatchVerifies(l, k) => BatchVerifies(next, k)
  BY <1>2, <1>3, <1>4, <1>5, EvidenceApart
<1>7. LedgerInv(next)
  BY <1>3, <1>4, <1>5, <1>6 DEF LedgerInv
<1> QED BY <1>7 DEF next

----------------------------------------------------------------------------
(* A statement with new rows. *)

\* The batch a statement becomes.
BatchOf(l, s) ==
    [digest |-> DigestOf(s.rows), rows |-> NewRows(l, s.rows), plan |-> RowPlan(l, s.rows),
     unidentified |-> Unidentified(NewRows(l, s.rows)), intervals |-> IntervalsOf(NewRows(l, s.rows)),
     evidence |-> s.evidence]

\* What the ledger and the statement of an import have in common with no refusal.
Joins(l, s) ==
    /\ LedgerInv(l)
    /\ \A f, g \in l.fills : f # g => f.ref # g.ref
    /\ ~Repeated(l, s)
    /\ ~ProviderConflict(l, s.rows)
    /\ l.fills # {} => ~PointAmbiguous(l, s)
    /\ ~NoIdOverlap(l, NewRows(l, s.rows))

\* The ledger with this statement as one batch more than its p batches.
OneMore(l, s, next, p) ==
    /\ DOMAIN l.batches = 1..p
    /\ next = [batches |-> next.batches, fills |-> next.fills]
    /\ next.batches = [k \in 1..(p + 1) |-> next.batches[k]]
    /\ \A k \in 1..p : next.batches[k] = l.batches[k]
    /\ next.batches[p + 1] = BatchOf(l, s)
    /\ next.fills = l.fills \cup {Stored(NewRows(l, s.rows)[i], DigestOf(s.rows), i) :
                                     i \in DOMAIN NewRows(l, s.rows)}

\* Merging adds one batch.
LEMMA AppendedIs ==
  ASSUME NEW l, LedgerInv(l), NEW s
  PROVE  \E p \in Nat : OneMore(l, s, Appended(l, s), p)
<1>1. PICK p \in Nat : l.batches = [k \in 1..p |-> l.batches[k]]
  BY DEF LedgerInv
<1>2. /\ Appended(l, s) = [batches |-> Appended(l, s).batches, fills |-> Appended(l, s).fills]
      /\ Appended(l, s).batches = Append(l.batches, BatchOf(l, s))
      /\ Appended(l, s).fills =
            l.fills \cup {Stored(NewRows(l, s.rows)[i], DigestOf(s.rows), i) : i \in DOMAIN NewRows(l, s.rows)}
  BY DEF Appended, BatchOf
<1> DEFINE bs == l.batches
           b == BatchOf(l, s)
           T == {bs[k] : k \in 1..p} \cup {b}
<1>3. bs \in Seq(T) /\ Len(bs) = p /\ DOMAIN bs = 1..p
  <2>1. bs \in [1..p -> T]
    BY <1>1
  <2> HIDE DEF bs, T
  <2> QED BY <2>1
<1>4. b \in T
  OBVIOUS
<1> HIDE DEF bs, b, T
<1>5. /\ Append(bs, b) \in Seq(T) /\ Len(Append(bs, b)) = p + 1
      /\ \A k \in 1..p : Append(bs, b)[k] = bs[k]
      /\ Append(bs, b)[p + 1] = b
  BY <1>3, <1>4
<1>6. Append(bs, b) = [k \in 1..(p + 1) |-> Append(bs, b)[k]]
  BY <1>5, LenProperties
<1>7. Append(bs, b) = Appended(l, s).batches
  BY <1>2 DEF bs, b
<1>8. /\ DOMAIN l.batches = 1..p
      /\ \A k \in 1..p : Appended(l, s).batches[k] = l.batches[k]
      /\ Appended(l, s).batches[p + 1] = BatchOf(l, s)
  BY <1>3, <1>5, <1>7 DEF bs, b
<1>9. Appended(l, s).batches = [k \in 1..(p + 1) |-> Appended(l, s).batches[k]]
  BY <1>6, <1>7
<1> QED BY <1>2, <1>8, <1>9 DEF OneMore

\* A new row reports what no fill of the ledger reports, and no other new row.
LEMMA NewRowsApart ==
  ASSUME history \in Histories, NEW l, NEW s, Joins(l, s), NEW kind \in Kinds, NEW n \in Nat,
         NEW read \in [1..n -> DOMAIN history], ReadAs(s.rows, kind, n, read)
  PROVE  LET new == NewRows(l, s.rows)
         IN  /\ \A i \in DOMAIN new : Reports(new[i]) /\ (new[i].id = NoId <=> kind.ids = "none")
             /\ \A i, j \in DOMAIN new : new[i].exec = new[j].exec => i = j
             /\ \A i \in DOMAIN new, f \in l.fills : f.exec # new[i].exec
<1> DEFINE rows == s.rows
           new == NewRows(l, rows)
           index == NewIndexes(l, rows)
<1>1. DOMAIN rows = 1..n /\ \A i \in 1..n : rows[i] = RowOf(read[i], kind)
  BY DEF ReadAs
<1> HIDE DEF rows
<1>a. DOMAIN rows = 1..n
  BY <1>1
<1>b. PICK m \in Nat : NewOnes(l, rows, n, m)
  BY <1>a, NewRowsAre
<1>2. /\ index \in [1..m -> 1..n]
      /\ \A k \in 1..m : IsNew(l, rows, index[k])
      /\ \A k, j \in 1..m : index[k] = index[j] => k = j
      /\ new = [k \in 1..m |-> rows[index[k]]]
  BY <1>b DEF NewOnes
<1> HIDE DEF new, index
<1>3. ASSUME NEW i \in 1..n
      PROVE  Reports(rows[i]) /\ (rows[i].id = NoId <=> kind.ids = "none") /\ rows[i].exec = read[i]
             /\ rows[i] = RowOf(read[i], kind)
  BY <1>1, <1>3, RowReports
<1>4. ASSUME NEW k \in 1..m
      PROVE  /\ index[k] \in 1..n /\ new[k] = rows[index[k]] /\ Reports(new[k])
             /\ (new[k].id = NoId <=> kind.ids = "none")
             /\ new[k].exec = read[index[k]] /\ new[k] = RowOf(read[index[k]], kind)
  BY <1>2, <1>3
<1>5. DOMAIN new = 1..m
  BY <1>2
<1>6. ASSUME NEW k \in 1..m, NEW j \in 1..m, new[k].exec = new[j].exec PROVE k = j
  <2>1. read[index[k]] = read[index[j]] /\ index[k] \in 1..n /\ index[j] \in 1..n
    BY <1>4, <1>6
  <2>2. CASE kind.ids = "none"
    <3>1. index[k] = index[j]
      BY <2>1, <2>2 DEF ReadAs
    <3> QED BY <1>2, <3>1
  <2>3. CASE kind.ids # "none"
    <3>1. rows[index[k]] = rows[index[j]] /\ rows[index[k]].id # NoId
      BY <1>3, <2>1, <2>3
    <3>2. FirstOf(rows, index[k]) = index[k] /\ FirstOf(rows, index[j]) = index[j]
      BY <1>2 DEF IsNew
    <3>3. ASSUME NEW a \in 1..n, NEW b \in 1..n, rows[a] = rows[b], rows[a].id # NoId,
                 FirstOf(rows, a) = a, a > b
          PROVE  FALSE
      <4>1. b \in 1..a
        BY <3>3
      <4>2. FirstOf(rows, a) <= b
        BY <3>3, <4>1, FirstRow
      <4> QED BY <3>3, <4>2
    <3>4. ~(index[k] > index[j]) /\ ~(index[j] > index[k])
      BY <2>1, <3>1, <3>2, <3>3
    <3>5. index[k] = index[j]
      BY <2>1, <3>4
    <3> QED BY <1>2, <3>5
  <2> QED BY <2>2, <2>3
<1>7. ASSUME NEW k \in 1..m, NEW f \in l.fills PROVE f.exec # new[k].exec
  <2> SUFFICES ASSUME f.exec = new[k].exec PROVE FALSE
    OBVIOUS
  <2>1. Reports(f)
    BY FillIs DEF Joins
  <2>2. f.time = new[k].time /\ f.book = new[k].book /\ f.num = new[k].num
    BY <1>4, <2>1 DEF Reports
  <2>3. f \in AtPoint(l, Point(new[k]))
    BY <2>2 DEF AtPoint, Point
  <2>4. new[k] \in ToSet(new)
    BY <1>5 DEF ToSet
  <2>5. PointAmbiguous(l, s)
    BY <2>2, <2>3, <2>4 DEF PointAmbiguous, new, rows
  <2> QED BY <2>5 DEF Joins
<1>8. (\A i \in DOMAIN new : Reports(new[i]) /\ (new[i].id = NoId <=> kind.ids = "none"))
      /\ (\A i, j \in DOMAIN new : new[i].exec = new[j].exec => i = j)
      /\ (\A i \in DOMAIN new, f \in l.fills : f.exec # new[i].exec)
  BY <1>4, <1>5, <1>6, <1>7
<1> QED BY <1>8 DEF new, rows

\* The statement can be rebuilt from its new rows and the fills it repeats.
RebuiltRow(fills, b, i) ==
    IF b.plan[i].new # 0 THEN {Content(b.rows[b.plan[i].new])}
    ELSE {Content(f) : f \in {g \in fills : g.ref \in b.plan[i].old}}

LEMMA NewBatchRebuilds ==
  ASSUME NEW l, NEW s, Joins(l, s), NEW n \in Nat, DOMAIN s.rows = 1..n, NEW i \in 1..n
  PROVE  RebuiltRow(l.fills, BatchOf(l, s), i) = {BatchOf(l, s).digest[i]}
<1> DEFINE rows == s.rows
           b == BatchOf(l, s)
           plan == RowPlan(l, rows)[i]
<1>1. b.plan[i] = plan /\ b.rows = NewRows(l, rows) /\ b.digest[i] = Content(rows[i])
  BY DEF BatchOf, DigestOf
<1> HIDE DEF rows, b, plan
<1>2. DOMAIN rows = 1..n
  BY DEF rows
<1>3. PICK m \in Nat : NewOnes(l, rows, n, m)
  BY <1>2, NewRowsAre
<1>c. NewRows(l, rows) = [k \in 1..m |-> rows[NewIndexes(l, rows)[k]]]
  BY <1>3 DEF NewOnes
<1>4. /\ KnownFill(l, rows[i]) # {} => plan = [old |-> {f.ref : f \in KnownFill(l, rows[i])}, new |-> 0]
      /\ KnownFill(l, rows[i]) = {} => /\ plan.new \in 1..m /\ plan.new # 0
                                       /\ NewIndexes(l, rows)[plan.new] = FirstOf(rows, i)
  <2>1. AccountedFor(l, rows, i, m)
    BY <1>2, <1>3, Planned
  <2> QED BY <2>1 DEF plan, AccountedFor
<1>5. /\ Content(rows[i]) = Content(rows[FirstOf(rows, i)])
      /\ \A f \in KnownFill(l, rows[i]) : Content(f) = Content(rows[i])
  BY <1>2 DEF Joins, ProviderConflict, rows
<1>6. CASE KnownFill(l, rows[i]) = {}
  <2>1. plan.new # 0 /\ NewRows(l, rows)[plan.new] = rows[FirstOf(rows, i)]
    BY <1>c, <1>4, <1>6
  <2> QED BY <1>1, <1>5, <2>1 DEF b, RebuiltRow
<1>7. CASE KnownFill(l, rows[i]) # {}
  <2>1. plan.new = 0 /\ plan.old = {f.ref : f \in KnownFill(l, rows[i])}
    BY <1>4, <1>7
  <2>2. {g \in l.fills : g.ref \in plan.old} = KnownFill(l, rows[i])
    <3>1. KnownFill(l, rows[i]) \subseteq l.fills
      BY DEF KnownFill
    <3>2. \A f, g \in l.fills : f.ref = g.ref => f = g
      BY DEF Joins
    <3> QED BY <2>1, <3>1, <3>2
  <2>3. {Content(f) : f \in KnownFill(l, rows[i])} = {Content(rows[i])}
    BY <1>5, <1>7
  <2> QED BY <1>1, <2>1, <2>2, <2>3 DEF b, RebuiltRow
<1> QED BY <1>6, <1>7

\* The rows of a statement seen so far keep their place when another one joins.
LEMMA AppendedVerifies ==
  ASSUME NEW l, NEW s, Joins(l, s), NEW n \in Nat, DOMAIN s.rows = 1..n, NEW next, NEW p \in Nat,
         OneMore(l, s, next, p)
  PROVE  /\ \A k \in 1..(p + 1) : BatchVerifies(next, k)
         /\ next.fills = LineageFills(next)
<1> DEFINE new == NewRows(l, s.rows)
           digest == DigestOf(s.rows)
           added == {Stored(new[i], digest, i) : i \in DOMAIN new}
           b == BatchOf(l, s)
<1>a. /\ DOMAIN l.batches = 1..p /\ DOMAIN next.batches = 1..(p + 1)
      /\ \A k \in 1..p : next.batches[k] = l.batches[k]
  BY DEF OneMore
<1>1. \A k \in 1..p : l.batches[k].digest # digest
  BY <1>a DEF Joins, Repeated, Digests
<1>2. \A f \in added : f.batch = digest
  BY DEF Stored
<1>3. \A f \in l.fills : \E k \in 1..p : l.batches[k].digest = f.batch
  BY <1>a, FillIs DEF Joins
<1>b. /\ b.digest = digest /\ b.rows = new /\ b.plan = RowPlan(l, s.rows)
      /\ b.unidentified = Unidentified(new) /\ b.intervals = IntervalsOf(new)
  BY DEF BatchOf
<1>d. next.fills = l.fills \cup added
  BY DEF OneMore
<1>f. next.batches[p + 1] = b
  BY DEF OneMore
<1>g. LedgerInv(l)
  BY DEF Joins
<1> HIDE DEF b, added, digest, new
\* The statements before are verified by the same fills as they were.
<1>4. ASSUME NEW k \in 1..p PROVE BatchVerifies(next, k)
  <2>0. \A j \in 1..(k - 1) : j \in 1..p /\ next.batches[j] = l.batches[j]
    BY <1>a
  <2>1. {f \in next.fills : \E j \in 1..(k - 1) : next.batches[j].digest = f.batch}
          = {f \in l.fills : \E j \in 1..(k - 1) : l.batches[j].digest = f.batch}
    <3>1. \A f \in added : ~ \E j \in 1..(k - 1) : l.batches[j].digest = f.batch
      BY <1>1, <1>2, <2>0
    <3> QED BY <1>d, <2>0, <3>1
  <2>2. next.batches[k] = l.batches[k]
    BY <1>a
  <2>3. Rebuilt(next, k) = Rebuilt(l, k)
    BY <2>1, <2>2 DEF Rebuilt
  <2>4. BatchVerifies(l, k)
    BY <1>a, <1>g DEF LedgerInv
  <2> QED BY <2>0, <2>2, <2>3, <2>4 DEF BatchVerifies
\* The statement that joins is rebuilt from all the fills there were.
<1>5. BatchVerifies(next, p + 1)
  <2>1. {f \in next.fills : \E j \in 1..p : next.batches[j].digest = f.batch} = l.fills
    <3>1. \A f \in added : ~ \E j \in 1..p : next.batches[j].digest = f.batch
      BY <1>a, <1>1, <1>2
    <3>2. \A f \in l.fills : \E j \in 1..p : next.batches[j].digest = f.batch
      BY <1>a, <1>3
    <3> QED BY <1>d, <3>1, <3>2
  <2>2. DOMAIN b.plan = 1..n /\ DOMAIN b.digest = 1..n
    BY <1>b DEF RowPlan, DigestOf, digest
  <2>3. (p + 1) - 1 = p
    OBVIOUS
  <2>4. Rebuilt(next, p + 1) = [i \in 1..n |-> RebuiltRow(l.fills, b, i)]
    BY <1>f, <2>1, <2>2, <2>3 DEF Rebuilt, RebuiltRow
  <2>5. ASSUME NEW i \in 1..n PROVE RebuiltRow(l.fills, b, i) = {b.digest[i]}
    <3>1. RebuiltRow(l.fills, BatchOf(l, s), i) = {BatchOf(l, s).digest[i]}
      BY NewBatchRebuilds
    <3> QED BY <3>1 DEF b
  <2>6. Rebuilt(next, p + 1) = [i \in DOMAIN b.digest |-> {b.digest[i]}]
    BY <2>2, <2>4, <2>5
  <2>7. b.unidentified = Unidentified(b.rows) /\ b.intervals = IntervalsOf(b.rows)
    BY <1>b
  <2>8. ASSUME NEW j \in 1..p
        PROVE ~(/\ b.unidentified \/ next.batches[j].unidentified
                /\ IntervalsOverlap(b.intervals, next.batches[j].intervals))
    <3>1. l.batches[j] \in ToSet(l.batches) /\ next.batches[j] = l.batches[j]
      BY <1>a DEF ToSet
    <3>2. ~NoIdOverlap(l, new)
      BY DEF Joins, new
    <3> QED BY <1>b, <3>1, <3>2 DEF NoIdOverlap
  <2> QED BY <1>f, <2>3, <2>6, <2>7, <2>8 DEF BatchVerifies
<1>6. next.fills = LineageFills(next)
  <2> DEFINE of(x) == {Stored(x.rows[i], x.digest, i) : i \in DOMAIN x.rows}
  <2>1. LineageFills(next) = UNION {of(next.batches[k]) : k \in 1..(p + 1)}
    BY <1>a DEF LineageFills
  <2>2. l.fills = UNION {of(l.batches[k]) : k \in 1..p}
    BY <1>a, <1>g DEF LedgerInv, LineageFills
  <2>3. of(b) = added
    BY <1>b DEF added
  <2> HIDE DEF of
  <2>4. UNION {of(next.batches[k]) : k \in 1..(p + 1)} = (UNION {of(l.batches[k]) : k \in 1..p}) \cup of(b)
    <3>1. \A k \in 1..(p + 1) : k \in 1..p \/ k = p + 1
      OBVIOUS
    <3>2. \A k \in 1..p : k \in 1..(p + 1)
      OBVIOUS
    <3>3. p + 1 \in 1..(p + 1)
      OBVIOUS
    <3>4. ASSUME NEW x \in UNION {of(next.batches[k]) : k \in 1..(p + 1)}
          PROVE  x \in (UNION {of(l.batches[k]) : k \in 1..p}) \cup of(b)
      <4>1. PICK k \in 1..(p + 1) : x \in of(next.batches[k])
        OBVIOUS
      <4> QED BY <1>a, <1>f, <3>1, <4>1
    <3>5. ASSUME NEW x \in (UNION {of(l.batches[k]) : k \in 1..p}) \cup of(b)
          PROVE  x \in UNION {of(next.batches[k]) : k \in 1..(p + 1)}
      <4>1. CASE x \in of(b)
        BY <1>f, <3>3, <4>1
      <4>2. CASE x \in UNION {of(l.batches[k]) : k \in 1..p}
        <5>1. PICK k \in 1..p : x \in of(l.batches[k])
          BY <4>2
        <5> QED BY <1>a, <3>2, <5>1
      <4> QED BY <4>1, <4>2
    <3> QED BY <3>4, <3>5
  <2> QED BY <1>d, <2>1, <2>2, <2>3, <2>4
<1>7. \A k \in 1..(p + 1) : BatchVerifies(next, k)
  <2>1. \A k \in 1..(p + 1) : k \in 1..p \/ k = p + 1
    OBVIOUS
  <2> QED BY <1>4, <1>5, <2>1
<1> QED BY <1>6, <1>7

\* A statement that is not refused leaves a ledger in order.
LEMMA AppendedKeeps ==
  ASSUME history \in Histories, NEW l, NEW s \in Statements, Complete(s), Joins(l, s)
  PROVE  LedgerInv(Appended(l, s))
<1> DEFINE next == Appended(l, s)
           new == NewRows(l, s.rows)
           b == BatchOf(l, s)
<1>g. LedgerInv(l)
  BY DEF Joins
<1>a. PICK p \in Nat : OneMore(l, s, next, p)
  BY <1>g, AppendedIs
<1> HIDE DEF next
<1>1. /\ DOMAIN l.batches = 1..p
      /\ next = [batches |-> next.batches, fills |-> next.fills]
      /\ next.batches = [k \in 1..(p + 1) |-> next.batches[k]]
      /\ \A k \in 1..p : next.batches[k] = l.batches[k]
      /\ next.batches[p + 1] = b
      /\ next.fills = l.fills \cup {Stored(new[i], DigestOf(s.rows), i) : i \in DOMAIN new}
  BY <1>a DEF OneMore
<1>2. PICK kind \in Kinds, n \in Nat : \E read \in [1..n -> DOMAIN history] :
            /\ ReadAs(s.rows, kind, n, read)
            /\ s.evidence.trusted => kind.ids # "none"
  BY StatementRows
<1>3. PICK read \in [1..n -> DOMAIN history] : ReadAs(s.rows, kind, n, read)
  BY <1>2
<1>4. DOMAIN s.rows = 1..n
  BY <1>3 DEF ReadAs
<1>5. DOMAIN next.batches = 1..(p + 1)
  BY <1>1
<1>6. (\A k \in 1..(p + 1) : BatchVerifies(next, k)) /\ next.fills = LineageFills(next)
  BY <1>a, <1>4, AppendedVerifies
<1>7. /\ \A i \in DOMAIN new : Reports(new[i]) /\ (new[i].id = NoId <=> kind.ids = "none")
      /\ \A i, j \in DOMAIN new : new[i].exec = new[j].exec => i = j
      /\ \A i \in DOMAIN new, f \in l.fills : f.exec # new[i].exec
  BY <1>3, NewRowsApart
<1> HIDE DEF new
<1>8. BatchReads(b)
  <2>1. b.rows = new /\ b.evidence = s.evidence
    BY DEF BatchOf, new
  <2>2. b = [digest |-> b.digest, rows |-> b.rows, plan |-> b.plan, unidentified |-> b.unidentified,
             intervals |-> b.intervals, evidence |-> b.evidence]
    BY DEF BatchOf
  <2> HIDE DEF b
  <2>3. \A i \in DOMAIN new : Reports(new[i]) /\ (s.evidence.trusted => new[i].id # NoId)
    BY <1>2, <1>7
  <2> QED BY <2>1, <2>2, <2>3 DEF BatchReads
<1>9. \A k \in 1..(p + 1) : BatchReads(next.batches[k])
  <2>1. \A k \in 1..(p + 1) : k \in 1..p \/ k = p + 1
    OBVIOUS
  <2>2. \A k \in 1..p : BatchReads(l.batches[k])
    BY <1>1, <1>g DEF LedgerInv
  <2> HIDE DEF b
  <2> QED BY <1>1, <1>8, <2>1, <2>2
\* No execution is in the ledger twice.
<1>10. ASSUME NEW f \in next.fills, NEW g \in next.fills, f.exec = g.exec PROVE f = g
  <2> DEFINE added == {Stored(new[i], DigestOf(s.rows), i) : i \in DOMAIN new}
  <2>1. \A a \in added : \E i \in DOMAIN new : a = Stored(new[i], DigestOf(s.rows), i) /\ a.exec = new[i].exec
    BY DEF Stored
  <2>2. f \in l.fills \cup added /\ g \in l.fills \cup added
    BY <1>1
  <2> HIDE DEF added
  <2>3. CASE f \in l.fills /\ g \in l.fills
    BY <1>10, <1>g, <2>3 DEF LedgerInv
  <2>4. CASE f \in l.fills /\ g \in added
    BY <1>7, <1>10, <2>1, <2>4
  <2>5. CASE f \in added /\ g \in l.fills
    BY <1>7, <1>10, <2>1, <2>5
  <2>6. CASE f \in added /\ g \in added
    <3>1. PICK i \in DOMAIN new : f = Stored(new[i], DigestOf(s.rows), i) /\ f.exec = new[i].exec
      BY <2>1, <2>6
    <3>2. PICK j \in DOMAIN new : g = Stored(new[j], DigestOf(s.rows), j) /\ g.exec = new[j].exec
      BY <2>1, <2>6
    <3>3. i = j
      BY <1>7, <1>10, <3>1, <3>2
    <3> QED BY <3>1, <3>2, <3>3
  <2> QED BY <2>2, <2>3, <2>4, <2>5, <2>6
<1>11. LedgerInv(next)
  <2>1. \E q \in Nat : next.batches = [k \in 1..q |-> next.batches[k]]
    <3>1. p + 1 \in Nat
      OBVIOUS
    <3> QED BY <1>1, <3>1
  <2>2. next = [batches |-> next.batches, fills |-> next.fills]
    BY <1>1
  <2> QED BY <1>5, <1>6, <1>9, <1>10, <2>1, <2>2 DEF LedgerInv
<1> QED BY <1>11 DEF next

\* Before the first import there is no statement and no fill.
LEMMA NoLedgerIs == LedgerInv(NoLedger)
<1>1. NoLedger = [batches |-> NoLedger.batches, fills |-> NoLedger.fills]
      /\ NoLedger.batches = <<>> /\ NoLedger.fills = {}
  BY DEF NoLedger
<1>2. <<>> = [k \in 1..0 |-> NoLedger.batches[k]] /\ DOMAIN <<>> = {}
  OBVIOUS
<1>3. LineageFills(NoLedger) = {}
  BY <1>1, <1>2 DEF LineageFills
<1>4. \E p \in Nat : NoLedger.batches = [k \in 1..p |-> NoLedger.batches[k]]
  <2>1. 0 \in Nat
    OBVIOUS
  <2> QED BY <1>1, <1>2, <2>1
<1> QED BY <1>1, <1>2, <1>3, <1>4 DEF LedgerInv

\* What an import leaves behind.
LEMMA ImportKeeps ==
  ASSUME CsvInv, NEW next \in Imports
  PROVE  LedgerInv(next) /\ WellFormed(next) /\ ~OrderAmbiguous(next)
<1>1. PICK s \in {t \in Statements : Complete(t) /\ Admissible(ledger, t)} :
         next = MergedLedger(ledger, s) /\ Acceptable(next)
  BY DEF Imports
<1>2. s \in Statements /\ Complete(s) /\ Admissible(ledger, s)
  OBVIOUS
<1>3. LedgerInv(ledger) /\ history \in Histories
  BY DEF CsvInv
<1>4. CASE Repeated(ledger, s)
  BY <1>1, <1>3, <1>4, DowngradedKeeps DEF MergedLedger, Acceptable
<1>5. CASE ~Repeated(ledger, s) /\ AddsNothing(ledger, s)
  BY <1>1, <1>3, <1>5, DowngradedKeeps DEF MergedLedger, Acceptable
<1>6. CASE ~Repeated(ledger, s) /\ ~AddsNothing(ledger, s)
  <2>1. /\ ~ProviderConflict(ledger, s.rows)
        /\ ledger # NoLedger => ~PointAmbiguous(ledger, s)
        /\ ~NoIdOverlap(ledger, NewRows(ledger, s.rows))
    BY <1>2, <1>6 DEF Admissible
  <2>2. ledger.fills # {} => ledger # NoLedger
    BY DEF NoLedger
  <2>3. \A f, g \in ledger.fills : f # g => f.ref # g.ref
    BY <2>2 DEF CsvInv, WellFormed
  <2>4. Joins(ledger, s)
    BY <1>3, <1>6, <2>1, <2>2, <2>3 DEF Joins
  <2>5. next = Appended(ledger, s)
    BY <1>1, <1>6 DEF MergedLedger
  <2> QED BY <1>1, <1>2, <1>3, <2>4, <2>5, AppendedKeeps DEF Acceptable
<1> QED BY <1>4, <1>5, <1>6

\* The ledger starts in order.
LEMMA CsvInvInit == CsvInit => CsvInv
BY NoLedgerIs DEF CsvInit, CsvInv

\* Every import keeps it in order.
LEMMA CsvInvNext == CsvInv /\ [CsvNext]_csvVars => CsvInv'
<1> SUFFICES ASSUME CsvInv, [CsvNext]_csvVars PROVE CsvInv'
  OBVIOUS
<1>1. CASE UNCHANGED csvVars
  BY <1>1 DEF csvVars, CsvInv, LedgerInv, BatchReads, Reports
<1>2. ASSUME NEW next \in Imports, Import(next) PROVE CsvInv'
  <2>1. LedgerInv(next) /\ WellFormed(next) /\ ~OrderAmbiguous(next)
    BY ImportKeeps
  <2>2. ledger' = next /\ history' = history /\ trades' = Replayed(next)
    BY <1>2 DEF Import
  <2>3. history' \in Histories
    BY <2>2 DEF CsvInv
  <2>4. LedgerInv(ledger)'
    BY <2>1, <2>2 DEF LedgerInv, BatchReads, Reports
  <2>5. (WellFormed(ledger) /\ ~OrderAmbiguous(ledger) /\ Replayed(ledger) = trades)'
    BY <2>1, <2>2
  <2> QED BY <2>3, <2>4, <2>5 DEF CsvInv
<1> QED BY <1>1, <1>2 DEF CsvNext

\* The invariant of a ledger of statements.
LEMMA CsvInvAlways == CsvSpec => []CsvInv
<1> QED BY CsvInvInit, CsvInvNext, PTL DEF CsvSpec

(***************************************************************************)
(* ReopensAsShown, for any histories, kinds of statement and number of     *)
(* batches: what mergeInternal builds passes verifyCsvFillLedgerIntegrity  *)
(* and replays to the trades on display.                                   *)
(***************************************************************************)
THEOREM LedgersReopen == CsvSpec => []ReopensAsShown
<1>1. CsvInv => ReopensAsShown
  BY DEF CsvInv, ReopensAsShown, Verifies, LedgerInv
<1> QED BY <1>1, CsvInvAlways, PTL

(***************************************************************************)
(* CountedOnce: the conflict, point and overlap refusals of mergeInternal  *)
(* together let no execution into the ledger a second time.                *)
(***************************************************************************)
THEOREM ExecutionsCountedOnce == CsvSpec => []CountedOnce
<1>1. CsvInv => CountedOnce
  BY DEF CsvInv, CountedOnce, LedgerInv
<1> QED BY <1>1, CsvInvAlways, PTL

(***************************************************************************)
(* TrustedReplayFollowsHistory: executionOrderedFills puts the fills of    *)
(* trusted statements in the order in which they were executed.            *)
(***************************************************************************)
THEOREM TrustedReplayIsHistory == CsvSpec => []TrustedReplayFollowsHistory
<1>1. CsvInv => TrustedReplayFollowsHistory
  <2> SUFFICES ASSUME CsvInv, \A b \in ToSet(ledger.batches) : b.evidence.trusted,
                      NEW f \in ledger.fills, NEW g \in ledger.fills,
                      f.book = g.book, Precedes(ledger, f, g)
               PROVE  f.exec < g.exec
    BY DEF TrustedReplayFollowsHistory
  <2>1. LedgerInv(ledger) /\ history \in Histories
    BY DEF CsvInv
  <2>2. ~OrderAmbiguous(ledger)
    <3>1. ledger # NoLedger
      BY DEF NoLedger
    <3> QED BY <3>1 DEF CsvInv
  <2> QED BY <2>1, <2>2, TrustedOrder
<1> QED BY <1>1, CsvInvAlways, PTL

----------------------------------------------------------------------------
(* The three reductions of a book, fill by fill. *)

\* A fill the exchange reports, of a quantity and with a result.
IsFill(f, Refs) ==
    /\ f.qty \in Nat \ {0} /\ f.side \in {"BUY", "SELL"} /\ f.price \in Int /\ f.fee \in Int
    /\ f.pnl \in Int /\ f.pnl # NoPnl /\ f.ref \in Refs
    /\ f.book[2] \in {"BOTH", "LONG", "SHORT"}

\* A cycle as the projector keeps it, of a book: open in a direction the book allows.
CycleState(c, book, Refs) ==
    /\ c.dir \in {0 - 1, 0, 1}
    /\ c.dir # 0 =>
          /\ c = [dir |-> c.dir, open |-> c.open, entryTime |-> c.entryTime,
                  entryValue |-> c.entryValue, entryQty |-> c.entryQty, lineage |-> c.lineage,
                  exitValue |-> c.exitValue, exitQty |-> c.exitQty, paid |-> c.paid,
                  reported |-> c.reported]
          /\ c.open \in Nat \ {0} /\ c.lineage \in Seq(Refs)
          /\ HedgeDirectionAllowed(book, c.dir)

\* The same cycle as the browser keeps it.
BrowserState(s, c) ==
    /\ s.dir = c.dir
    /\ c.dir # 0 =>
          /\ s = [dir |-> s.dir, open |-> s.open, value |-> s.value, entryTime |-> s.entryTime,
                  entryValue |-> s.entryValue, entryQty |-> s.entryQty, lineage |-> s.lineage,
                  exitValue |-> s.exitValue, exitQty |-> s.exitQty, fee |-> s.fee,
                  reported |-> s.reported, complete |-> s.complete, self |-> s.self]
          /\ s.open = c.open /\ s.entryTime = c.entryTime /\ s.entryValue = c.entryValue
          /\ s.entryQty = c.entryQty /\ s.exitValue = c.exitValue /\ s.exitQty = c.exitQty
          /\ s.reported = c.reported /\ s.complete = TRUE /\ s.lineage = ToSet(c.lineage)

\* What a closed trade and a cycle have in common: all but the fee, which the projector keeps by asset.
OfTrade(t) ==
    [book |-> t.book, side |-> t.side, entry |-> t.entry, exit |-> t.exit, bought |-> t.bought,
     sold |-> t.sold, qty |-> t.qty, gross |-> t.gross, lineage |-> t.lineage]

OfCycle(c) ==
    [book |-> c.book, side |-> c.side, entry |-> c.entry, exit |-> c.exit, bought |-> c.bought,
     sold |-> c.sold, qty |-> c.qty, gross |-> Whole(c.reported), lineage |-> ToSet(c.lineage)]

\* The position of the ledger, the cycles of the projector and the trades of the browser tell the
\* same story of a book, or the first two refuse it.
InStep(net, cyc, pos, book, Refs) ==
    /\ net = [closed |-> net.closed, state |-> net.state]
    /\ cyc = [refused |-> cyc.refused, cycles |-> cyc.cycles, state |-> cyc.state]
    /\ pos = [valid |-> pos.valid, quantity |-> pos.quantity, deltas |-> pos.deltas]
    /\ cyc.refused \in BOOLEAN /\ pos.valid \in BOOLEAN
    /\ cyc.refused <=> ~pos.valid
    /\ ~cyc.refused =>
          /\ CycleState(cyc.state, book, Refs)
          /\ BrowserState(net.state, cyc.state)
          /\ pos.quantity = IF cyc.state.dir = 0 THEN 0 ELSE cyc.state.dir * cyc.state.open
          /\ {OfTrade(t) : t \in net.closed} = {OfCycle(c) : c \in cyc.cycles}

\* The lineage grows by the fill.
LEMMA LineageGrows ==
  ASSUME NEW Refs, NEW q \in Seq(Refs), NEW r \in Refs
  PROVE  Append(q, r) \in Seq(Refs) /\ ToSet(Append(q, r)) = ToSet(q) \cup {r}
<1>1. /\ Append(q, r) \in Seq(Refs) /\ Len(Append(q, r)) = Len(q) + 1 /\ Len(q) \in Nat
      /\ \A i \in 1..Len(q) : Append(q, r)[i] = q[i]
      /\ Append(q, r)[Len(q) + 1] = r
  OBVIOUS
<1>2. DOMAIN q = 1..Len(q) /\ DOMAIN Append(q, r) = 1..(Len(q) + 1)
  BY <1>1, LenProperties
<1>3. \A i \in 1..(Len(q) + 1) : i \in 1..Len(q) \/ i = Len(q) + 1
  BY <1>1
<1>4. Len(q) + 1 \in 1..(Len(q) + 1) /\ \A i \in 1..Len(q) : i \in 1..(Len(q) + 1)
  BY <1>1
<1>5. ToSet(q) = {q[i] : i \in 1..Len(q)}
      /\ ToSet(Append(q, r)) = {Append(q, r)[i] : i \in 1..(Len(q) + 1)}
  BY <1>2 DEF ToSet
<1>6. ASSUME NEW x \in ToSet(Append(q, r)) PROVE x \in ToSet(q) \cup {r}
  <2>1. PICK i \in 1..(Len(q) + 1) : x = Append(q, r)[i]
    BY <1>5
  <2> QED BY <1>1, <1>3, <1>5, <2>1
<1>7. ASSUME NEW x \in ToSet(q) \cup {r} PROVE x \in ToSet(Append(q, r))
  BY <1>1, <1>4, <1>5, <1>7
<1> QED BY <1>1, <1>6, <1>7

\* Each way a cycle changes keeps the two descriptions of it the same.
LEMMA OpenedAlike ==
  ASSUME NEW Refs, NEW f, IsFill(f, Refs), NEW d \in {0 - 1, 1}, HedgeDirectionAllowed(f.book, d),
         NEW q \in Nat \ {0}, NEW fee, NEW cfee, NEW pnl
  PROVE  /\ CycleState(StartState(f, d, q, cfee, pnl), f.book, Refs)
         /\ BrowserState(OpenState(f, d, q, fee, pnl), StartState(f, d, q, cfee, pnl))
         /\ StartState(f, d, q, cfee, pnl).dir = d /\ StartState(f, d, q, cfee, pnl).open = q
<1> DEFINE c == StartState(f, d, q, cfee, pnl)
           s == OpenState(f, d, q, fee, pnl)
<1>1. <<f.ref>> \in Seq(Refs) /\ ToSet(<<f.ref>>) = {f.ref}
  <2>1. f.ref \in Refs
    BY DEF IsFill
  <2>2. <<f.ref>> \in Seq(Refs) /\ DOMAIN <<f.ref>> = {1} /\ <<f.ref>>[1] = f.ref
    BY <2>1
  <2> QED BY <2>2 DEF ToSet
<1>2. c = [dir |-> d, open |-> q, entryTime |-> f.time, entryValue |-> f.price * q,
           entryQty |-> q, lineage |-> <<f.ref>>, exitValue |-> 0, exitQty |-> 0,
           paid |-> {<<f.ref, f.asset, cfee>>}, reported |-> pnl]
  BY DEF StartState
<1>3. s = [dir |-> d, open |-> q, value |-> Whole(f.price * q), entryTime |-> f.time,
           entryValue |-> f.price * q, entryQty |-> q, lineage |-> {f.ref}, exitValue |-> 0,
           exitQty |-> 0, fee |-> fee, reported |-> pnl, complete |-> TRUE, self |-> Whole(0)]
  BY DEF OpenState
<1> HIDE DEF c, s
<1>4. CycleState(c, f.book, Refs)
  BY <1>1, <1>2 DEF CycleState
<1>5. BrowserState(s, c)
  BY <1>1, <1>2, <1>3 DEF BrowserState
<1> QED BY <1>2, <1>4, <1>5 DEF c, s

LEMMA IncreasedAlike ==
  ASSUME NEW Refs, NEW f, IsFill(f, Refs), NEW c, NEW s, CycleState(c, f.book, Refs), c.dir # 0,
         BrowserState(s, c)
  PROVE  /\ CycleState(CycleAdd(c, f), f.book, Refs) /\ BrowserState(Increased(s, f), CycleAdd(c, f))
         /\ CycleAdd(c, f).dir = c.dir /\ CycleAdd(c, f).open = c.open + f.qty
<1> DEFINE c1 == CycleAdd(c, f)
           s1 == Increased(s, f)
<1>1. c = [dir |-> c.dir, open |-> c.open, entryTime |-> c.entryTime,
           entryValue |-> c.entryValue, entryQty |-> c.entryQty, lineage |-> c.lineage,
           exitValue |-> c.exitValue, exitQty |-> c.exitQty, paid |-> c.paid, reported |-> c.reported]
  BY DEF CycleState
<1>2. s = [dir |-> s.dir, open |-> s.open, value |-> s.value, entryTime |-> s.entryTime,
           entryValue |-> s.entryValue, entryQty |-> s.entryQty, lineage |-> s.lineage,
           exitValue |-> s.exitValue, exitQty |-> s.exitQty, fee |-> s.fee,
           reported |-> s.reported, complete |-> s.complete, self |-> s.self]
  BY DEF BrowserState
<1>3. c1 = [dir |-> c.dir, open |-> c.open + f.qty, entryTime |-> c.entryTime,
            entryValue |-> c.entryValue + f.price * f.qty, entryQty |-> c.entryQty + f.qty,
            lineage |-> Append(c.lineage, f.ref), exitValue |-> c.exitValue, exitQty |-> c.exitQty,
            paid |-> c.paid \cup {<<f.ref, f.asset, f.fee>>}, reported |-> c.reported + f.pnl]
  <2> DEFINE a == c.open + f.qty
             v == c.entryValue + f.price * f.qty
             q == c.entryQty + f.qty
             l == Append(c.lineage, f.ref)
             p == c.paid \cup {<<f.ref, f.asset, f.fee>>}
             r == c.reported + f.pnl
  <2>1. c1 = [c EXCEPT !.open = a, !.entryValue = v, !.entryQty = q, !.lineage = l, !.paid = p, !.reported = r]
    BY DEF CycleAdd
  <2> HIDE DEF a, v, q, l, p, r, c1
  <2>2. c1 = [dir |-> c.dir, open |-> a, entryTime |-> c.entryTime, entryValue |-> v, entryQty |-> q,
              lineage |-> l, exitValue |-> c.exitValue, exitQty |-> c.exitQty, paid |-> p, reported |-> r]
    BY <1>1, <2>1
  <2> QED BY <2>2 DEF a, v, q, l, p, r
<1>4. s1 = [dir |-> s.dir, open |-> s.open + f.qty, value |-> Plus(s.value, Whole(f.price * f.qty)),
            entryTime |-> s.entryTime, entryValue |-> s.entryValue + f.price * f.qty,
            entryQty |-> s.entryQty + f.qty, lineage |-> s.lineage \cup {f.ref},
            exitValue |-> s.exitValue, exitQty |-> s.exitQty, fee |-> s.fee + f.fee,
            reported |-> s.reported + Reported(f), complete |-> s.complete, self |-> s.self]
  <2> DEFINE a == s.open + f.qty
             w == Plus(s.value, Whole(f.price * f.qty))
             v == s.entryValue + f.price * f.qty
             q == s.entryQty + f.qty
             l == s.lineage \cup {f.ref}
             e == s.fee + f.fee
             r == s.reported + Reported(f)
  <2>1. s1 = [s EXCEPT !.open = a, !.value = w, !.entryValue = v, !.entryQty = q, !.lineage = l,
                       !.fee = e, !.reported = r]
    BY DEF Increased
  <2> HIDE DEF a, w, v, q, l, e, r, s1
  <2>2. s1 = [dir |-> s.dir, open |-> a, value |-> w, entryTime |-> s.entryTime, entryValue |-> v,
              entryQty |-> q, lineage |-> l, exitValue |-> s.exitValue, exitQty |-> s.exitQty,
              fee |-> e, reported |-> r, complete |-> s.complete, self |-> s.self]
    BY <1>2, <2>1
  <2> QED BY <2>2 DEF a, w, v, q, l, e, r
<1>5. Reported(f) = f.pnl
  BY DEF Reported, IsFill
<1>6. c.lineage \in Seq(Refs) /\ f.ref \in Refs
  BY DEF CycleState, IsFill
<1>7. Append(c.lineage, f.ref) \in Seq(Refs) /\ ToSet(Append(c.lineage, f.ref)) = ToSet(c.lineage) \cup {f.ref}
  BY <1>6, LineageGrows
<1>8. c.open + f.qty \in Nat \ {0}
  BY DEF CycleState, IsFill
<1>9. s.dir = c.dir /\ s.open = c.open /\ s.entryTime = c.entryTime /\ s.entryValue = c.entryValue
      /\ s.entryQty = c.entryQty /\ s.exitValue = c.exitValue /\ s.exitQty = c.exitQty
      /\ s.reported = c.reported /\ s.complete = TRUE /\ s.lineage = ToSet(c.lineage)
  BY DEF BrowserState
<1> HIDE DEF c1, s1
<1>10. CycleState(c1, f.book, Refs)
  <2>1. c1 = [dir |-> c1.dir, open |-> c1.open, entryTime |-> c1.entryTime,
              entryValue |-> c1.entryValue, entryQty |-> c1.entryQty, lineage |-> c1.lineage,
              exitValue |-> c1.exitValue, exitQty |-> c1.exitQty, paid |-> c1.paid,
              reported |-> c1.reported]
    BY <1>3
  <2>2. c1.dir = c.dir /\ c1.open = c.open + f.qty /\ c1.lineage = Append(c.lineage, f.ref)
    BY <1>3
  <2> QED BY <1>7, <1>8, <2>1, <2>2 DEF CycleState
<1>11. BrowserState(s1, c1)
  <2>1. s1 = [dir |-> s1.dir, open |-> s1.open, value |-> s1.value, entryTime |-> s1.entryTime,
              entryValue |-> s1.entryValue, entryQty |-> s1.entryQty, lineage |-> s1.lineage,
              exitValue |-> s1.exitValue, exitQty |-> s1.exitQty, fee |-> s1.fee,
              reported |-> s1.reported, complete |-> s1.complete, self |-> s1.self]
    BY <1>4
  <2>2. /\ s1.dir = c1.dir /\ s1.open = c1.open /\ s1.entryTime = c1.entryTime
        /\ s1.entryValue = c1.entryValue /\ s1.entryQty = c1.entryQty
        /\ s1.exitValue = c1.exitValue /\ s1.exitQty = c1.exitQty
        /\ s1.reported = c1.reported /\ s1.complete = TRUE
    BY <1>3, <1>4, <1>5, <1>9
  <2>3. s1.lineage = ToSet(c1.lineage)
    BY <1>3, <1>4, <1>7, <1>9
  <2> QED BY <2>1, <2>2, <2>3 DEF BrowserState
<1> QED BY <1>3, <1>10, <1>11 DEF c1, s1

\* Less of the cycle, and what is reported when nothing is left of it.
LEMMA ReducedAlike ==
  ASSUME NEW Refs, NEW f, IsFill(f, Refs), NEW c, NEW s, CycleState(c, f.book, Refs), c.dir # 0,
         BrowserState(s, c), NEW k \in Nat, k <= c.open, NEW fee
  PROVE  /\ CycleReduce(c, f, k).dir = c.dir /\ CycleReduce(c, f, k).open = c.open - k
         /\ Reduced(s, f, k, fee).open = c.open - k
         /\ k # c.open => /\ CycleState(CycleReduce(c, f, k), f.book, Refs)
                          /\ BrowserState(Reduced(s, f, k, fee), CycleReduce(c, f, k))
         /\ OfTrade(ClosedTrade(Reduced(s, f, k, fee), f)) = OfCycle(Cycle(CycleReduce(c, f, k), f))
<1> DEFINE c1 == CycleReduce(c, f, k)
           s1 == Reduced(s, f, k, fee)
<1>1. c = [dir |-> c.dir, open |-> c.open, entryTime |-> c.entryTime,
           entryValue |-> c.entryValue, entryQty |-> c.entryQty, lineage |-> c.lineage,
           exitValue |-> c.exitValue, exitQty |-> c.exitQty, paid |-> c.paid, reported |-> c.reported]
  BY DEF CycleState
<1>2. s = [dir |-> s.dir, open |-> s.open, value |-> s.value, entryTime |-> s.entryTime,
           entryValue |-> s.entryValue, entryQty |-> s.entryQty, lineage |-> s.lineage,
           exitValue |-> s.exitValue, exitQty |-> s.exitQty, fee |-> s.fee,
           reported |-> s.reported, complete |-> s.complete, self |-> s.self]
  BY DEF BrowserState
<1> DEFINE paid == c.paid \cup {<<f.ref, f.asset, ClosingFee(c, f)>>}
           average == Over(s.value, s.open)
           result == IF s.dir > 0 THEN Minus(Whole(f.price), average) ELSE Minus(average, Whole(f.price))
           self == Plus(s.self, Times(result, k))
           value == Minus(s.value, Times(average, k))
           complete == s.complete /\ f.pnl # NoPnl
<1>3. c1 = [dir |-> c.dir, open |-> c.open - k, entryTime |-> c.entryTime,
            entryValue |-> c.entryValue, entryQty |-> c.entryQty,
            lineage |-> Append(c.lineage, f.ref), exitValue |-> c.exitValue + f.price * k,
            exitQty |-> c.exitQty + k, paid |-> paid, reported |-> c.reported + f.pnl]
  <2> DEFINE a == c.open - k
             v == c.exitValue + f.price * k
             q == c.exitQty + k
             l == Append(c.lineage, f.ref)
             r == c.reported + f.pnl
  <2>1. c1 = [c EXCEPT !.open = a, !.exitValue = v, !.exitQty = q, !.lineage = l, !.paid = paid, !.reported = r]
    BY DEF CycleReduce
  <2> HIDE DEF a, v, q, l, paid, r, c1
  <2>2. c1 = [dir |-> c.dir, open |-> a, entryTime |-> c.entryTime, entryValue |-> c.entryValue,
              entryQty |-> c.entryQty, lineage |-> l, exitValue |-> v, exitQty |-> q, paid |-> paid,
              reported |-> r]
    BY <1>1, <2>1
  <2> QED BY <2>2 DEF a, v, q, l, r
<1>4. s1 = [dir |-> s.dir, open |-> s.open - k, value |-> value,
            entryTime |-> s.entryTime, entryValue |-> s.entryValue,
            entryQty |-> s.entryQty, lineage |-> s.lineage \cup {f.ref},
            exitValue |-> s.exitValue + f.price * k, exitQty |-> s.exitQty + k, fee |-> s.fee + fee,
            reported |-> s.reported + Reported(f), complete |-> complete, self |-> self]
  <2> DEFINE a == s.open - k
             v == s.exitValue + f.price * k
             q == s.exitQty + k
             l == s.lineage \cup {f.ref}
             e == s.fee + fee
             r == s.reported + Reported(f)
  <2>1. s1 = [s EXCEPT !.open = a, !.lineage = l, !.fee = e, !.self = self, !.value = value,
                       !.exitValue = v, !.exitQty = q, !.complete = complete, !.reported = r]
    BY DEF Reduced
  <2> HIDE DEF a, v, q, l, e, r, self, value, complete, s1
  <2>2. s1 = [dir |-> s.dir, open |-> a, value |-> value, entryTime |-> s.entryTime,
              entryValue |-> s.entryValue, entryQty |-> s.entryQty, lineage |-> l,
              exitValue |-> v, exitQty |-> q, fee |-> e, reported |-> r, complete |-> complete,
              self |-> self]
    BY <1>2, <2>1
  <2> QED BY <2>2 DEF a, v, q, l, e, r
<1>5. Reported(f) = f.pnl /\ complete = TRUE
  BY DEF Reported, IsFill, BrowserState
<1> HIDE DEF paid, average, result, self, value, complete
<1>6. c.lineage \in Seq(Refs) /\ f.ref \in Refs
  BY DEF CycleState, IsFill
<1>7. Append(c.lineage, f.ref) \in Seq(Refs) /\ ToSet(Append(c.lineage, f.ref)) = ToSet(c.lineage) \cup {f.ref}
  BY <1>6, LineageGrows
<1>8. k # c.open => c.open - k \in Nat \ {0}
  BY DEF CycleState
<1>9. s.dir = c.dir /\ s.open = c.open /\ s.entryTime = c.entryTime /\ s.entryValue = c.entryValue
      /\ s.entryQty = c.entryQty /\ s.exitValue = c.exitValue /\ s.exitQty = c.exitQty
      /\ s.reported = c.reported /\ s.complete = TRUE /\ s.lineage = ToSet(c.lineage)
  BY DEF BrowserState
<1> HIDE DEF c1, s1
<1>d. c1.dir = c.dir /\ c1.open = c.open - k /\ c1.lineage = Append(c.lineage, f.ref)
  BY <1>3
<1>e. /\ s1.dir = c1.dir /\ s1.open = c1.open /\ s1.entryTime = c1.entryTime
      /\ s1.entryValue = c1.entryValue /\ s1.entryQty = c1.entryQty
      /\ s1.exitValue = c1.exitValue /\ s1.exitQty = c1.exitQty
      /\ s1.reported = c1.reported /\ s1.complete = TRUE
  BY <1>3, <1>4, <1>5, <1>9
<1>f. s1.lineage = ToSet(c1.lineage)
  BY <1>3, <1>4, <1>7, <1>9
<1>10. ASSUME k # c.open PROVE CycleState(c1, f.book, Refs)
  <2>1. c1 = [dir |-> c1.dir, open |-> c1.open, entryTime |-> c1.entryTime,
              entryValue |-> c1.entryValue, entryQty |-> c1.entryQty, lineage |-> c1.lineage,
              exitValue |-> c1.exitValue, exitQty |-> c1.exitQty, paid |-> c1.paid,
              reported |-> c1.reported]
    BY <1>3
  <2> QED BY <1>7, <1>8, <1>10, <1>d, <2>1 DEF CycleState
<1>11. BrowserState(s1, c1)
  <2>1. s1 = [dir |-> s1.dir, open |-> s1.open, value |-> s1.value, entryTime |-> s1.entryTime,
              entryValue |-> s1.entryValue, entryQty |-> s1.entryQty, lineage |-> s1.lineage,
              exitValue |-> s1.exitValue, exitQty |-> s1.exitQty, fee |-> s1.fee,
              reported |-> s1.reported, complete |-> s1.complete, self |-> s1.self]
    BY <1>4
  <2> QED BY <1>e, <1>f, <2>1 DEF BrowserState
<1>12. OfTrade(ClosedTrade(s1, f)) = OfCycle(Cycle(c1, f))
  <2>1. ClosedTrade(s1, f).gross = Whole(s1.reported)
    BY <1>e DEF ClosedTrade
  <2>2. Cycle(c1, f) = [book |-> f.book, side |-> SideOf(c1.dir), entry |-> c1.entryTime, exit |-> f.time,
             bought |-> <<c1.entryValue, c1.entryQty>>, sold |-> <<c1.exitValue, c1.exitQty>>,
             qty |-> c1.entryQty, paid |-> c1.paid, reported |-> c1.reported, lineage |-> c1.lineage]
    BY DEF Cycle
  <2>3. /\ ClosedTrade(s1, f).book = f.book /\ ClosedTrade(s1, f).side = SideOf(s1.dir)
        /\ ClosedTrade(s1, f).entry = s1.entryTime /\ ClosedTrade(s1, f).exit = f.time
        /\ ClosedTrade(s1, f).bought = <<s1.entryValue, s1.entryQty>>
        /\ ClosedTrade(s1, f).sold = <<s1.exitValue, s1.exitQty>>
        /\ ClosedTrade(s1, f).qty = s1.entryQty /\ ClosedTrade(s1, f).lineage = s1.lineage
    BY DEF ClosedTrade
  <2> QED BY <1>e, <1>f, <2>1, <2>2, <2>3 DEF OfTrade, OfCycle
<1>13. s1.open = c.open - k
  BY <1>d, <1>e
<1> QED BY <1>d, <1>10, <1>11, <1>12, <1>13 DEF c1, s1

\* Where a fill takes the position of its book.
LEMMA PositionGoes ==
  ASSUME NEW pos, NEW f, pos = [valid |-> pos.valid, quantity |-> pos.quantity, deltas |-> pos.deltas],
         pos.valid = TRUE, NEW after, after = pos.quantity + Direction(f) * f.qty
  PROVE  /\ HedgeValid(f.book, Direction(f), pos.quantity, after) =>
              PositionStep(pos, f) = [valid |-> pos.valid, quantity |-> after,
                                      deltas |-> Append(pos.deltas, Transition(pos.quantity, after))]
         /\ ~HedgeValid(f.book, Direction(f), pos.quantity, after) =>
              PositionStep(pos, f) = [valid |-> FALSE, quantity |-> pos.quantity, deltas |-> pos.deltas]
<1> DEFINE d == Append(pos.deltas, Transition(pos.quantity, after))
           ok == HedgeValid(f.book, Direction(f), pos.quantity, after)
<1>1. CASE ok
  <2>1. PositionStep(pos, f) = [pos EXCEPT !.quantity = after, !.deltas = d]
    BY <1>1 DEF PositionStep
  <2> HIDE DEF d
  <2>2. PICK x : x = [pos EXCEPT !.quantity = after, !.deltas = d]
    OBVIOUS
  <2>3. x = [valid |-> pos.valid, quantity |-> after, deltas |-> d]
    BY <2>2
  <2> QED BY <1>1, <2>1, <2>2, <2>3 DEF d
<1>2. CASE ~ok
  <2>1. PositionStep(pos, f) = [pos EXCEPT !.valid = FALSE]
    BY <1>2 DEF PositionStep
  <2>2. PICK x : x = [pos EXCEPT !.valid = FALSE]
    OBVIOUS
  <2>3. x = [valid |-> FALSE, quantity |-> pos.quantity, deltas |-> pos.deltas]
    BY <2>2
  <2> QED BY <1>2, <2>1, <2>2, <2>3
<1> QED BY <1>1, <1>2

\* A refused book stays refused.
LEMMA RefusedStays ==
  ASSUME NEW net, NEW cyc, NEW pos, NEW Refs, NEW f, IsFill(f, Refs),
         InStep(net, cyc, pos, f.book, Refs), cyc.refused
  PROVE  /\ CycleStep(cyc, f) = cyc
         /\ PositionStep(pos, f) = [valid |-> FALSE, quantity |-> pos.quantity, deltas |-> pos.deltas]
<1>1. CycleStep(cyc, f) = cyc
  BY DEF CycleStep
<1>2. ~pos.valid /\ pos = [valid |-> pos.valid, quantity |-> pos.quantity, deltas |-> pos.deltas]
  BY DEF InStep
<1>3. PositionStep(pos, f) = [pos EXCEPT !.valid = FALSE]
  BY <1>2 DEF PositionStep
<1>4. PositionStep(pos, f) = [valid |-> FALSE, quantity |-> pos.quantity, deltas |-> pos.deltas]
  BY <1>2, <1>3
<1> QED BY <1>1, <1>4

\* The browser's half of a step is a set of trades and a state.
LEMMA NetStepIs ==
  ASSUME NEW net, net = [closed |-> net.closed, state |-> net.state], NEW f
  PROVE  /\ NetStep(net, f) = [closed |-> NetStep(net, f).closed, state |-> NetStep(net, f).state]
         /\ net.state.dir = 0 =>
              NetStep(net, f) = [closed |-> net.closed,
                                 state |-> OpenState(f, Direction(f), f.qty, f.fee, Reported(f))]
         /\ net.state.dir # 0 /\ net.state.dir = Direction(f) =>
              NetStep(net, f) = [closed |-> net.closed, state |-> Increased(net.state, f)]
         /\ net.state.dir # 0 /\ net.state.dir # Direction(f) =>
              LET k     == Closing(net.state, f)
                  fee   == ClosingFee(net.state, f)
                  after == Reduced(net.state, f, k, fee)
              IN  NetStep(net, f) =
                    IF after.open > 0 THEN [closed |-> net.closed, state |-> after]
                    ELSE [closed |-> net.closed \cup {ClosedTrade(after, f)},
                          state  |-> IF f.qty = net.state.open THEN Flat
                                     ELSE OpenState(f, Direction(f), f.qty - k, f.fee - fee, 0)]
<1>e. \A x : [net EXCEPT !.state = x] = [closed |-> net.closed, state |-> x]
  OBVIOUS
<1>1. CASE net.state.dir = 0
  BY <1>1, <1>e DEF NetStep
<1>2. CASE net.state.dir # 0 /\ net.state.dir = Direction(f)
  BY <1>2, <1>e DEF NetStep
<1>3. CASE net.state.dir # 0 /\ net.state.dir # Direction(f)
  BY <1>3, <1>e DEF NetStep
<1> QED BY <1>1, <1>2, <1>3

\* The two ways of being in step.
LEMMA InStepWhenRefused ==
  ASSUME NEW N, NEW S, NEW C, NEW c, NEW q, NEW D, NEW book, NEW Refs
  PROVE  InStep([closed |-> N, state |-> S], [refused |-> TRUE, cycles |-> C, state |-> c],
                [valid |-> FALSE, quantity |-> q, deltas |-> D], book, Refs)
BY DEF InStep

LEMMA InStepWhenOpen ==
  ASSUME NEW N, NEW S, NEW C, NEW c, NEW q, NEW D, NEW book, NEW Refs,
         CycleState(c, book, Refs), BrowserState(S, c),
         q = IF c.dir = 0 THEN 0 ELSE c.dir * c.open,
         {OfTrade(t) : t \in N} = {OfCycle(x) : x \in C}
  PROVE  InStep([closed |-> N, state |-> S], [refused |-> FALSE, cycles |-> C, state |-> c],
                [valid |-> TRUE, quantity |-> q, deltas |-> D], book, Refs)
BY DEF InStep

\* The projector's half of a step.
LEMMA CycleStepIs ==
  ASSUME NEW cyc, cyc = [refused |-> cyc.refused, cycles |-> cyc.cycles, state |-> cyc.state],
         cyc.refused = FALSE, NEW f
  PROVE  /\ cyc.state.dir = 0 =>
              CycleStep(cyc, f) =
                  IF HedgeDirectionAllowed(f.book, Direction(f))
                  THEN [refused |-> FALSE, cycles |-> cyc.cycles,
                        state |-> StartState(f, Direction(f), f.qty, f.fee, f.pnl)]
                  ELSE [refused |-> TRUE, cycles |-> cyc.cycles, state |-> cyc.state]
         /\ cyc.state.dir # 0 /\ cyc.state.dir = Direction(f) =>
              CycleStep(cyc, f) = [refused |-> FALSE, cycles |-> cyc.cycles, state |-> CycleAdd(cyc.state, f)]
         /\ cyc.state.dir # 0 /\ cyc.state.dir # Direction(f) =>
              LET k     == Closing(cyc.state, f)
                  after == CycleReduce(cyc.state, f, k)
                  cross == f.qty > cyc.state.open
              IN  CycleStep(cyc, f) =
                    IF cross /\ f.book[2] # "BOTH"
                    THEN [refused |-> TRUE, cycles |-> cyc.cycles, state |-> cyc.state]
                    ELSE IF after.open > 0 THEN [refused |-> FALSE, cycles |-> cyc.cycles, state |-> after]
                    ELSE [refused |-> FALSE, cycles |-> cyc.cycles \cup {Cycle(after, f)},
                          state |-> IF cross
                                    THEN StartState(f, Direction(f), f.qty - cyc.state.open,
                                                    f.fee - ClosingFee(cyc.state, f), 0)
                                    ELSE Flat]
<1>1. ASSUME NEW x, NEW y, y = [cyc EXCEPT !.state = x]
      PROVE  y = [refused |-> FALSE, cycles |-> cyc.cycles, state |-> x]
  BY <1>1
<1>2. ASSUME NEW y, y = [cyc EXCEPT !.refused = TRUE]
      PROVE  y = [refused |-> TRUE, cycles |-> cyc.cycles, state |-> cyc.state]
  BY <1>2
<1>3. ASSUME NEW C, NEW x, NEW y, y = [cyc EXCEPT !.cycles = C, !.state = x]
      PROVE  y = [refused |-> FALSE, cycles |-> C, state |-> x]
  BY <1>3
<1>4. CASE cyc.state.dir = 0
  BY <1>1, <1>2, <1>4 DEF CycleStep
<1>5. CASE cyc.state.dir # 0 /\ cyc.state.dir = Direction(f)
  BY <1>1, <1>5 DEF CycleStep
<1>6. CASE cyc.state.dir # 0 /\ cyc.state.dir # Direction(f)
  <2> DEFINE k     == Closing(cyc.state, f)
             after == CycleReduce(cyc.state, f, k)
             cross == f.qty > cyc.state.open
             C     == cyc.cycles \cup {Cycle(after, f)}
             next  == IF cross THEN StartState(f, Direction(f), f.qty - cyc.state.open,
                                               f.fee - ClosingFee(cyc.state, f), 0)
                      ELSE Flat
  <2>1. CycleStep(cyc, f) =
          IF cross /\ f.book[2] # "BOTH" THEN [cyc EXCEPT !.refused = TRUE]
          ELSE IF after.open > 0 THEN [cyc EXCEPT !.state = after]
          ELSE [cyc EXCEPT !.cycles = C, !.state = next]
    BY <1>6 DEF CycleStep
  <2> HIDE DEF k, after, cross, C, next
  <2>2. CycleStep(cyc, f) =
          IF cross /\ f.book[2] # "BOTH" THEN [refused |-> TRUE, cycles |-> cyc.cycles, state |-> cyc.state]
          ELSE IF after.open > 0 THEN [refused |-> FALSE, cycles |-> cyc.cycles, state |-> after]
          ELSE [refused |-> FALSE, cycles |-> C, state |-> next]
    BY <1>1, <1>2, <1>3, <2>1
  <2> QED BY <1>6, <2>2 DEF k, after, cross, C, next
<1> QED BY <1>4, <1>5, <1>6

\* The first fill of a cycle.
LEMMA OpensInStep ==
  ASSUME NEW net, NEW cyc, NEW pos, NEW Refs, NEW f, IsFill(f, Refs),
         InStep(net, cyc, pos, f.book, Refs), ~cyc.refused, cyc.state.dir = 0
  PROVE  InStep(NetStep(net, f), CycleStep(cyc, f), PositionStep(pos, f), f.book, Refs)
<1> DEFINE d == Direction(f)
           c1 == StartState(f, d, f.qty, f.fee, f.pnl)
           s1 == OpenState(f, d, f.qty, f.fee, f.pnl)
           ok == HedgeDirectionAllowed(f.book, d)
<1>1. /\ net = [closed |-> net.closed, state |-> net.state] /\ net.state.dir = 0
      /\ cyc = [refused |-> cyc.refused, cycles |-> cyc.cycles, state |-> cyc.state]
      /\ pos = [valid |-> pos.valid, quantity |-> pos.quantity, deltas |-> pos.deltas]
      /\ pos.valid = TRUE /\ cyc.refused = FALSE /\ pos.quantity = 0
      /\ {OfTrade(t) : t \in net.closed} = {OfCycle(c) : c \in cyc.cycles}
  BY DEF InStep, BrowserState
<1>2. d \in {0 - 1, 1} /\ f.qty \in Nat \ {0} /\ Reported(f) = f.pnl
  BY DEF Direction, IsFill, Reported
<1> HIDE DEF d
<1>3. NetStep(net, f) = [closed |-> net.closed, state |-> s1]
  BY <1>1, <1>2, NetStepIs DEF d
<1>4. HedgeValid(f.book, d, 0, d * f.qty) <=> ok
  <2>1. f.book[2] \in {"BOTH", "LONG", "SHORT"}
    BY DEF IsFill
  <2>2. (d = 1 => d * f.qty = f.qty) /\ (d = 0 - 1 => d * f.qty = 0 - f.qty)
    BY <1>2
  <2>3. ok <=> (f.book[2] = "BOTH" \/ (f.book[2] = "LONG" /\ d = 1) \/ (f.book[2] = "SHORT" /\ d = 0 - 1))
    BY <1>2, <2>1 DEF HedgeDirectionAllowed
  <2> HIDE DEF ok
  <2> QED BY <1>2, <2>1, <2>2, <2>3 DEF HedgeValid, ok
<1>5. /\ ok => PositionStep(pos, f) = [valid |-> TRUE, quantity |-> d * f.qty,
                                       deltas |-> Append(pos.deltas, Transition(0, d * f.qty))]
      /\ ~ok => PositionStep(pos, f) = [valid |-> FALSE, quantity |-> 0, deltas |-> pos.deltas]
  <2>1. d * f.qty = pos.quantity + Direction(f) * f.qty
    BY <1>1, <1>2 DEF d
  <2> DEFINE after == d * f.qty
  <2>2. after = pos.quantity + Direction(f) * f.qty
    BY <2>1
  <2>3. HedgeValid(f.book, Direction(f), pos.quantity, after) <=> ok
    BY <1>1, <1>4 DEF d
  <2> HIDE DEF after, ok
  <2>4. /\ ok => PositionStep(pos, f) = [valid |-> pos.valid, quantity |-> after,
                                         deltas |-> Append(pos.deltas, Transition(pos.quantity, after))]
        /\ ~ok => PositionStep(pos, f) = [valid |-> FALSE, quantity |-> pos.quantity, deltas |-> pos.deltas]
    BY <1>1, <2>2, <2>3, PositionGoes
  <2> QED BY <1>1, <2>4 DEF after
<1>6. CycleStep(cyc, f) = IF ok THEN [refused |-> FALSE, cycles |-> cyc.cycles, state |-> c1]
                          ELSE [refused |-> TRUE, cycles |-> cyc.cycles, state |-> cyc.state]
  BY <1>1, CycleStepIs DEF d
<1>7. CASE ~ok
  <2> HIDE DEF ok, c1, s1
  <2> QED BY <1>3, <1>5, <1>6, <1>7, InStepWhenRefused
<1>8. CASE ok
  <2>1. CycleState(c1, f.book, Refs) /\ BrowserState(s1, c1) /\ c1.dir = d /\ c1.open = f.qty
    BY <1>2, <1>8, OpenedAlike
  <2> HIDE DEF ok, c1, s1
  <2>2. d * f.qty = IF c1.dir = 0 THEN 0 ELSE c1.dir * c1.open
    BY <1>2, <2>1
  <2> QED BY <1>1, <1>3, <1>5, <1>6, <1>8, <2>1, <2>2, InStepWhenOpen
<1> QED BY <1>7, <1>8

\* A fill in the direction of the cycle.
LEMMA AddsInStep ==
  ASSUME NEW net, NEW cyc, NEW pos, NEW Refs, NEW f, IsFill(f, Refs),
         InStep(net, cyc, pos, f.book, Refs), ~cyc.refused, cyc.state.dir # 0, cyc.state.dir = Direction(f)
  PROVE  InStep(NetStep(net, f), CycleStep(cyc, f), PositionStep(pos, f), f.book, Refs)
<1> DEFINE d == Direction(f)
           c == cyc.state
           s == net.state
           c1 == CycleAdd(c, f)
           s1 == Increased(s, f)
<1>1. /\ net = [closed |-> net.closed, state |-> net.state] /\ s.dir = d
      /\ cyc = [refused |-> cyc.refused, cycles |-> cyc.cycles, state |-> cyc.state]
      /\ pos = [valid |-> pos.valid, quantity |-> pos.quantity, deltas |-> pos.deltas]
      /\ pos.valid = TRUE /\ cyc.refused = FALSE /\ pos.quantity = d * c.open
      /\ CycleState(c, f.book, Refs) /\ BrowserState(s, c)
      /\ {OfTrade(t) : t \in net.closed} = {OfCycle(x) : x \in cyc.cycles}
  BY DEF InStep, BrowserState
<1>2. d \in {0 - 1, 1} /\ f.qty \in Nat \ {0} /\ c.open \in Nat \ {0} /\ HedgeDirectionAllowed(f.book, d)
  BY DEF Direction, IsFill, InStep, CycleState
<1>3. NetStep(net, f) = [closed |-> net.closed, state |-> s1]
  BY <1>1, NetStepIs
<1>4. /\ CycleState(c1, f.book, Refs) /\ BrowserState(s1, c1) /\ c1.dir = d
      /\ c1.open = c.open + f.qty
  BY <1>1, <1>2, IncreasedAlike
<1>5. CycleStep(cyc, f) = [refused |-> FALSE, cycles |-> cyc.cycles, state |-> c1]
  BY <1>1, <1>2, CycleStepIs
<1> HIDE DEF d, c, s, c1, s1
<1>6. /\ d * c.open + d * f.qty = d * (c.open + f.qty)
      /\ d * c.open # 0
      /\ d = 1 => d * (c.open + f.qty) >= 0
      /\ d = 0 - 1 => d * (c.open + f.qty) <= 0
  <2>1. CASE d = 1
    BY <1>2, <2>1
  <2>2. CASE d = 0 - 1
    BY <1>2, <2>2
  <2> QED BY <1>2, <2>1, <2>2
<1>7. HedgeValid(f.book, d, d * c.open, d * (c.open + f.qty)) = TRUE
  <2>1. f.book[2] \in {"BOTH", "LONG", "SHORT"}
    BY DEF IsFill
  <2>2. (f.book[2] = "LONG" => d = 1) /\ (f.book[2] = "SHORT" => d = 0 - 1)
    BY <1>2, <2>1 DEF HedgeDirectionAllowed
  <2> QED BY <1>6, <2>2 DEF HedgeValid
<1>8. PositionStep(pos, f) =
          [valid |-> TRUE, quantity |-> d * (c.open + f.qty),
           deltas |-> Append(pos.deltas, Transition(pos.quantity, d * (c.open + f.qty)))]
  <2>1. d * (c.open + f.qty) = pos.quantity + Direction(f) * f.qty
    BY <1>1, <1>6 DEF d
  <2>2. HedgeValid(f.book, Direction(f), pos.quantity, d * (c.open + f.qty))
    BY <1>1, <1>7 DEF d
  <2> QED BY <1>1, <2>1, <2>2, PositionGoes
<1>9. d * (c.open + f.qty) = IF c1.dir = 0 THEN 0 ELSE c1.dir * c1.open
  BY <1>2, <1>4
<1> QED BY <1>1, <1>3, <1>4, <1>5, <1>8, <1>9, InStepWhenOpen

\* A fill against the cycle: less of it, its end, or its end and the next one.
LEMMA ReducesInStep ==
  ASSUME NEW net, NEW cyc, NEW pos, NEW Refs, NEW f, IsFill(f, Refs),
         InStep(net, cyc, pos, f.book, Refs), ~cyc.refused, cyc.state.dir # 0, cyc.state.dir # Direction(f)
  PROVE  InStep(NetStep(net, f), CycleStep(cyc, f), PositionStep(pos, f), f.book, Refs)
<1> DEFINE d == Direction(f)
           c == cyc.state
           s == net.state
           o == c.open
           q == f.qty
<1>1. /\ net = [closed |-> net.closed, state |-> net.state] /\ s.dir = c.dir /\ s.dir # 0 /\ s.dir # d
      /\ s.open = o
      /\ cyc = [refused |-> cyc.refused, cycles |-> cyc.cycles, state |-> cyc.state]
      /\ pos = [valid |-> pos.valid, quantity |-> pos.quantity, deltas |-> pos.deltas]
      /\ pos.valid = TRUE /\ cyc.refused = FALSE /\ pos.quantity = c.dir * o
      /\ CycleState(c, f.book, Refs) /\ BrowserState(s, c)
      /\ {OfTrade(t) : t \in net.closed} = {OfCycle(x) : x \in cyc.cycles}
  BY DEF InStep, BrowserState
<1>2. d \in {0 - 1, 1} /\ c.dir \in {0 - 1, 1} /\ q \in Nat \ {0} /\ o \in Nat \ {0}
      /\ HedgeDirectionAllowed(f.book, c.dir)
  BY DEF Direction, IsFill, InStep, CycleState
<1>3. d = 0 - c.dir /\ (c.dir = 1 \/ c.dir = 0 - 1)
  BY <1>2
<1>b. f.book[2] \in {"BOTH", "LONG", "SHORT"}
  BY DEF IsFill
<1>h. (f.book[2] = "LONG" => c.dir = 1) /\ (f.book[2] = "SHORT" => c.dir = 0 - 1)
  BY <1>2, <1>b DEF HedgeDirectionAllowed
<1> DEFINE k == Closing(c, f)
           fee == ClosingFee(s, f)
           c1 == CycleReduce(c, f, k)
           s1 == Reduced(s, f, k, fee)
           after == c.dir * (o - q)
<1>4. /\ k \in Nat /\ k <= o /\ k = (IF q > o THEN o ELSE q)
      /\ Closing(s, f) = k
  BY <1>1, <1>2 DEF Closing
<1>5. /\ c1.dir = c.dir /\ c1.open = o - k /\ s1.open = o - k
      /\ k # o => CycleState(c1, f.book, Refs) /\ BrowserState(s1, c1)
      /\ OfTrade(ClosedTrade(s1, f)) = OfCycle(Cycle(c1, f))
  BY <1>1, <1>2, <1>4, ReducedAlike
<1>6. NetStep(net, f) = [closed |-> NetStep(net, f).closed, state |-> NetStep(net, f).state]
  BY <1>1, NetStepIs
<1>7. NetStep(net, f) =
         IF s1.open > 0 THEN [closed |-> net.closed, state |-> s1]
         ELSE [closed |-> net.closed \cup {ClosedTrade(s1, f)},
               state  |-> IF q = s.open THEN Flat ELSE OpenState(f, d, q - k, f.fee - fee, 0)]
  BY <1>1, <1>4, NetStepIs
<1>8. CycleStep(cyc, f) =
         IF q > o /\ f.book[2] # "BOTH" THEN [refused |-> TRUE, cycles |-> cyc.cycles, state |-> cyc.state]
         ELSE IF c1.open > 0 THEN [refused |-> FALSE, cycles |-> cyc.cycles, state |-> c1]
         ELSE [refused |-> FALSE, cycles |-> cyc.cycles \cup {Cycle(c1, f)},
               state |-> IF q > o THEN StartState(f, d, q - o, f.fee - ClosingFee(c, f), 0) ELSE Flat]
  BY <1>1, CycleStepIs
<1> HIDE DEF d, c, s, o, q, k, fee, c1, s1
<1>9. /\ c.dir * o + d * q = after /\ c.dir * o # 0
      /\ (c.dir = 1 => after = o - q) /\ (c.dir = 0 - 1 => after = q - o)
      /\ after = d * (q - o)
  <2>1. CASE c.dir = 1
    BY <1>2, <1>3, <2>1
  <2>2. CASE c.dir = 0 - 1
    BY <1>2, <1>3, <2>2
  <2> QED BY <1>3, <2>1, <2>2
<1>10. HedgeValid(f.book, d, c.dir * o, after) <=> ~(q > o /\ f.book[2] # "BOTH")
  <2>1. CASE f.book[2] = "BOTH"
    BY <1>9, <2>1 DEF HedgeValid
  <2>2. CASE f.book[2] = "LONG"
    BY <1>2, <1>9, <1>h, <2>2 DEF HedgeValid
  <2>3. CASE f.book[2] = "SHORT"
    BY <1>2, <1>9, <1>h, <2>3 DEF HedgeValid
  <2> QED BY <1>b, <2>1, <2>2, <2>3
<1>11. /\ q > o /\ f.book[2] # "BOTH" =>
             PositionStep(pos, f) = [valid |-> FALSE, quantity |-> pos.quantity, deltas |-> pos.deltas]
       /\ ~(q > o /\ f.book[2] # "BOTH") =>
             PositionStep(pos, f) = [valid |-> TRUE, quantity |-> after,
                                     deltas |-> Append(pos.deltas, Transition(pos.quantity, after))]
  <2>1. after = pos.quantity + Direction(f) * f.qty
    BY <1>1, <1>9 DEF d, q
  <2>2. HedgeValid(f.book, Direction(f), pos.quantity, after) <=> ~(q > o /\ f.book[2] # "BOTH")
    BY <1>1, <1>10 DEF d
  <2> HIDE DEF after
  <2>3. /\ HedgeValid(f.book, Direction(f), pos.quantity, after) =>
              PositionStep(pos, f) = [valid |-> pos.valid, quantity |-> after,
                                      deltas |-> Append(pos.deltas, Transition(pos.quantity, after))]
        /\ ~HedgeValid(f.book, Direction(f), pos.quantity, after) =>
              PositionStep(pos, f) = [valid |-> FALSE, quantity |-> pos.quantity, deltas |-> pos.deltas]
    BY <1>1, <2>1, PositionGoes
  <2> QED BY <1>1, <2>2, <2>3
<1>12. CASE q > o /\ f.book[2] # "BOTH"
  BY <1>6, <1>8, <1>11, <1>12, InStepWhenRefused
<1>13. CASE q < o
  <2>1. k = q /\ s1.open > 0 /\ c1.open > 0 /\ c1.open = o - q /\ k # o
    BY <1>2, <1>4, <1>5, <1>13
  <2>2. ~(q > o)
    BY <1>2, <1>13
  <2>3. NetStep(net, f) = [closed |-> net.closed, state |-> s1]
    BY <1>7, <2>1
  <2>4. CycleStep(cyc, f) = [refused |-> FALSE, cycles |-> cyc.cycles, state |-> c1]
    BY <1>8, <2>1, <2>2
  <2>5. after = IF c1.dir = 0 THEN 0 ELSE c1.dir * c1.open
    BY <1>3, <1>5, <2>1
  <2> HIDE DEF after
  <2> QED BY <1>1, <1>5, <1>11, <2>1, <2>2, <2>3, <2>4, <2>5, InStepWhenOpen
<1>14. {OfTrade(t) : t \in net.closed \cup {ClosedTrade(s1, f)}} = {OfCycle(x) : x \in cyc.cycles \cup {Cycle(c1, f)}}
  <2>1. {OfTrade(t) : t \in net.closed \cup {ClosedTrade(s1, f)}}
          = {OfTrade(t) : t \in net.closed} \cup {OfTrade(ClosedTrade(s1, f))}
    OBVIOUS
  <2>2. {OfCycle(x) : x \in cyc.cycles \cup {Cycle(c1, f)}}
          = {OfCycle(x) : x \in cyc.cycles} \cup {OfCycle(Cycle(c1, f))}
    OBVIOUS
  <2> QED BY <1>1, <1>5, <2>1, <2>2
<1> DEFINE N == net.closed \cup {ClosedTrade(s1, f)}
           C == cyc.cycles \cup {Cycle(c1, f)}
           D == Append(pos.deltas, Transition(pos.quantity, after))
<1>c. {OfTrade(t) : t \in N} = {OfCycle(x) : x \in C}
  BY <1>14
<1>15. CASE q = o
  <2>1. k = o /\ ~(s1.open > 0) /\ ~(c1.open > 0) /\ ~(q > o)
    BY <1>2, <1>4, <1>5, <1>15
  <2>2. NetStep(net, f) = [closed |-> N, state |-> Flat]
    BY <1>1, <1>7, <1>15, <2>1
  <2>3. CycleStep(cyc, f) = [refused |-> FALSE, cycles |-> C, state |-> Flat]
    BY <1>8, <2>1
  <2>4. Flat.dir = 0
    BY DEF Flat
  <2>5. CycleState(Flat, f.book, Refs) /\ BrowserState(Flat, Flat)
    BY <2>4 DEF CycleState, BrowserState
  <2>6. after = IF Flat.dir = 0 THEN 0 ELSE Flat.dir * Flat.open
    BY <1>2, <1>9, <1>3, <1>15, <2>4
  <2> HIDE DEF after
  <2>7. PositionStep(pos, f) = [valid |-> TRUE, quantity |-> after, deltas |-> D]
    BY <1>11, <2>1
  <2> HIDE DEF N, C, D
  <2> QED BY <1>c, <2>2, <2>3, <2>5, <2>6, <2>7, InStepWhenOpen
<1>16. CASE q > o /\ f.book[2] = "BOTH"
  <2>1. k = o /\ ~(s1.open > 0) /\ ~(c1.open > 0) /\ q > o /\ q # s.open
    BY <1>1, <1>2, <1>4, <1>5, <1>16
  <2> DEFINE c2 == StartState(f, d, q - o, f.fee - ClosingFee(c, f), 0)
             s2 == OpenState(f, d, q - o, f.fee - fee, 0)
  <2>2. NetStep(net, f) = [closed |-> N, state |-> s2]
    BY <1>7, <2>1
  <2>3. CycleStep(cyc, f) = [refused |-> FALSE, cycles |-> C, state |-> c2]
    BY <1>8, <1>16, <2>1
  <2>4. q - o \in Nat \ {0}
    BY <1>2, <1>16
  <2>5. HedgeDirectionAllowed(f.book, d)
    BY <1>16 DEF HedgeDirectionAllowed
  <2>6. CycleState(c2, f.book, Refs) /\ BrowserState(s2, c2) /\ c2.dir = d /\ c2.open = q - o
    BY <1>2, <2>4, <2>5, OpenedAlike
  <2> HIDE DEF c2, s2
  <2>7. after = IF c2.dir = 0 THEN 0 ELSE c2.dir * c2.open
    BY <1>2, <1>9, <2>6
  <2> HIDE DEF after
  <2>8. PositionStep(pos, f) = [valid |-> TRUE, quantity |-> after, deltas |-> D]
    BY <1>11, <1>16
  <2> HIDE DEF N, C, D
  <2> QED BY <1>c, <2>2, <2>3, <2>6, <2>7, <2>8, InStepWhenOpen
<1>17. q > o \/ q = o \/ q < o
  BY <1>2
<1> QED BY <1>12, <1>13, <1>15, <1>16, <1>17

\* Nothing has been reduced yet.
LEMMA ReductionsStartInStep ==
  ASSUME NEW book, NEW Refs
  PROVE  InStep([closed |-> {}, state |-> Flat], [refused |-> FALSE, cycles |-> {}, state |-> Flat],
                [valid |-> TRUE, quantity |-> 0, deltas |-> <<>>], book, Refs)
<1>1. Flat.dir = 0
  BY DEF Flat
<1>2. CycleState(Flat, book, Refs) /\ BrowserState(Flat, Flat)
  BY <1>1 DEF CycleState, BrowserState
<1> QED BY <1>1, <1>2, InStepWhenOpen

(***************************************************************************)
(* The step of ProjectionsAgree, for any fill and any position:            *)
(* reduceNetPositionsCore of net-position.js, projectCycles of             *)
(* trade-projector.mjs and projectPositions of ledger.mjs, in step before  *)
(* a fill, are in step after it, with the same trades closed and the same  *)
(* cycle open; the two that may refuse the fill refuse it together.        *)
(***************************************************************************)
THEOREM ReductionsStayInStep ==
  ASSUME NEW net, NEW cyc, NEW pos, NEW Refs, NEW f, IsFill(f, Refs),
         InStep(net, cyc, pos, f.book, Refs)
  PROVE  InStep(NetStep(net, f), CycleStep(cyc, f), PositionStep(pos, f), f.book, Refs)
<1>1. CASE cyc.refused
  <2>1. /\ CycleStep(cyc, f) = cyc
        /\ PositionStep(pos, f) = [valid |-> FALSE, quantity |-> pos.quantity, deltas |-> pos.deltas]
    BY <1>1, RefusedStays
  <2>2. net = [closed |-> net.closed, state |-> net.state]
        /\ cyc = [refused |-> cyc.refused, cycles |-> cyc.cycles, state |-> cyc.state]
        /\ cyc.refused = TRUE
    BY <1>1 DEF InStep
  <2>3. NetStep(net, f) = [closed |-> NetStep(net, f).closed, state |-> NetStep(net, f).state]
    BY <2>2, NetStepIs
  <2> QED BY <2>1, <2>2, <2>3, InStepWhenRefused
<1>2. CASE ~cyc.refused /\ cyc.state.dir = 0
  BY <1>2, OpensInStep
<1>3. CASE ~cyc.refused /\ cyc.state.dir # 0 /\ cyc.state.dir = Direction(f)
  BY <1>3, AddsInStep
<1>4. CASE ~cyc.refused /\ cyc.state.dir # 0 /\ cyc.state.dir # Direction(f)
  BY <1>4, ReducesInStep
<1> QED BY <1>1, <1>2, <1>3, <1>4
=============================================================================
