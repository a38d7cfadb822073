----------------------------- MODULE ReviewActions -----------------------------
(***************************************************************************)
(* The user's own records of one workspace: a review per trade, the action *)
(* its lesson becomes, the experiment that tests the action, and the risk  *)
(* rules (app/src/lib/action-plan-storage.ts, review-storage.ts,           *)
(* practice-state.ts, workspace-snapshot.ts, the mutations of store.tsx).  *)
(*                                                                         *)
(* A mutation reads the stored workspace under the browser's lock (or the  *)
(* vault's head), opens it strictly, computes the next one and writes it   *)
(* only if all of it can be opened again; what is refused changes nothing. *)
(* Every operation reads the clock, which may have been set back, or the   *)
(* record may come from a device whose clock is ahead.  The lock and the   *)
(* journal of the write are BrowserStorage's; BrowserStorage writes one    *)
(* workspace atomically, so one mutation is one step here.                 *)
(***************************************************************************)
EXTENDS Integers, FiniteSets

CONSTANTS
    Trades,         \* trades with a review
    Lessons,        \* lessons, the text of an action
    NoLesson,       \* the empty lesson
    Targets,        \* target counts of an experiment
    Rules,          \* risk rules (guards)
    MaxActions,     \* MAX_ACTIONS (2,000), the actions of a workspace
    MaxTime,        \* bound on the clock
    MaxSetBacks     \* bound on how often the clock is set back

ASSUME MaxActionsAssumption == MaxActions \in Nat

VARIABLES
    now,            \* Date.now()
    setBacks,       \* how often the clock was set back
    work            \* the stored workspace [reviews, actions, rules]

workVars == <<now, setBacks, work>>

NoReview == [lesson |-> NoLesson, by |-> "nobody"]
NoExperiment == [target |-> 0, observed |-> 0, followed |-> 0, decision |-> "none", at |-> 0]
NoAction == [text |-> NoLesson, status |-> "none", created |-> 0, updated |-> 0,
             completed |-> 0, experiment |-> NoExperiment]
NoRule == [active |-> FALSE, created |-> 0, updated |-> 0]

\* A completion time of null.
Never == 0

Exists(action) == action.status # "none"

--------------------------------------------------------------------------------
(* What the strict readers accept.                                         *)

\* The status a verdict gives its action.
StatusOf(decision) ==
    CASE decision = "adopt" -> "done"
      [] decision = "discard" -> "dismissed"
      [] OTHER -> "open"

ExperimentOpens(x, created, updated) ==
    /\ x.observed \in 0..x.target /\ x.followed \in 0..x.observed
    /\ x.at \in created..updated
    /\ x.decision # "pending" => x.observed = x.target

ActionOpens(a) ==
    /\ a.created <= a.updated
    /\ a.completed # Never => a.created <= a.completed
    /\ a.experiment # NoExperiment =>
           /\ ExperimentOpens(a.experiment, a.created, a.updated)
           /\ a.status = StatusOf(a.experiment.decision)
           /\ a.completed = (IF a.status = "open" THEN Never ELSE a.updated)

ActionsOpen(actions) ==
    /\ Cardinality({t \in Trades : Exists(actions[t])}) <= MaxActions
    /\ \A t \in Trades : Exists(actions[t]) => ActionOpens(actions[t])

RulesOpen(rules) == \A g \in Rules : rules[g].created <= rules[g].updated

\* decode and encode of the browser, and the snapshot of a vault.
Opens(w) == ActionsOpen(w.actions) /\ RulesOpen(w.rules)

\* The readers that show a workspace on startup leave out a row they cannot open.
ShownActions(actions) ==
    [t \in Trades |-> IF ActionOpens(actions[t]) THEN actions[t] ELSE NoAction]
ShownRules(rules) ==
    [g \in Rules |-> IF rules[g].created <= rules[g].updated THEN rules[g] ELSE NoRule]
Shown(w) == [w EXCEPT !.actions = ShownActions(@), !.rules = ShownRules(@)]

--------------------------------------------------------------------------------
(* Mutations.                                                              *)

\* Mutant: the next workspace is written as it is, like upsertReviewAction's persist.
EncodesAnything(next) == TRUE

\* The workspace may be written: all of the next one opens again.
Encodes(next) == Opens(next)

Save(next) == Opens(work) /\ Encodes(next) /\ work' = next /\ UNCHANGED <<now, setBacks>>

\* Every operation on an action refuses a clock behind the action.
Timely(a) == now >= a.updated

\* nextReviewAction: the same lesson keeps the action as it stands, another one opens it anew.
Lessoned(a, lesson) ==
    LET kept == Exists(a) /\ a.text = lesson
    IN  [text |-> lesson,
         status |-> IF kept THEN a.status ELSE "open",
         created |-> IF Exists(a) THEN a.created ELSE now,
         updated |-> now,
         completed |-> IF kept THEN a.completed ELSE Never,
         experiment |-> IF kept THEN a.experiment ELSE NoExperiment]

\* Mutant: an action that cannot follow is left as it is.
ReviewedAlone(w, t, lesson) ==
    [w EXCEPT !.reviews[t] = [lesson |-> lesson, by |-> "user"],
              !.actions[t] = IF lesson = NoLesson \/ w.actions # [u \in Trades |-> NoAction]
                             THEN @ ELSE Lessoned(@, lesson)]

Reviewed(w, t, lesson) ==
    [w EXCEPT !.reviews[t] = [lesson |-> lesson, by |-> "user"],
              !.actions[t] = IF lesson = NoLesson THEN @ ELSE Lessoned(@, lesson)]

SaveReview(t, lesson) ==
    /\ lesson # NoLesson => Timely(work.actions[t])
    /\ Save(Reviewed(work, t, lesson))

\* An action leaves its verdict only by being opened again, which forgets the experiment.
WithStatus(a, status) ==
    LET x == IF a.experiment.decision # "pending" /\ status # StatusOf(a.experiment.decision)
             THEN NoExperiment ELSE a.experiment
    IN  [a EXCEPT !.status = status, !.updated = now, !.experiment = x,
                  !.completed = IF status = "done" \/ (status = "dismissed" /\ x # NoExperiment)
                                THEN now ELSE Never]

StatusAllowed(a, status) ==
    \/ status = "open"
    \/ a.experiment = NoExperiment
    \/ a.experiment.decision # "pending" /\ status = StatusOf(a.experiment.decision)

SetStatus(t, status) ==
    LET a == work.actions[t]
    IN  /\ Exists(a) /\ Timely(a) /\ StatusAllowed(a, status)
        /\ Save([work EXCEPT !.actions[t] = WithStatus(a, status)])

SetExperiment(t, target) ==
    LET a == work.actions[t]
        x == [target |-> target, observed |-> 0, followed |-> 0, decision |-> "pending", at |-> now]
    IN  /\ Exists(a) /\ Timely(a)
        /\ Save([work EXCEPT !.actions[t] =
               [a EXCEPT !.status = "open", !.completed = Never, !.updated = now,
                         !.experiment = x]])

Running(a) == a.experiment.decision = "pending"

RecordObservation(t, followed) ==
    LET a == work.actions[t]
        x == a.experiment
    IN  /\ Exists(a) /\ Timely(a) /\ Running(a) /\ x.observed < x.target
        /\ Save([work EXCEPT !.actions[t] =
               [a EXCEPT !.updated = now,
                         !.experiment = [x EXCEPT !.observed = @ + 1, !.at = now,
                                                  !.followed = @ + (IF followed THEN 1 ELSE 0)]]])

Decidable(a) == Running(a) /\ a.experiment.observed = a.experiment.target

\* The verdict is the user's own: the success criterion is displayed, not enforced.
Decided(a, decision) ==
    [a EXCEPT !.status = StatusOf(decision), !.updated = now,
              !.completed = IF decision = "revise" THEN Never ELSE now,
              !.experiment = [@ EXCEPT !.decision = decision, !.at = now]]

DecideExperiment(t, decision) ==
    LET a == work.actions[t]
    IN  /\ Exists(a) /\ Timely(a) /\ Decidable(a)
        /\ Save([work EXCEPT !.actions[t] = Decided(a, decision)])

\* A new rule has a new identity; nothing compares the clock with a rule but the strict reader.
SaveRule(g) ==
    /\ work.rules[g] = NoRule
    /\ Save([work EXCEPT !.rules[g] = [active |-> TRUE, created |-> now, updated |-> now]])

SetRuleActive(g, active) ==
    /\ work.rules[g] # NoRule
    /\ Save([work EXCEPT !.rules[g] = [@ EXCEPT !.active = active, !.updated = now]])

ClockTicks ==
    /\ now < MaxTime
    /\ now' = now + 1
    /\ UNCHANGED <<setBacks, work>>

ClockSetBack ==
    /\ setBacks < MaxSetBacks /\ now > 1
    /\ now' = now - 1
    /\ setBacks' = setBacks + 1
    /\ UNCHANGED work

EmptyWork == [reviews |-> [t \in Trades |-> NoReview],
              actions |-> [t \in Trades |-> NoAction],
              rules |-> [g \in Rules |-> NoRule]]

WorkInit == now = 1 /\ setBacks = 0 /\ work = EmptyWork

ActionStep ==
    \/ \E t \in Trades : \E lesson \in Lessons \cup {NoLesson} : SaveReview(t, lesson)
    \/ \E t \in Trades : \E status \in {"open", "done", "dismissed"} : SetStatus(t, status)
    \/ \E t \in Trades : \E target \in Targets : SetExperiment(t, target)
    \/ \E t \in Trades : \E followed \in BOOLEAN : RecordObservation(t, followed)
    \/ \E t \in Trades : \E d \in {"adopt", "revise", "discard"} : DecideExperiment(t, d)

RuleStep ==
    \/ \E g \in Rules : SaveRule(g)
    \/ \E g \in Rules : \E active \in BOOLEAN : SetRuleActive(g, active)

WorkNext == ActionStep \/ RuleStep \/ ClockTicks \/ ClockSetBack

WorkSpec == WorkInit /\ [][WorkNext]_workVars

--------------------------------------------------------------------------------
(* Properties.                                                             *)

\* A stored workspace opens strictly, and showing it drops no action and no rule: a mutation that
\* stored a row its own reader refuses would lose it on the next start and block every later save.
StoredIsShownWhole == Opens(work) /\ Shown(work) = work

\* The action of a trade asks for the lesson its review states: a save that is half refused (a full
\* map, a clock that went back) leaves neither a lesson without its action nor the other way round.
ActionFollowsLesson ==
    \A t \in Trades :
        work.reviews[t].by = "user" /\ work.reviews[t].lesson # NoLesson =>
            work.actions[t].text = work.reviews[t].lesson

\* Saving a review again with the lesson it has is accepted, whatever has become of its action.
SameLessonIsSaved ==
    \A t \in Trades :
        Exists(work.actions[t]) /\ Timely(work.actions[t]) =>
            Encodes(Reviewed(work, t, work.actions[t].text))
================================================================================
