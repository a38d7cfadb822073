--------------------------------- MODULE MCEdge ---------------------------------
(***************************************************************************)
(* The archive of one job, the pages of one dataset, or the requests of one *)
(* user: where says which in a behaviour; they share nothing here.         *)
(***************************************************************************)
EXTENDS ArchiveJobs, ProviderPages, TenantWrites, TLC

VARIABLE where

edgeVars == <<archiveVars, pageVars, writeVars, where>>

MCFileOf == [u1 |-> <<{<<"e1", "x">>}, {<<"e2", "x">>}>>,
             u2 |-> <<{<<"e1", "x">>, <<"e2", "x">>}, {<<"e1", "y">>}>>]
MCPageRows == {<<"e1", "y">>}

MCJobsOf == [fills |-> 1, orders |-> 2, income |-> 1, force_orders |-> 1]

MCKindOf == [review1 |-> "review", review2 |-> "review", review3 |-> "review",
             action1 |-> "action", action2 |-> "action",
             journal1 |-> "journal", journal2 |-> "journal", risk1 |-> "risk", risk2 |-> "risk",
             report1 |-> "report", report2 |-> "report", create1 |-> "create",
             rotate1 |-> "rotate", rotate2 |-> "rotate", disconnect1 |-> "disconnect",
             sync1 |-> "sync"]
MCWishes == DOMAIN MCKindOf
\* Two reviews have the same lesson; texts only matter where a lesson meets an action.
MCTextOf == [w \in MCWishes |-> CASE w \in {"review1", "review2"} -> "wait"
                                  [] w = "review3" -> "size"
                                  [] w = "action1" -> "mine"
                                  [] OTHER -> NoValue]
MCChosen == {{"review1", "review2", "action1"}, {"review1", "review3", "action1"},
             {"review1", "action1", "action2"}, {"journal1", "journal2", "risk1"},
             {"risk1", "risk2"}, {"report1", "report2", "journal1"},
             {"create1", "rotate1", "disconnect1"}, {"create1", "rotate1", "sync1"},
             {"rotate1", "rotate2", "sync1"}, {"disconnect1", "sync1"}}

\* Where the modules that are not meant stay.
ArchiveWaits == /\ owner = [status |-> "ACTIVE", current |-> TRUE]
                /\ archiveJob = NewJob
                /\ archive = [u \in Urls |-> NoArchive]
                /\ claimOf = [r \in ArchiveRuns |-> "expired"]
                /\ event = [i \in Ids |-> Unwritten]
ArchiveRest == /\ worker = [w \in Workers |-> Idle]
               /\ staged = [u \in Urls |-> {}]
               /\ finalizing = NoFinalize
               /\ page = Nothing
               /\ registered = {}
PagesWait == PagesInit /\ dataset = "fills"
WritesWait == WritesInit /\ wish["disconnect1"].step # "never" /\ wish["create1"].step = "never"

\* A new job whose first event a page has brought already, and one run of the workflow.
ArchiveStarts == /\ owner = [status |-> "ACTIVE", current |-> TRUE]
                 /\ archiveJob = NewJob
                 /\ archive = [u \in Urls |-> NoArchive]
                 /\ \E r \in ArchiveRuns :
                        claimOf = [q \in ArchiveRuns |-> IF q = r THEN "valid" ELSE "expired"]
                 /\ event = [i \in Ids |-> IF i = "e1" THEN Written("y", "page") ELSE Unwritten]
\* Two links staged before the connection was revoked, and two runs.
LinksWait == /\ owner = [status |-> "REVOKED", current |-> TRUE]
             /\ archiveJob = [NewJob EXCEPT !.status = "STAGED"]
             /\ archive = [u \in Urls |-> [NoArchive EXCEPT !.status = "PENDING"]]
             /\ claimOf = [r \in ArchiveRuns |-> "valid"]
             /\ event = [i \in Ids |-> Unwritten]

Init ==
    /\ where \in {"archive", "pages", "writes"}
    /\ ArchiveRest
    /\ IF where = "archive" THEN ArchiveStarts \/ LinksWait ELSE ArchiveWaits
    /\ IF where = "pages" THEN PagesInit ELSE PagesWait
    /\ IF where = "writes" THEN WritesInit ELSE WritesWait

Next ==
    \/ where = "archive" /\ ArchiveNext /\ UNCHANGED <<pageVars, writeVars, where>>
    \/ where = "pages" /\ PagesNext /\ UNCHANGED <<archiveVars, writeVars, where>>
    \/ where = "writes" /\ WritesNext /\ UNCHANGED <<archiveVars, pageVars, where>>

Spec == Init /\ [][Next]_edgeVars

\* The invocations of the three functions are the same two values.
Symmetry == Permutations(Workers) \cup Permutations(ArchiveRuns)
================================================================================
