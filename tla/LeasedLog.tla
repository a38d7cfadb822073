------------------------------ MODULE LeasedLog ------------------------------
(***************************************************************************)
(* What the sync queue promises to the rest of the data plane, without     *)
(* tokens, versions, retries or time: a set of page logs that share one    *)
(* lease.  A log grows by one page at a time, only while its job holds the *)
(* lease, the page gives the lease back, and a closed log stays as it is.  *)
(***************************************************************************)
EXTENDS Integers, FiniteSets

CONSTANT Jobs

VARIABLES
  holders,   \* the jobs that hold the lease: none or one
  outside,   \* somebody who is not a job holds it
  log,       \* the number of pages of each job
  phase      \* "absent", "open" or "closed"

vars == <<holders, outside, log, phase>>

Init ==
  /\ holders = {}
  /\ outside = FALSE
  /\ log = [j \in Jobs |-> 0]
  /\ phase = [j \in Jobs |-> "absent"]

Free == holders = {} /\ ~outside

\* New jobs.
Open(S) ==
  /\ \A j \in S : phase[j] = "absent"
  /\ phase' = [j \in Jobs |-> IF j \in S THEN "open" ELSE phase[j]]
  /\ UNCHANGED <<holders, outside, log>>

Grant(j) ==
  /\ Free
  /\ phase[j] = "open"
  /\ holders' = {j}
  /\ UNCHANGED <<outside, log, phase>>

GrantOutside ==
  /\ Free
  /\ outside' = TRUE
  /\ UNCHANGED <<holders, log, phase>>

\* The holder adds a page and may close its log with it.
Append(j) ==
  /\ j \in holders
  /\ holders' = {}
  /\ log' = [log EXCEPT ![j] = @ + 1]
  /\ \E p \in {"open", "closed"} : phase' = [phase EXCEPT ![j] = p]
  /\ UNCHANGED outside

\* The holder reports that it has no page, or is late.
GiveUp(j) ==
  /\ j \in holders
  /\ holders' = {}
  /\ \E p \in {"open", "closed"} : phase' = [phase EXCEPT ![j] = p]
  /\ UNCHANGED <<outside, log>>

GiveUpOutside ==
  /\ outside
  /\ outside' = FALSE
  /\ UNCHANGED <<holders, log, phase>>

\* Open jobs are cancelled; whoever of them held the lease loses it, and an
\* outside holder may be cancelled with them.
Cancel(S) ==
  /\ \A j \in S : phase[j] = "open"
  /\ phase' = [j \in Jobs |-> IF j \in S THEN "closed" ELSE phase[j]]
  /\ holders' = holders \ S
  /\ outside' \in {outside, FALSE}
  /\ UNCHANGED log

Next ==
  \/ \E S \in SUBSET Jobs : Open(S) \/ Cancel(S)
  \/ \E j \in Jobs : Grant(j) \/ Append(j) \/ GiveUp(j)
  \/ GrantOutside
  \/ GiveUpOutside

Spec == Init /\ [][Next]_vars

=============================================================================
