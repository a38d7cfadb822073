---------------------------- MODULE DeletionProofs ----------------------------
(***************************************************************************)
(* Deletions, for any items, requests, retries, late calls and moves: what *)
(* disappears is covered by a request whose row is not complete.           *)
(*                                                                         *)
(* The invariant follows a receipt.  Whoever holds one is about the same   *)
(* operation, its intent is of that operation and recent, and there is one *)
(* recent intent for an operation.  So once a row of that operation is     *)
(* complete, the one intent that a call could still execute is executed.   *)
(*                                                                         *)
(* The last section carries along what a row covers, and shows that a      *)
(* completed row has none of it left, provided that no row is pruned under *)
(* a call that works for it.                                               *)
(***************************************************************************)
EXTENDS AccountDeletion, SequenceTheorems, TLAPS

ACapability == [operation : Operations, workspace : Workspaces \cup {None}]
ARow == [status : {"none", "pending", "deleting", "completed"}, receipt : Calls \cup {0},
         live : BOOLEAN, scope : SUBSET (Items \cup {None})]
AnIntent == [operation : Operations \cup {"none"},
             state : {"none", "PENDING", "JOURNALED", "DELETED"}, recent : BOOLEAN]
Steps == {"begin", "lookup", "exists", "workspace", "prepare", "append", "attest", "execute",
          "business", "deleting", "identity", "complete"}
Answers == {"none", "pending", "deleting", "completed", "404", "410", "failed"}
ACall == [kind : {"none", "delete", "status", "over"}, req : Requests \cup {None},
          todo : Seq(Steps), at : {"none", "running", "answered"}, answer : Answers,
          status : Answers, receipt : Calls \cup {0}, heard : BOOLEAN]

DeletionTypeOK ==
    /\ rows \in [Requests -> ARow]
    /\ intents \in [Calls -> AnIntent]
    /\ store \in SUBSET Items /\ auth \in BOOLEAN /\ removed \in BOOLEAN
    /\ capability \in [Requests -> ACapability \cup {None}]
    /\ recovery \in [Operations -> Requests \cup {None}]
    /\ file \in Requests \cup {None}
    /\ asked \in SUBSET Requests
    /\ call \in [Calls -> ACall]

\* What is stored, sent or on the server has a capability of its operation.
CapabilitiesStand ==
    /\ \A o \in Operations : recovery[o] # None =>
          capability[recovery[o]] # None /\ capability[recovery[o]].operation = o
    /\ file # None => capability[file] # None /\ capability[file].operation = "delete_account"
    /\ \A r \in asked : capability[r] # None
    /\ \A r \in Requests : rows[r] # NoRow => r \in asked /\ rows[r].receipt \in Calls
    /\ \A c \in Calls : Running(c) => call[c].req \in Requests /\ capability[call[c].req] # None

\* The order in which a call works.
StepsOf(o) ==
    CASE o = "delete_workspace" -> {"begin", "lookup", "workspace"}
      [] o = "clear_business_data" ->
           {"begin", "lookup", "prepare", "append", "attest", "execute", "business"}
      [] OTHER ->
           {"begin", "lookup", "exists", "prepare", "append", "attest", "execute", "deleting",
            "identity", "complete"}
Follows ==
    {<<"prepare", "append">>, <<"append", "attest">>, <<"attest", "execute">>,
     <<"execute", "business">>, <<"execute", "deleting">>, <<"execute", "complete">>,
     <<"deleting", "identity">>, <<"identity", "complete">>}

OrderOf(o, s) ==
    /\ \A k \in 1..Len(s) : s[k] \in StepsOf(o)
    /\ \A k \in 1..Len(s) : k + 1 <= Len(s) => <<s[k], s[k + 1]>> \in Follows
\* Nothing but the end of the identity lets a call complete the row.
CompletesGone(s, gone) ==
    \A k \in 1..Len(s) : s[k] = "complete" => (k > 1 /\ s[k - 1] = "identity") \/ gone

\* What the steps before the next one have left.
Stands(intent, step) ==
    CASE step \in {"append", "attest"} -> intent.state # "none"
      [] step = "execute" -> intent.state \in {"JOURNALED", "DELETED"}
      [] step \in {"business", "deleting", "identity", "complete"} -> intent.state = "DELETED"
      [] OTHER -> TRUE

First(c) == Doing(c, "begin") \/ Doing(c, "lookup")
CallOf(c) ==
    Running(c) =>
        /\ call[c].kind # "none"
        /\ OrderOf(OperationOf(c), call[c].todo)
        /\ CompletesGone(call[c].todo, ~auth)
        /\ First(c) => call[c].receipt = 0 /\ (Doing(c, "begin") => call[c].req \in asked)
        /\ ~First(c) => call[c].receipt \in Calls /\ call[c].req \in asked
        /\ call[c].todo # <<>> => Stands(intents[call[c].receipt], Next_(c))

\* A call that is being prepared, or is still to be sent, has given no receipt.
Begun(n) == call[n].kind # "none" /\ ~Doing(n, "begin")

\* Who holds receipt n for operation o.
RowHolds(n, o) ==
    \E r \in Requests : rows[r].receipt = n /\ capability[r].operation = o
CallHolds(n, o) ==
    \E c \in Calls : Running(c) /\ call[c].receipt = n /\ OperationOf(c) = o
Holder(n, o) == RowHolds(n, o) \/ CallHolds(n, o)

ReceiptOf(n) ==
    /\ \A o \in Operations : Holder(n, o) =>
          /\ Begun(n)
          /\ \A p \in Operations : Holder(n, p) => o = p
          /\ intents[n].state # "none" => intents[n].operation = o /\ intents[n].recent
    /\ intents[n].state = "none" => intents[n] = NoIntent
    /\ intents[n].state # "none" => Begun(n) /\ intents[n].operation \in Operations

OneRecent ==
    \A n, m \in Calls : intents[n].recent /\ intents[m].recent
        /\ intents[n].operation = intents[m].operation => n = m

\* A complete row of a journaled deletion had an intent executed.
CompletedExecuted ==
    \A r \in Requests : rows[r].status = "completed" =>
        /\ capability[r].operation # "delete_workspace" =>
             \E m \in Calls : /\ intents[m].operation = capability[r].operation
                              /\ intents[m].recent /\ intents[m].state = "DELETED"
        /\ capability[r].operation = "delete_account" => ~auth

IdentityStays ==
    /\ removed => ~auth
    /\ ~auth => store \cap Workspaces = {}

DeletionInv ==
    /\ DeletionTypeOK /\ CapabilitiesStand
    /\ (\A c \in Calls : CallOf(c)) /\ (\A n \in Calls : ReceiptOf(n))
    /\ OneRecent /\ CompletedExecuted /\ IdentityStays

----------------------------------------------------------------------------
(* The order of steps *)

\* What may come after the journal's steps.
LEMMA AfterJournal ==
  ASSUME NEW o \in Operations, o # "delete_workspace", NEW X \in Seq(Steps), OrderOf(o, X),
         NEW gone \in BOOLEAN, CompletesGone(X, gone),
         X # <<>> => X[1] \in {"business", "deleting", "complete"}
  PROVE  LET s == Journaled \o X
         IN  /\ s \in Seq(Steps) /\ OrderOf(o, s) /\ CompletesGone(s, gone)
             /\ s # <<>> /\ Head(s) = "prepare"
<1> DEFINE s == Journaled \o X
<1>1. /\ Journaled \in Seq(Steps) /\ Len(Journaled) = 4
      /\ Journaled[1] = "prepare" /\ Journaled[2] = "append" /\ Journaled[3] = "attest"
      /\ Journaled[4] = "execute"
  BY DEF Journaled, Steps
<1>2. s \in Seq(Steps) /\ Len(s) = 4 + Len(X) /\ Len(X) \in Nat
  <2>1. s \in Seq(Steps) /\ Len(s) = Len(Journaled) + Len(X)
    BY <1>1, ConcatProperties, Zenon
  <2>2. Len(X) \in Nat
    BY LenProperties
  <2> QED BY <2>1, <2>2, <1>1
<1>3. \A k \in 1..Len(s) : s[k] = IF k <= 4 THEN Journaled[k] ELSE X[k - 4]
  BY <1>1, <1>2, ConcatProperties
<1>4. /\ s[1] = "prepare" /\ s[2] = "append" /\ s[3] = "attest" /\ s[4] = "execute"
      /\ \A k \in 1..Len(s) : k > 4 => s[k] = X[k - 4] /\ k - 4 \in 1..Len(X)
  BY <1>1, <1>2, <1>3
<1>5. s # <<>> /\ Head(s) = "prepare"
  BY <1>2, <1>4
<1> HIDE DEF s
<1>6. {"prepare", "append", "attest", "execute"} \subseteq StepsOf(o)
  BY DEF StepsOf, Operations
<1>7. \A k \in 1..Len(s) : s[k] \in StepsOf(o)
  <2> SUFFICES ASSUME NEW k \in 1..Len(s) PROVE s[k] \in StepsOf(o)
    OBVIOUS
  <2>1. k = 1 \/ k = 2 \/ k = 3 \/ k = 4 \/ k > 4
    BY <1>2
  <2> QED BY <2>1, <1>4, <1>6 DEF OrderOf
<1>8. \A k \in 1..Len(s) : k + 1 <= Len(s) => <<s[k], s[k + 1]>> \in Follows
  <2> SUFFICES ASSUME NEW k \in 1..Len(s), k + 1 <= Len(s)
               PROVE  <<s[k], s[k + 1]>> \in Follows
    OBVIOUS
  <2>1. CASE k \in {1, 2, 3}
    BY <2>1, <1>4 DEF Follows
  <2>2. CASE k = 4
    <3>1. s[5] = X[1] /\ X # <<>>
      BY <2>2, <1>2, <1>4
    <3> QED BY <3>1, <2>2, <1>4 DEF Follows
  <2>3. CASE k > 4
    <3>1. s[k] = X[k - 4] /\ s[k + 1] = X[(k - 4) + 1] /\ k - 4 \in 1..Len(X)
          /\ (k - 4) + 1 <= Len(X)
      BY <2>3, <1>2, <1>4
    <3> QED BY <3>1 DEF OrderOf
  <2> QED BY <2>1, <2>2, <2>3, <1>2
<1>9. CompletesGone(s, gone)
  <2> SUFFICES ASSUME NEW k \in 1..Len(s), s[k] = "complete"
               PROVE  (k > 1 /\ s[k - 1] = "identity") \/ gone
    BY DEF CompletesGone
  <2>1. k > 4
    BY <1>2, <1>4
  <2>2. s[k] = X[k - 4] /\ k - 4 \in 1..Len(X)
    BY <2>1, <1>4
  <2>3. (k - 4 > 1 /\ X[(k - 4) - 1] = "identity") \/ gone
    BY <2>2 DEF CompletesGone
  <2>4. k - 4 > 1 => s[k - 1] = X[(k - 4) - 1]
    BY <2>1, <1>2, <1>4
  <2> QED BY <2>1, <2>3, <2>4
<1> QED BY <1>2, <1>5, <1>7, <1>8, <1>9 DEF OrderOf, s

\* The last steps of a deletion.
LEMMA LastSteps ==
  /\ \A o \in Operations :
        <<>> \in Seq(Steps) /\ OrderOf(o, <<>>) /\ CompletesGone(<<>>, FALSE)
  /\ <<"business">> \in Seq(Steps) /\ OrderOf("clear_business_data", <<"business">>)
  /\ CompletesGone(<<"business">>, FALSE)
  /\ <<"workspace">> \in Seq(Steps) /\ OrderOf("delete_workspace", <<"workspace">>)
  /\ CompletesGone(<<"workspace">>, FALSE)
  /\ <<"complete">> \in Seq(Steps) /\ OrderOf("delete_account", <<"complete">>)
  /\ CompletesGone(<<"complete">>, TRUE)
  /\ <<"deleting", "identity", "complete">> \in Seq(Steps)
  /\ OrderOf("delete_account", <<"deleting", "identity", "complete">>)
  /\ CompletesGone(<<"deleting", "identity", "complete">>, FALSE)
<1>1. \A o \in Operations : <<>> \in Seq(Steps) /\ OrderOf(o, <<>>) /\ CompletesGone(<<>>, FALSE)
  BY DEF OrderOf, CompletesGone
<1>2. /\ <<"business">> \in Seq(Steps) /\ OrderOf("clear_business_data", <<"business">>)
      /\ CompletesGone(<<"business">>, FALSE)
  BY DEF OrderOf, CompletesGone, StepsOf, Steps
<1>3. /\ <<"workspace">> \in Seq(Steps) /\ OrderOf("delete_workspace", <<"workspace">>)
      /\ CompletesGone(<<"workspace">>, FALSE)
  BY DEF OrderOf, CompletesGone, StepsOf, Steps
<1>4. /\ <<"complete">> \in Seq(Steps) /\ OrderOf("delete_account", <<"complete">>)
      /\ CompletesGone(<<"complete">>, TRUE)
  BY DEF OrderOf, CompletesGone, StepsOf, Steps
<1>5. /\ <<"deleting", "identity", "complete">> \in Seq(Steps)
      /\ OrderOf("delete_account", <<"deleting", "identity", "complete">>)
      /\ CompletesGone(<<"deleting", "identity", "complete">>, FALSE)
  <2> DEFINE s == <<"deleting", "identity", "complete">>
  <2>1. s \in Seq(Steps) /\ Len(s) = 3 /\ s[1] = "deleting" /\ s[2] = "identity" /\ s[3] = "complete"
    BY DEF Steps
  <2>2. {"deleting", "identity", "complete"} \subseteq StepsOf("delete_account")
    BY DEF StepsOf
  <2>3. <<"deleting", "identity">> \in Follows /\ <<"identity", "complete">> \in Follows
    BY DEF Follows
  <2> HIDE DEF s
  <2>4. \A k \in 1..Len(s) : k = 1 \/ k = 2 \/ k = 3
    BY <2>1
  <2>5. OrderOf("delete_account", s)
    BY <2>1, <2>2, <2>3, <2>4 DEF OrderOf
  <2>6. CompletesGone(s, FALSE)
    BY <2>1, <2>4 DEF CompletesGone
  <2> QED BY <2>1, <2>5, <2>6 DEF s
<1> QED BY <1>1, <1>2, <1>3, <1>4, <1>5

\* What a call has left to do after its row was read.
LEMMA Chains ==
  ASSUME NEW o \in Operations, NEW status
  PROVE  LET s == Chain(o, status)
         IN  /\ s \in Seq(Steps) /\ OrderOf(o, s) /\ CompletesGone(s, FALSE)
             /\ s # <<>> => Head(s) \in {"prepare", "workspace"}
<1>1. CASE o = "delete_workspace"
  <2>1. Chain(o, status) \in {<<>>, <<"workspace">>}
    BY <1>1 DEF Chain
  <2>2. CASE Chain(o, status) = <<>>
    BY <2>2, LastSteps
  <2>3. CASE Chain(o, status) = <<"workspace">>
    <3>1. Head(<<"workspace">>) = "workspace"
      OBVIOUS
    <3> QED BY <2>3, <3>1, <1>1, LastSteps
  <2> QED BY <2>1, <2>2, <2>3
<1>2. CASE o = "clear_business_data"
  <2>1. \E X \in {<<>>, <<"business">>} : Chain(o, status) = Journaled \o X
    BY <1>2 DEF Chain
  <2> QED BY <2>1, <1>2, LastSteps, AfterJournal
<1>3. CASE o = "delete_account"
  <2>1. \E X \in {<<>>, <<"deleting", "identity", "complete">>} :
          Chain(o, status) = Journaled \o X
    BY <1>3 DEF Chain
  <2> QED BY <2>1, <1>3, LastSteps, AfterJournal
<1> QED BY <1>1, <1>2, <1>3 DEF Operations

\* And after an identity was found gone.
LEMMA Resumes ==
  /\ Resumed \in Seq(Steps) /\ OrderOf("delete_account", Resumed) /\ CompletesGone(Resumed, TRUE)
  /\ Resumed # <<>> /\ Head(Resumed) = "prepare"
  BY LastSteps, AfterJournal DEF Resumed, Operations

\* What follows the next step.
LEMMA AfterNext ==
  ASSUME NEW o, NEW s \in Seq(Steps), s # <<>>, OrderOf(o, s),
         NEW gone \in BOOLEAN, NEW later \in BOOLEAN, CompletesGone(s, gone),
         gone \/ Head(s) = "identity" => later
  PROVE  /\ Tail(s) \in Seq(Steps) /\ OrderOf(o, Tail(s)) /\ CompletesGone(Tail(s), later)
         /\ Head(s) \in StepsOf(o)
         /\ Tail(s) # <<>> => /\ <<Head(s), Head(Tail(s))>> \in Follows
                              /\ Head(Tail(s)) \in StepsOf(o)
<1> DEFINE t == Tail(s)
<1>1. t \in Seq(Steps) /\ Len(t) = Len(s) - 1 /\ Len(s) \in Nat \ {0}
  OBVIOUS
<1>2. \A k \in 1..Len(t) : t[k] = s[k + 1] /\ k + 1 \in 1..Len(s)
  OBVIOUS
<1>3. Head(s) = s[1] /\ (t # <<>> => Head(t) = t[1] /\ Len(t) >= 1)
  OBVIOUS
<1> HIDE DEF t
<1>4. OrderOf(o, t)
  <2>1. \A k \in 1..Len(t) : t[k] \in StepsOf(o)
    BY <1>2 DEF OrderOf
  <2>2. \A k \in 1..Len(t) : k + 1 <= Len(t) => <<t[k], t[k + 1]>> \in Follows
    <3> SUFFICES ASSUME NEW k \in 1..Len(t), k + 1 <= Len(t)
                 PROVE  <<t[k], t[k + 1]>> \in Follows
      OBVIOUS
    <3>1. t[k] = s[k + 1] /\ t[k + 1] = s[k + 2] /\ k + 1 \in 1..Len(s) /\ k + 2 <= Len(s)
      BY <1>1, <1>2
    <3>2. (k + 1) + 1 = k + 2
      BY <1>1
    <3> QED BY <3>1, <3>2 DEF OrderOf
  <2> QED BY <2>1, <2>2 DEF OrderOf
<1>5. CompletesGone(t, later)
  <2> SUFFICES ASSUME NEW k \in 1..Len(t), t[k] = "complete"
               PROVE  (k > 1 /\ t[k - 1] = "identity") \/ later
    BY DEF CompletesGone
  <2>1. s[k + 1] = "complete" /\ k + 1 \in 1..Len(s) /\ (k + 1) - 1 = k
    BY <1>1, <1>2
  <2>2. s[k] = "identity" \/ gone
    BY <2>1 DEF CompletesGone
  <2>3. CASE k = 1
    BY <2>2, <2>3, <1>3
  <2>4. CASE k > 1
    <3>1. t[k - 1] = s[k]
      BY <1>1, <1>2, <2>4
    <3> QED BY <3>1, <2>2, <2>4
  <2> QED BY <2>3, <2>4, <1>1
<1>6. Head(s) \in StepsOf(o)
  BY <1>1, <1>3 DEF OrderOf
<1>7. t # <<>> => <<Head(s), Head(t)>> \in Follows /\ Head(t) \in StepsOf(o)
  <2> SUFFICES ASSUME t # <<>>
               PROVE  <<Head(s), Head(t)>> \in Follows /\ Head(t) \in StepsOf(o)
    OBVIOUS
  <2>1. 1 + 1 <= Len(s) /\ 1 \in 1..Len(s) /\ 1 + 1 \in 1..Len(s)
    BY <1>1, <1>3
  <2>2. Head(t) = s[1 + 1]
    BY <1>1, <1>2, <1>3
  <2> QED BY <2>1, <2>2, <1>3 DEF OrderOf
<1> QED BY <1>1, <1>4, <1>5, <1>6, <1>7 DEF t

----------------------------------------------------------------------------
(* What every step keeps *)

\* Capabilities, requests sent and intents only grow, and no identity returns.
Growing ==
    /\ \A r \in Requests : capability[r] # None => capability'[r] = capability[r]
    /\ asked \subseteq asked'
    /\ auth' => auth
    /\ \A n \in Calls :
        /\ intents[n].state # "none" => intents'[n].state # "none"
        /\ intents[n].state \in {"JOURNALED", "DELETED"} => intents'[n].state \in {"JOURNALED", "DELETED"}
        /\ intents[n].state = "DELETED" => intents'[n].state = "DELETED"

\* A call that a step does not advance.
Same(c) ==
    /\ Running(c)' => /\ Running(c)
                      /\ call'[c].req = call[c].req /\ call'[c].todo = call[c].todo
                      /\ call'[c].receipt = call[c].receipt /\ call'[c].kind = call[c].kind
    /\ Begun(c) => Begun(c)'

\* A call that is sent.
Sending(c) ==
    /\ call[c].kind = "none" /\ call'[c].kind # "none"
    /\ call'[c].at = "running" /\ call'[c].receipt = 0
    /\ call'[c].todo \in {<<"begin">>, <<"lookup">>}
    /\ call'[c].todo = <<"begin">> => call'[c].req \in asked'
    /\ call'[c].req \in Requests /\ capability'[call'[c].req] # None

\* What a step leaves of an intent's place.
IntentKept(n) ==
    /\ intents'[n].operation = intents[n].operation /\ intents'[n].recent = intents[n].recent
    /\ intents[n].state = "none" => intents'[n] = intents[n]

\* The operation of a running call does not change.
LEMMA OperationKept ==
  ASSUME DeletionInv, Growing, NEW c \in Calls, Running(c), call'[c].req = call[c].req
  PROVE  OperationOf(c)' = OperationOf(c)
  BY DEF DeletionInv, CapabilitiesStand, Growing, OperationOf

\* A call that is left alone stands where it stood.
LEMMA CallStays ==
  ASSUME DeletionInv, DeletionTypeOK', Growing, NEW c \in Calls, Same(c)
  PROVE  CallOf(c)' /\ (Running(c)' => call'[c].req \in Requests /\ capability'[call'[c].req] # None)
<1> SUFFICES ASSUME Running(c)'
             PROVE  CallOf(c)' /\ call'[c].req \in Requests /\ capability'[call'[c].req] # None
  BY DEF CallOf
<1>1. /\ Running(c) /\ call'[c].req = call[c].req /\ call'[c].todo = call[c].todo
      /\ call'[c].receipt = call[c].receipt /\ call'[c].kind = call[c].kind
  BY DEF Same
<1>2. OperationOf(c)' = OperationOf(c)
  BY <1>1, OperationKept
<1>3. call[c].req \in Requests /\ capability[call[c].req] # None
  BY <1>1 DEF DeletionInv, CapabilitiesStand
<1>4. (First(c)' <=> First(c)) /\ (Doing(c, "begin")' <=> Doing(c, "begin"))
  BY <1>1 DEF First, Doing, Running, Next_
<1>5. CallOf(c)
  BY DEF DeletionInv
<1>6. CompletesGone(call[c].todo, ~auth')
  <2>1. CompletesGone(call[c].todo, ~auth)
    BY <1>1, <1>5 DEF CallOf
  <2> QED BY <2>1 DEF CompletesGone, Growing
<1>7. call[c].todo # <<>> => Stands(intents[call[c].receipt], Next_(c))'
  <2> SUFFICES ASSUME call[c].todo # <<>> PROVE Stands(intents[call[c].receipt], Next_(c))'
    OBVIOUS
  <2>1. Stands(intents[call[c].receipt], Next_(c)) /\ Next_(c)' = Next_(c)
    BY <1>1, <1>5 DEF CallOf, Next_
  <2>2. First(c) => Next_(c) \in {"begin", "lookup"}
    BY DEF First, Doing
  <2>3. ~First(c) => call[c].receipt \in Calls
    BY <1>1, <1>5 DEF CallOf
  <2> QED BY <1>1, <2>1, <2>2, <2>3 DEF Stands, Growing
<1>8. OrderOf(OperationOf(c), call[c].todo)'
  BY <1>1, <1>2, <1>5 DEF CallOf, OrderOf
<1>9. CallOf(c)'
  BY <1>1, <1>4, <1>5, <1>6, <1>7, <1>8 DEF CallOf, Growing
<1> QED BY <1>1, <1>3, <1>9 DEF Growing

\* A call that is sent has everything ahead.
LEMMA CallSent ==
  ASSUME DeletionTypeOK', NEW c \in Calls, Sending(c)
  PROVE  CallOf(c)' /\ call'[c].req \in Requests /\ capability'[call'[c].req] # None
<1>1. OperationOf(c)' \in Operations
  BY DEF Sending, OperationOf, DeletionTypeOK, ACapability
<1>2. \A o \in Operations, s \in {<<"begin">>, <<"lookup">>} : 
        OrderOf(o, s) /\ CompletesGone(s, FALSE) /\ s # <<>> /\ Head(s) \in {"begin", "lookup"}
  BY DEF OrderOf, CompletesGone, StepsOf, Operations
<1>3. First(c)' /\ (Doing(c, "begin")' => call'[c].req \in asked')
  <2>1. Head(<<"begin">>) = "begin" /\ Head(<<"lookup">>) = "lookup" /\ <<"begin">> # <<>> /\ <<"lookup">> # <<>>
    OBVIOUS
  <2> QED BY <2>1 DEF Sending, First, Doing, Running, Next_
<1>4. OrderOf(OperationOf(c), call[c].todo)' /\ CompletesGone(call'[c].todo, ~auth')
  BY <1>1, <1>2 DEF Sending, OrderOf, CompletesGone
<1>5. Stands(intents[call[c].receipt], Next_(c))'
  BY <1>2 DEF Sending, Stands, Next_
<1> QED BY <1>3, <1>4, <1>5 DEF Sending, CallOf

\* Whoever held no receipt before holds none of it now.
LEMMA ReceiptStays ==
  ASSUME DeletionInv, Growing, NEW n \in Calls, IntentKept(n), Begun(n) => Begun(n)',
         \A o \in Operations : Holder(n, o)' => Holder(n, o)
  PROVE  ReceiptOf(n)'
<1>1. ReceiptOf(n)
  BY DEF DeletionInv
<1>2. /\ intents'[n].operation = intents[n].operation /\ intents'[n].recent = intents[n].recent
      /\ intents[n].state = "none" => intents'[n] = intents[n]
      /\ intents[n].state # "none" => intents'[n].state # "none"
  BY DEF IntentKept, Growing
<1> QED BY <1>1, <1>2 DEF ReceiptOf

\* A receipt that a row holds is held for the operation of its request.
LEMMA RowHoldsStays ==
  ASSUME DeletionInv, Growing, NEW n \in Calls, NEW o \in Operations,
         \A r \in Requests : rows'[r].receipt = n => rows[r].receipt = n,
         RowHolds(n, o)'
  PROVE  RowHolds(n, o)
<1>1. PICK r \in Requests : rows'[r].receipt = n /\ capability'[r].operation = o
  BY DEF RowHolds
<1>2. rows[r].receipt = n /\ n # 0
  BY <1>1 DEF Calls
<1>3. rows[r] # NoRow
  BY <1>2 DEF NoRow
<1>4. capability[r] # None
  BY <1>3 DEF DeletionInv, CapabilitiesStand
<1> QED BY <1>1, <1>2, <1>4 DEF RowHolds, Growing

\* And one that a call held already.
LEMMA CallHoldsStays ==
  ASSUME DeletionInv, Growing, NEW n \in Calls, NEW o \in Operations, NEW c \in Calls,
         Running(c)', call'[c].receipt = n, OperationOf(c)' = o,
         Running(c), call[c].req = call'[c].req, call[c].receipt = n
  PROVE  CallHolds(n, o)
  BY OperationKept DEF CallHolds

\* Steps that leave rows, intents and the identity alone.
QuietStep ==
    /\ DeletionTypeOK' /\ Growing
    /\ UNCHANGED <<rows, intents, auth, removed>>
    /\ ~auth => store' \cap Workspaces = {}
    /\ \A o \in Operations : recovery'[o] # None =>
          capability'[recovery'[o]] # None /\ capability'[recovery'[o]].operation = o
    /\ file' # None => capability'[file'] # None /\ capability'[file'].operation = "delete_account"
    /\ \A r \in asked' : capability'[r] # None
    /\ \A c \in Calls : Same(c) \/ Sending(c)

LEMMA Quiet ==
  ASSUME DeletionInv, QuietStep
  PROVE  DeletionInv'
<1>1. \A c \in Calls : CallOf(c)' /\ (Running(c)' => call'[c].req \in Requests /\ capability'[call'[c].req] # None)
  BY CallStays, CallSent DEF QuietStep
<1>2. CapabilitiesStand'
  BY <1>1 DEF QuietStep, CapabilitiesStand, DeletionInv, Growing
<1>3. \A n \in Calls : ReceiptOf(n)'
  <2> SUFFICES ASSUME NEW n \in Calls PROVE ReceiptOf(n)'
    OBVIOUS
  <2>1. IntentKept(n)
    BY DEF QuietStep, IntentKept
  <2>2. Begun(n) => Begun(n)'
    BY DEF QuietStep, Same, Sending, Begun
  <2>3. ASSUME NEW o \in Operations, Holder(n, o)' PROVE Holder(n, o)
    <3>1. CASE RowHolds(n, o)'
      BY <3>1, RowHoldsStays DEF QuietStep, Holder
    <3>2. CASE CallHolds(n, o)'
      <4>1. PICK c \in Calls : Running(c)' /\ call'[c].receipt = n /\ OperationOf(c)' = o
        BY <3>2 DEF CallHolds
      <4>2. Same(c)
        BY <4>1 DEF QuietStep, Sending, Calls
      <4> QED BY <4>1, <4>2, CallHoldsStays DEF Same, QuietStep, Holder
    <3> QED BY <2>3, <3>1, <3>2 DEF Holder
  <2> QED BY <2>1, <2>2, <2>3, ReceiptStays DEF QuietStep
<1>4. OneRecent'
  BY DEF DeletionInv, OneRecent, QuietStep
<1>5. CompletedExecuted'
  <2> SUFFICES ASSUME NEW r \in Requests, rows'[r].status = "completed"
               PROVE  /\ capability'[r].operation # "delete_workspace" =>
                           \E m \in Calls : /\ intents'[m].operation = capability'[r].operation
                                            /\ intents'[m].recent /\ intents'[m].state = "DELETED"
                      /\ capability'[r].operation = "delete_account" => ~auth'
    BY DEF CompletedExecuted
  <2>1. rows[r].status = "completed" /\ rows[r] # NoRow
    BY DEF QuietStep, NoRow
  <2>2. capability'[r] = capability[r]
    BY <2>1 DEF DeletionInv, CapabilitiesStand, QuietStep, Growing
  <2> QED BY <2>1, <2>2 DEF DeletionInv, CompletedExecuted, QuietStep
<1>6. IdentityStays'
  BY DEF DeletionInv, IdentityStays, QuietStep
<1> QED BY <1>1, <1>2, <1>3, <1>4, <1>5, <1>6 DEF DeletionInv, QuietStep

----------------------------------------------------------------------------
(* The browser, and answers *)

\* NoCall and a call that is over are calls.
LEMMA OverRecords ==
  NoCall \in ACall /\ Over \in ACall /\ Over.kind = "over" /\ Over.at = "none"
<1>1. <<>> \in Seq(Steps)
  OBVIOUS
<1> QED BY <1>1 DEF NoCall, Over, ACall, Answers

\* So is one that is sent.
LEMMA SentRecords ==
  ASSUME NEW k \in {"delete", "status"}, NEW r \in Requests, NEW first \in {"begin", "lookup"}
  PROVE  [NoCall EXCEPT !.kind = k, !.req = r, !.todo = <<first>>, !.at = "running",
                        !.heard = TRUE] \in ACall
<1>1. <<first>> \in Seq(Steps)
  BY DEF Steps
<1> QED BY <1>1 DEF NoCall, ACall, Answers

\* A call that is answered is no longer running.
LEMMA Replying ==
  ASSUME DeletionTypeOK, NEW c \in Calls, Running(c), NEW answer \in Answers,
         call' = Replied(c, answer)
  PROVE  call' \in [Calls -> ACall] /\ \A d \in Calls : Same(d)
<1>1. call[c] \in ACall /\ <<>> \in Seq(Steps) /\ Over \in ACall /\ Over.kind = "over" /\ Over.at = "none"
  BY OverRecords DEF DeletionTypeOK
<1>2. CASE call[c].heard /\ answer # "failed"
  <2>1. call' = [call EXCEPT ![c] = [call[c] EXCEPT !.at = "answered", !.todo = <<>>,
                                                    !.status = "none", !.answer = answer]]
    BY <1>2 DEF Replied
  <2>2. [call[c] EXCEPT !.at = "answered", !.todo = <<>>, !.status = "none", !.answer = answer] \in ACall
    BY <1>1 DEF ACall, Answers
  <2>3. call' \in [Calls -> ACall]
    BY <2>1, <2>2 DEF DeletionTypeOK
  <2>4. call'[c].at = "answered" /\ call'[c].kind = call[c].kind
    BY <2>1, <1>1 DEF DeletionTypeOK, ACall
  <2>5. \A d \in Calls : d # c => call'[d] = call[d]
    BY <2>1 DEF DeletionTypeOK
  <2> QED BY <2>3, <2>4, <2>5 DEF Same, Running, Begun, Doing, Next_
<1>3. CASE ~(call[c].heard /\ answer # "failed")
  <2>1. call' = [call EXCEPT ![c] = Over]
    BY <1>3 DEF Replied
  <2>2. call' \in [Calls -> ACall] /\ call'[c] = Over /\ \A d \in Calls : d # c => call'[d] = call[d]
    BY <2>1, <1>1 DEF DeletionTypeOK
  <2> QED BY <2>2, <1>1 DEF Same, Running, Begun, Doing, Next_
<1> QED BY <1>2, <1>3

\* A refusal, a failure and an answer change nothing else.
LEMMA Refusing ==
  ASSUME DeletionInv, NEW c \in Calls, Running(c), NEW answer \in Answers, Refuse(c, answer)
  PROVE  DeletionInv'
<1>1. call' \in [Calls -> ACall] /\ \A d \in Calls : Same(d)
  BY Replying DEF Refuse, DeletionInv
<1>2. UNCHANGED <<rows, intents, store, auth, removed, capability, recovery, file, asked>>
  BY DEF Refuse, ServerUnchanged, server, database, browser
<1>3. QuietStep
  <2>1. DeletionTypeOK'
    BY <1>1, <1>2 DEF DeletionTypeOK, DeletionInv
  <2>2. Growing
    BY <1>2 DEF Growing
  <2> QED BY <1>1, <1>2, <2>1, <2>2 DEF QuietStep, DeletionInv, CapabilitiesStand, IdentityStays
<1> QED BY <1>3, Quiet

\* A call that is sent.
LEMMA Sends ==
  ASSUME DeletionTypeOK, NEW c \in Calls, May(c), NEW r \in Requests, capability'[r] # None,
         NEW k \in {"delete", "status"}, NEW first \in {"begin", "lookup"}, Sent(c, k, r, first),
         first = "begin" => r \in asked'
  PROVE  call' \in [Calls -> ACall] /\ \A d \in Calls : Same(d) \/ Sending(d)
<1> DEFINE new == [NoCall EXCEPT !.kind = k, !.req = r, !.todo = <<first>>, !.at = "running",
                                 !.heard = TRUE]
<1>1. new \in ACall
  BY SentRecords
<1>2. /\ new.kind = k /\ new.req = r /\ new.todo = <<first>> /\ new.at = "running"
      /\ new.receipt = 0
  BY DEF NoCall
<1>3. call' = [call EXCEPT ![c] = new]
  BY DEF Sent
<1> HIDE DEF new
<1>4. call' \in [Calls -> ACall] /\ call'[c] = new /\ \A d \in Calls : d # c => call'[d] = call[d]
  BY <1>1, <1>3 DEF DeletionTypeOK
<1>5. Sending(c)
  <2>1. <<first>> = <<"begin">> => first = "begin"
    OBVIOUS
  <2> QED BY <1>2, <1>4, <2>1 DEF Sending, May
<1>6. \A d \in Calls : d # c => Same(d)
  BY <1>4 DEF Same, Running, Begun, Doing, Next_
<1> QED BY <1>4, <1>5, <1>6

\* A request for a deletion of data.
LEMMA DeleteDataInv ==
  ASSUME DeletionInv, NEW c \in Calls, DeleteData(c)
  PROVE  DeletionInv'
<1>1. PICK o \in {"delete_workspace", "clear_business_data"},
           w \in Workspaces \cup {None}, r \in Requests :
         /\ \/ /\ recovery[o] = None /\ Fresh(r)
               /\ capability' = [capability EXCEPT ![r] = Capability(o, w)]
            \/ /\ recovery[o] = r /\ capability[r].workspace = w
               /\ UNCHANGED capability
         /\ recovery' = [recovery EXCEPT ![o] = r]
         /\ asked' = asked \cup {r}
         /\ Sent(c, "delete", r, "begin")
  BY DEF DeleteData
<1>2. May(c) /\ UNCHANGED <<rows, intents, store, auth, removed, file>>
  BY DEF DeleteData, server, database
<1>3. None \notin ACapability /\ None \notin Requests /\ o \in Operations
  BY DeletionAssumption DEF ACapability, Requests, Operations
<1>4. /\ capability' \in [Requests -> ACapability \cup {None}]
      /\ \A q \in Requests : capability[q] # None => capability'[q] = capability[q]
      /\ capability'[r] # None /\ capability'[r].operation = o
  <2>1. CASE /\ recovery[o] = None /\ Fresh(r)
             /\ capability' = [capability EXCEPT ![r] = Capability(o, w)]
    <3>1. Capability(o, w) \in ACapability /\ Capability(o, w).operation = o
      BY <1>3 DEF Capability, ACapability
    <3>2. capability[r] = None
      BY <2>1 DEF Fresh
    <3> QED BY <2>1, <3>1, <3>2, <1>3 DEF DeletionInv, DeletionTypeOK
  <2>2. CASE recovery[o] = r /\ UNCHANGED capability
    BY <2>2, <1>3 DEF DeletionInv, DeletionTypeOK, CapabilitiesStand
  <2> QED BY <1>1, <2>1, <2>2
<1>5. call' \in [Calls -> ACall] /\ \A d \in Calls : Same(d) \/ Sending(d)
  BY <1>1, <1>2, <1>4, Sends DEF DeletionInv
<1>6. DeletionTypeOK'
  BY <1>1, <1>2, <1>3, <1>4, <1>5 DEF DeletionInv, DeletionTypeOK
<1>7. Growing
  BY <1>1, <1>2, <1>4 DEF Growing
<1>8. QuietStep
  <2>1. \A p \in Operations : recovery'[p] # None =>
          capability'[recovery'[p]] # None /\ capability'[recovery'[p]].operation = p
    BY <1>1, <1>3, <1>4 DEF DeletionInv, CapabilitiesStand, DeletionTypeOK
  <2>2. file' # None => capability'[file'] # None /\ capability'[file'].operation = "delete_account"
    BY <1>2, <1>4 DEF DeletionInv, CapabilitiesStand, DeletionTypeOK
  <2>3. \A q \in asked' : capability'[q] # None
    BY <1>1, <1>4 DEF DeletionInv, CapabilitiesStand, DeletionTypeOK
  <2> QED BY <1>2, <1>5, <1>6, <1>7, <2>1, <2>2, <2>3 DEF QuietStep, DeletionInv, IdentityStays
<1> QED BY <1>8, Quiet

\* A recovery file that is saved.
LEMMA PrepareRecoveryFileInv ==
  ASSUME DeletionInv, PrepareRecoveryFile
  PROVE  DeletionInv'
<1> DEFINE o == "delete_account"
<1>1. PICK r \in Requests :
         /\ \/ /\ recovery[o] = None /\ Fresh(r)
               /\ capability' = [capability EXCEPT ![r] = Capability(o, None)]
            \/ recovery[o] = r /\ UNCHANGED capability
         /\ recovery' = [recovery EXCEPT ![o] = r]
         /\ file' = r
  BY DEF PrepareRecoveryFile
<1>2. UNCHANGED <<rows, intents, store, auth, removed, asked, call>>
  BY DEF PrepareRecoveryFile, server, database
<1>3. None \notin ACapability /\ None \notin Requests /\ o \in Operations
  BY DeletionAssumption DEF ACapability, Requests, Operations
<1>4. /\ capability' \in [Requests -> ACapability \cup {None}]
      /\ \A q \in Requests : capability[q] # None => capability'[q] = capability[q]
      /\ capability'[r] # None /\ capability'[r].operation = o
  <2>1. CASE /\ recovery[o] = None /\ Fresh(r)
             /\ capability' = [capability EXCEPT ![r] = Capability(o, None)]
    <3>1. Capability(o, None) \in ACapability /\ Capability(o, None).operation = o
      BY <1>3 DEF Capability, ACapability
    <3>2. capability[r] = None
      BY <2>1 DEF Fresh
    <3> QED BY <2>1, <3>1, <3>2, <1>3 DEF DeletionInv, DeletionTypeOK
  <2>2. CASE recovery[o] = r /\ UNCHANGED capability
    BY <2>2, <1>3 DEF DeletionInv, DeletionTypeOK, CapabilitiesStand
  <2> QED BY <1>1, <2>1, <2>2
<1>5. DeletionTypeOK'
  BY <1>1, <1>2, <1>3, <1>4 DEF DeletionInv, DeletionTypeOK
<1>6. Growing
  BY <1>1, <1>2, <1>4 DEF Growing
<1>7. QuietStep
  <2>1. \A p \in Operations : recovery'[p] # None =>
          capability'[recovery'[p]] # None /\ capability'[recovery'[p]].operation = p
    BY <1>1, <1>3, <1>4 DEF DeletionInv, CapabilitiesStand, DeletionTypeOK
  <2>2. capability'[file'] # None /\ capability'[file'].operation = o
    BY <1>1, <1>4
  <2>3. \A q \in asked' : capability'[q] # None
    BY <1>2, <1>4 DEF DeletionInv, CapabilitiesStand, DeletionTypeOK
  <2>4. \A c \in Calls : Same(c)
    BY <1>2 DEF Same, Running, Begun, Doing, Next_
  <2> QED BY <1>2, <1>5, <1>6, <2>1, <2>2, <2>3, <2>4 DEF QuietStep, DeletionInv, IdentityStays
<1> QED BY <1>7, Quiet

\* A request for the deletion of the account, and a query.
LEMMA DeleteAccountInv ==
  ASSUME DeletionInv, NEW c \in Calls, DeleteAccount(c) \/ QueryStatus(c)
  PROVE  DeletionInv'
<1>1. /\ May(c) /\ UNCHANGED <<rows, intents, store, auth, removed, capability, recovery, file>>
      /\ \E r \in Requests, k \in {"delete", "status"}, first \in {"begin", "lookup"}, o \in Operations :
            /\ recovery[o] = r
            /\ (asked' = asked /\ first = "lookup") \/ asked' = asked \cup {r}
            /\ Sent(c, k, r, first)
  <2>1. CASE DeleteAccount(c)
    <3>1. recovery["delete_account"] \in Requests /\ "delete_account" \in Operations
      BY <2>1 DEF DeleteAccount, DeletionInv, DeletionTypeOK, Operations
    <3> QED BY <2>1, <3>1 DEF DeleteAccount, server, database, browser
  <2>2. CASE QueryStatus(c)
    <3>1. PICK o \in Operations : recovery[o] # None /\ Sent(c, "status", recovery[o], "lookup")
      BY <2>2 DEF QueryStatus
    <3>2. recovery[o] \in Requests
      BY <3>1 DEF DeletionInv, DeletionTypeOK
    <3> QED BY <2>2, <3>1, <3>2 DEF QueryStatus, server, database, browser
  <2> QED BY <2>1, <2>2
<1>2. PICK r \in Requests, k \in {"delete", "status"}, first \in {"begin", "lookup"}, o \in Operations :
            /\ recovery[o] = r
            /\ (asked' = asked /\ first = "lookup") \/ asked' = asked \cup {r}
            /\ Sent(c, k, r, first)
  BY <1>1
<1>3. capability[r] # None
  <2>1. None \notin Requests
    BY DeletionAssumption DEF Requests
  <2> QED BY <1>2, <2>1 DEF DeletionInv, CapabilitiesStand
<1>4. call' \in [Calls -> ACall] /\ \A d \in Calls : Same(d) \/ Sending(d)
  BY <1>1, <1>2, <1>3, Sends DEF DeletionInv
<1>5. DeletionTypeOK' /\ Growing
  BY <1>1, <1>2, <1>4 DEF DeletionInv, DeletionTypeOK, Growing
<1>6. QuietStep
  BY <1>1, <1>2, <1>3, <1>4, <1>5 DEF QuietStep, DeletionInv, CapabilitiesStand, IdentityStays
<1> QED BY <1>6, Quiet

\* Steps of the browser that send nothing and store nothing new.
ListeningStep ==
    /\ UNCHANGED <<rows, intents, auth, removed, capability, file, asked>>
    /\ store' \in SUBSET Items /\ (~auth => store' \cap Workspaces = {})
    /\ recovery' \in [Operations -> Requests \cup {None}]
    /\ \A o \in Operations : recovery'[o] \in {recovery[o], None}
          \/ (recovery'[o] = file /\ o = "delete_account")
    /\ call' \in [Calls -> ACall] /\ \A c \in Calls : Same(c)

LEMMA Listening ==
  ASSUME DeletionInv, ListeningStep
  PROVE  DeletionInv'
<1>1. DeletionTypeOK' /\ Growing
  BY DEF ListeningStep, DeletionInv, DeletionTypeOK, Growing
<1>2. \A o \in Operations : recovery'[o] # None =>
          capability'[recovery'[o]] # None /\ capability'[recovery'[o]].operation = o
  BY DEF ListeningStep, DeletionInv, CapabilitiesStand
<1>3. QuietStep
  BY <1>1, <1>2 DEF QuietStep, ListeningStep, DeletionInv, CapabilitiesStand
<1> QED BY <1>3, Quiet

\* A call that the browser heard, or no longer listens to.
LEMMA Unhearing ==
  ASSUME DeletionTypeOK, NEW S \in SUBSET Calls, call' = [c \in Calls |-> IF c \in S THEN Unheard(call[c]) ELSE call[c]]
  PROVE  call' \in [Calls -> ACall] /\ \A c \in Calls : Same(c)
<1>1. \A c \in Calls : /\ Unheard(call[c]) \in ACall /\ Unheard(call[c]).kind \in {"over", call[c].kind}
                       /\ Unheard(call[c]).at = "running" => 
                            /\ call[c].at = "running" /\ Unheard(call[c]).kind = call[c].kind
                            /\ Unheard(call[c]).req = call[c].req /\ Unheard(call[c]).todo = call[c].todo
                            /\ Unheard(call[c]).receipt = call[c].receipt
  BY OverRecords DEF DeletionTypeOK, Unheard, ACall
<1>2. call' \in [Calls -> ACall]
  BY <1>1 DEF DeletionTypeOK
<1>3. \A c \in Calls : Same(c)
  BY <1>1 DEF Same, Running, Begun, Doing, Next_
<1> QED BY <1>2, <1>3

\* What the browser does with answers, reloads, files and new items.
LEMMA BrowserInv ==
  ASSUME DeletionInv,
         \/ \E c \in Calls : Hear(c) \/ StopListening(c)
         \/ Leave \/ SignIn \/ ImportRecoveryFile \/ CreateItem
  PROVE  DeletionInv'
<1>t. /\ store \in SUBSET Items /\ recovery \in [Operations -> Requests \cup {None}]
      /\ file \in Requests \cup {None} /\ call \in [Calls -> ACall]
      /\ (~auth => store \cap Workspaces = {})
  BY DEF DeletionInv, DeletionTypeOK, IdentityStays
<1>s. call' = call => \A c \in Calls : Same(c)
  BY DEF Same, Running, Begun, Doing, Next_
<1>1. ASSUME NEW c \in Calls, Hear(c) PROVE DeletionInv'
  <2>1. /\ call' = [call EXCEPT ![c] = Over] /\ call[c].at = "answered"
        /\ recovery' = recovery \/ recovery' = [recovery EXCEPT ![OperationOf(c)] = None]
        /\ UNCHANGED <<rows, intents, store, auth, removed, capability, file, asked>>
    BY <1>1 DEF Hear, Forget, server, database
  <2>2. call' \in [Calls -> ACall] /\ \A d \in Calls : Same(d)
    <3>1. call' \in [Calls -> ACall] /\ call'[c] = Over /\ \A d \in Calls : d # c => call'[d] = call[d]
      BY <2>1, <1>t, OverRecords
    <3> QED BY <3>1, OverRecords DEF Same, Running, Begun, Doing, Next_
  <2>3. ListeningStep
    BY <2>1, <2>2, <1>t DEF ListeningStep
  <2> QED BY <2>3, Listening
<1>2. ASSUME NEW c \in Calls, StopListening(c) PROVE DeletionInv'
  <2>1. /\ call' = [d \in Calls |-> IF d \in {c} THEN Unheard(call[d]) ELSE call[d]]
        /\ UNCHANGED <<rows, intents, store, auth, removed, capability, recovery, file, asked>>
    BY <1>2, <1>t DEF StopListening, server, database, browser
  <2>2. call' \in [Calls -> ACall] /\ \A d \in Calls : Same(d)
    BY <2>1, Unhearing DEF DeletionInv
  <2>3. ListeningStep
    BY <2>1, <2>2, <1>t DEF ListeningStep
  <2> QED BY <2>3, Listening
<1>3. CASE Leave
  <2> DEFINE S == {d \in Calls : call[d].heard}
  <2>1. /\ call' = [d \in Calls |-> IF d \in S THEN Unheard(call[d]) ELSE call[d]]
        /\ UNCHANGED <<rows, intents, store, auth, removed, capability, file, asked>>
    BY <1>3 DEF Leave, server, database
  <2>2. call' \in [Calls -> ACall] /\ \A d \in Calls : Same(d)
    BY <2>1, Unhearing DEF DeletionInv
  <2>3. /\ recovery' \in [Operations -> Requests \cup {None}]
        /\ \A o \in Operations : recovery'[o] \in {recovery[o], None}
    BY <1>3, <1>t DEF Leave
  <2>4. ListeningStep
    BY <2>1, <2>2, <2>3, <1>t DEF ListeningStep
  <2> QED BY <2>4, Listening
<1>4. CASE SignIn
  <2>1. ListeningStep
    BY <1>4, <1>t, <1>s DEF SignIn, ListeningStep, server, database
  <2> QED BY <2>1, Listening
<1>5. CASE ImportRecoveryFile
  <2>1. ListeningStep
    BY <1>5, <1>t, <1>s DEF ImportRecoveryFile, ListeningStep, server, database, Operations
  <2> QED BY <2>1, Listening
<1>6. CASE CreateItem
  <2>1. ListeningStep
    BY <1>6, <1>t, <1>s DEF CreateItem, ListeningStep, browser
  <2> QED BY <2>1, Listening
<1> QED BY <1>1, <1>2, <1>3, <1>4, <1>5, <1>6

----------------------------------------------------------------------------
(* The function's steps *)

\* What the next step of a call presumes.
LEMMA Doings ==
  ASSUME DeletionInv, NEW c \in Calls, NEW step, Doing(c, step)
  PROVE  /\ Running(c) /\ call[c].todo # <<>> /\ Head(call[c].todo) = step
         /\ call[c] \in ACall /\ call[c].req \in Requests /\ OperationOf(c) \in Operations
         /\ capability[call[c].req] # None
         /\ step \in StepsOf(OperationOf(c)) /\ Stands(intents[call[c].receipt], step)
         /\ step \in {"begin", "lookup"} => call[c].receipt = 0
         /\ step = "begin" => call[c].req \in asked
         /\ step \notin {"begin", "lookup"} =>
              /\ call[c].receipt \in Calls /\ call[c].req \in asked
              /\ Holder(call[c].receipt, OperationOf(c))
         /\ step = "complete" => ~auth
<1>1. Running(c) /\ call[c].todo # <<>> /\ Head(call[c].todo) = step
  BY DEF Doing, Next_
<1>2. call[c] \in ACall /\ call[c].req \in Requests /\ capability[call[c].req] # None
  BY <1>1 DEF DeletionInv, DeletionTypeOK, CapabilitiesStand
<1>3. OperationOf(c) \in Operations
  BY <1>2 DEF OperationOf, DeletionInv, DeletionTypeOK, ACapability
<1>4. CallOf(c)
  BY DEF DeletionInv
<1>5. 1 \in 1..Len(call[c].todo) /\ call[c].todo[1] = step
  BY <1>1, <1>2 DEF ACall
<1>6. step \in StepsOf(OperationOf(c)) /\ (step = "complete" => ~auth)
  BY <1>1, <1>4, <1>5 DEF CallOf, OrderOf, CompletesGone
<1>7. First(c) <=> step \in {"begin", "lookup"}
  BY <1>1 DEF First, Doing, Next_
<1>8. Stands(intents[call[c].receipt], step)
  BY <1>1, <1>4 DEF CallOf, Next_
<1> QED BY <1>1, <1>2, <1>3, <1>4, <1>6, <1>7, <1>8 DEF CallOf, Holder, CallHolds

\* A call that passes its next step.
LEMMA Passing ==
  ASSUME DeletionInv, NEW c \in Calls, NEW step, Doing(c, step), step \notin {"begin", "lookup"},
         NEW status \in Answers, call' = Passed(c, status), Growing,
         capability' = capability, asked' = asked,
         auth' = FALSE \/ (auth' = auth /\ step # "identity"),
         \A after \in StepsOf(OperationOf(c)) :
            <<step, after>> \in Follows => Stands(intents'[call[c].receipt], after)
  PROVE  /\ call' \in [Calls -> ACall] /\ CallOf(c)'
         /\ \A d \in Calls : d # c => Same(d)
         /\ Running(c) /\ Running(c)' /\ call'[c].req = call[c].req /\ call'[c].receipt = call[c].receipt
         /\ \A d \in Calls : Begun(d) => Begun(d)'
<1> DEFINE s == call[c].todo
           o == OperationOf(c)
<1>1. /\ s # <<>> /\ Head(s) = step /\ s \in Seq(Steps) /\ call[c] \in ACall /\ Running(c)
      /\ call[c].receipt \in Calls /\ call[c].req \in asked
  BY Doings DEF ACall
<1>2. OrderOf(o, s) /\ CompletesGone(s, ~auth)
  BY <1>1 DEF DeletionInv, CallOf
<1>3. auth \in BOOLEAN /\ auth' \in BOOLEAN /\ (~auth \/ Head(s) = "identity" => ~auth')
  BY <1>1 DEF Growing, DeletionInv, DeletionTypeOK
<1>4. /\ Tail(s) \in Seq(Steps) /\ OrderOf(o, Tail(s)) /\ CompletesGone(Tail(s), ~auth')
      /\ Tail(s) # <<>> => /\ <<step, Head(Tail(s))>> \in Follows /\ Head(Tail(s)) \in StepsOf(o)
  BY <1>1, <1>2, <1>3, AfterNext
<1>5. call' = [call EXCEPT ![c] = [call[c] EXCEPT !.todo = Tail(s), !.status = status]]
  BY DEF Passed
<1>6. [call[c] EXCEPT !.todo = Tail(s), !.status = status] \in ACall
  BY <1>1, <1>4 DEF ACall
<1>7. call' \in [Calls -> ACall] /\ \A d \in Calls : d # c => call'[d] = call[d]
  BY <1>5, <1>6 DEF DeletionInv, DeletionTypeOK
<1>8. /\ call'[c].todo = Tail(s) /\ call'[c].req = call[c].req /\ call'[c].receipt = call[c].receipt
      /\ call'[c].at = call[c].at /\ call'[c].kind = call[c].kind
  BY <1>1, <1>5 DEF DeletionInv, DeletionTypeOK, ACall
<1>9. OperationOf(c)' = o
  BY <1>8 DEF OperationOf
<1>10. Tail(s) # <<>> => Head(Tail(s)) \notin {"begin", "lookup"}
  BY <1>4 DEF Follows
<1>11. ~First(c)'
  BY <1>8, <1>10 DEF First, Doing, Next_
<1>12. Tail(s) # <<>> => Stands(intents[call[c].receipt], Next_(c))'
  BY <1>4, <1>8 DEF Stands, Next_
<1>13. OrderOf(OperationOf(c), call[c].todo)'
  BY <1>4, <1>8, <1>9 DEF OrderOf
<1>14. CallOf(c)'
  <2>1. call[c].kind # "none"
    BY <1>1 DEF DeletionInv, CallOf
  <2> QED BY <2>1, <1>1, <1>4, <1>8, <1>11, <1>12, <1>13 DEF CallOf
<1>15. \A d \in Calls : d # c => Same(d)
  BY <1>7 DEF Same, Running, Begun, Doing, Next_
<1>16. Begun(c) => Begun(c)'
  BY <1>8, <1>11, <1>1, <1>14 DEF Begun, First, Doing, Running
<1> QED BY <1>1, <1>7, <1>8, <1>14, <1>15, <1>16 DEF Running, Same

\* Which step comes after which.
LEMMA FollowsOnly ==
  ASSUME NEW after
  PROVE  /\ <<"prepare", after>> \in Follows => after = "append"
         /\ <<"append", after>> \in Follows => after = "attest"
         /\ <<"attest", after>> \in Follows => after = "execute"
         /\ <<"execute", after>> \in Follows => after \in {"business", "deleting", "complete"}
         /\ <<"deleting", after>> \in Follows => after = "identity"
         /\ <<"identity", after>> \in Follows => after = "complete"
         /\ <<"business", after>> \notin Follows /\ <<"workspace", after>> \notin Follows
         /\ <<"complete", after>> \notin Follows
  BY DEF Follows

\* The intent of a receipt is of the operation of whoever holds it.
LEMMA HeldIntent ==
  ASSUME DeletionInv, NEW n \in Calls, NEW o \in Operations, Holder(n, o), intents[n].state # "none"
  PROVE  intents[n].operation = o /\ intents[n].recent
  BY DEF DeletionInv, ReceiptOf

\* The intent that a call prepares is the only recent one of its operation.
NewIntent(c, n) ==
    /\ n = call[c].receipt /\ intents[n] = NoIntent
    /\ intents'[n] = [operation |-> OperationOf(c), state |-> "PENDING", recent |-> TRUE]
    /\ \A m \in Calls : intents[m].recent => intents[m].operation # OperationOf(c)

\* A transaction of the function.
ServerStep(c, step) ==
    /\ Doing(c, step) /\ step \notin {"begin", "lookup"}
    /\ \E status \in Answers : call' = Passed(c, status)
    /\ UNCHANGED <<removed, browser, asked>>
    /\ auth' = FALSE \/ (auth' = auth /\ step # "identity")
    /\ (auth' => auth) /\ auth' \in BOOLEAN
    /\ rows' \in [Requests -> ARow]
    /\ \A r \in Requests : /\ rows'[r].receipt = rows[r].receipt
                           /\ rows'[r] # NoRow => rows[r] # NoRow
                           /\ rows'[r].status = "completed" =>
                                rows[r].status = "completed" \/ r = call[c].req
    /\ rows'[call[c].req].status = "completed" =>
          \/ rows[call[c].req].status = "completed"
          \/ step \in {"business", "workspace", "complete"}
    /\ intents' \in [Calls -> AnIntent]
    /\ \A n \in Calls : IntentKept(n) \/ NewIntent(c, n)
    /\ \A n \in Calls :
        /\ intents[n].state # "none" => intents'[n].state # "none"
        /\ intents[n].state \in {"JOURNALED", "DELETED"} => intents'[n].state \in {"JOURNALED", "DELETED"}
        /\ intents[n].state = "DELETED" => intents'[n].state = "DELETED"
    /\ \A after \in StepsOf(OperationOf(c)) :
          <<step, after>> \in Follows => Stands(intents'[call[c].receipt], after)
    /\ store' \in SUBSET store /\ (~auth' => store' \cap Workspaces = {})

LEMMA Serving ==
  ASSUME DeletionInv, NEW c \in Calls, NEW step, ServerStep(c, step)
  PROVE  DeletionInv'
<1> DEFINE o == OperationOf(c)
           m == call[c].receipt
<1>1. PICK status \in Answers : call' = Passed(c, status)
  BY DEF ServerStep
<1>2. Growing /\ UNCHANGED <<capability, recovery, file, asked, removed>>
  BY DEF ServerStep, Growing, browser
<1>3. /\ call' \in [Calls -> ACall] /\ CallOf(c)' /\ \A d \in Calls : d # c => Same(d)
      /\ Running(c) /\ Running(c)' /\ call'[c].req = call[c].req /\ call'[c].receipt = call[c].receipt
      /\ \A d \in Calls : Begun(d) => Begun(d)'
  BY <1>1, <1>2, Passing DEF ServerStep
<1>4. /\ call[c].req \in Requests /\ o \in Operations /\ capability[call[c].req] # None
      /\ step \in StepsOf(o) /\ Stands(intents[m], step) /\ m \in Calls /\ call[c].req \in asked /\ Holder(m, o)
      /\ (step = "complete" => ~auth)
  BY Doings DEF ServerStep
<1>5. DeletionTypeOK'
  BY <1>2, <1>3 DEF DeletionInv, DeletionTypeOK, ServerStep
<1>6. \A d \in Calls : CallOf(d)' /\ (Running(d)' => call'[d].req \in Requests /\ capability'[call'[d].req] # None)
  BY <1>2, <1>3, <1>4, <1>5, CallStays
<1>7. CapabilitiesStand'
  BY <1>2, <1>6 DEF DeletionInv, CapabilitiesStand, ServerStep
<1>8. \A n \in Calls, p \in Operations : Holder(n, p)' => Holder(n, p)
  <2> SUFFICES ASSUME NEW n \in Calls, NEW p \in Operations, Holder(n, p)' PROVE Holder(n, p)
    OBVIOUS
  <2>1. CASE RowHolds(n, p)'
    BY <2>1, <1>2, RowHoldsStays DEF ServerStep, Holder
  <2>2. CASE CallHolds(n, p)'
    <3>1. PICK d \in Calls : Running(d)' /\ call'[d].receipt = n /\ OperationOf(d)' = p
      BY <2>2 DEF CallHolds
    <3>2. Running(d) /\ call'[d].req = call[d].req /\ call[d].receipt = n
      BY <1>3, <3>1 DEF Same
    <3> QED BY <3>1, <3>2, <1>2, CallHoldsStays DEF Holder
  <2> QED BY <2>1, <2>2 DEF Holder
<1>9. \A n \in Calls : ReceiptOf(n)'
  <2> SUFFICES ASSUME NEW n \in Calls PROVE ReceiptOf(n)'
    OBVIOUS
  <2>1. CASE IntentKept(n)
    BY <2>1, <1>2, <1>3, <1>8, ReceiptStays
  <2>2. CASE NewIntent(c, n)
    <3>1. n = m /\ intents'[n].operation = o /\ intents'[n].recent /\ intents'[n].state = "PENDING"
      BY <2>2 DEF NewIntent
    <3>2. ReceiptOf(n) /\ Holder(n, o)
      BY <1>4, <3>1 DEF DeletionInv
    <3>3. \A p \in Operations : Holder(n, p)' => p = o
      BY <3>2, <1>4, <1>8 DEF ReceiptOf
    <3>4. Begun(n)'
      BY <3>2, <1>3, <1>4 DEF ReceiptOf
    <3> QED BY <3>1, <3>3, <3>4, <1>4 DEF ReceiptOf
  <2> QED BY <2>1, <2>2 DEF ServerStep
<1>10. OneRecent'
  <2> SUFFICES ASSUME NEW n \in Calls, NEW k \in Calls, intents'[n].recent, intents'[k].recent,
                      intents'[n].operation = intents'[k].operation
               PROVE  n = k
    BY DEF OneRecent
  <2>1. CASE IntentKept(n) /\ IntentKept(k)
    BY <2>1 DEF IntentKept, DeletionInv, OneRecent
  <2>2. CASE NewIntent(c, n) /\ IntentKept(k)
    BY <2>2 DEF NewIntent, IntentKept
  <2>3. CASE IntentKept(n) /\ NewIntent(c, k)
    <3>1. intents[n].recent /\ intents'[n].operation = intents[n].operation
      BY <2>3 DEF IntentKept
    <3>2. intents'[k].operation = OperationOf(c)
      BY <2>3 DEF NewIntent
    <3> QED BY <2>3, <3>1, <3>2 DEF NewIntent
  <2>4. CASE NewIntent(c, n) /\ NewIntent(c, k)
    BY <2>4 DEF NewIntent
  <2> QED BY <2>1, <2>2, <2>3, <2>4 DEF ServerStep
<1>11. CompletedExecuted'
  <2> SUFFICES ASSUME NEW r \in Requests, rows'[r].status = "completed"
               PROVE  /\ capability[r].operation # "delete_workspace" =>
                           \E n \in Calls : /\ intents'[n].operation = capability[r].operation
                                            /\ intents'[n].recent /\ intents'[n].state = "DELETED"
                      /\ capability[r].operation = "delete_account" => ~auth'
    BY <1>2 DEF CompletedExecuted
  <2>1. CASE rows[r].status = "completed"
    <3>1. capability[r].operation # "delete_workspace" =>
            \E n \in Calls : /\ intents[n].operation = capability[r].operation
                             /\ intents[n].recent /\ intents[n].state = "DELETED"
      BY <2>1 DEF DeletionInv, CompletedExecuted
    <3>2. \A n \in Calls : intents[n].state = "DELETED" =>
            /\ intents'[n].state = "DELETED" /\ intents'[n].recent = intents[n].recent
            /\ intents'[n].operation = intents[n].operation
      BY DEF ServerStep, IntentKept, NewIntent, NoIntent
    <3> QED BY <2>1, <3>1, <3>2 DEF DeletionInv, CompletedExecuted, ServerStep
  <2>2. CASE rows[r].status # "completed"
    <3>1. r = call[c].req /\ step \in {"business", "workspace", "complete"}
      BY <2>2 DEF ServerStep
    <3>2. capability[r].operation = o
      BY <3>1 DEF OperationOf
    <3>3. CASE step = "workspace"
      BY <3>3, <3>2, <1>4 DEF StepsOf, Operations
    <3>4. CASE step \in {"business", "complete"}
      <4>1. intents[m].state = "DELETED"
        BY <3>4, <1>4 DEF Stands
      <4>2. intents[m].operation = o /\ intents[m].recent
        BY <4>1, <1>4, HeldIntent
      <4>3. IntentKept(m) /\ intents'[m].state = "DELETED"
        BY <4>1, <1>4 DEF ServerStep, NewIntent, NoIntent
      <4>4. o = "delete_account" => step = "complete"
        BY <3>4, <1>4 DEF StepsOf
      <4> QED BY <3>2, <4>1, <4>2, <4>3, <4>4, <1>4 DEF IntentKept, ServerStep
    <3> QED BY <3>1, <3>3, <3>4
  <2> QED BY <2>1, <2>2
<1>12. IdentityStays'
  BY DEF DeletionInv, IdentityStays, ServerStep
<1> QED BY <1>5, <1>6, <1>7, <1>9, <1>10, <1>11, <1>12 DEF DeletionInv

\* The state of an operation's intent decides nothing else.
LEMMA StateOnly ==
  ASSUME DeletionInv, NEW n \in Calls, NEW state \in {"none", "PENDING", "JOURNALED", "DELETED"},
         intents[n].state # "none", intents' = [intents EXCEPT ![n].state = state]
  PROVE  intents' \in [Calls -> AnIntent] /\ \A k \in Calls : IntentKept(k)
  BY DEF DeletionInv, DeletionTypeOK, AnIntent, IntentKept

\* The intent, and its record in the journal.
LEMMA JournalInv ==
  ASSUME DeletionInv, NEW c \in Calls, PrepareIntent(c) \/ AppendAndProve(c) \/ Attest(c)
  PROVE  DeletionInv'
<1> DEFINE n == call[c].receipt
           o == OperationOf(c)
<1>t. /\ rows \in [Requests -> ARow] /\ intents \in [Calls -> AnIntent] /\ auth \in BOOLEAN
      /\ (~auth => store \cap Workspaces = {})
  BY DEF DeletionInv, DeletionTypeOK, IdentityStays
<1>k. intents' = intents => \A k \in Calls : IntentKept(k)
  BY DEF IntentKept
<1>s. ASSUME NEW step, Doing(c, step) PROVE call[c].status \in Answers /\ Running(c) /\ "failed" \in Answers /\ "404" \in Answers
  BY <1>s, Doings DEF ACall, Answers
<1>1. CASE PrepareIntent(c)
  <2>d. /\ Doing(c, "prepare") /\ n \in Calls /\ o \in Operations /\ Holder(n, o)
        /\ call[c].status \in Answers /\ Running(c)
    BY <1>1, <1>s, Doings DEF PrepareIntent
  <2>0. ASSUME intents'[n].state # "none"
        PROVE  \A after \in StepsOf(o) : <<"prepare", after>> \in Follows => Stands(intents'[n], after)
    BY <2>0, FollowsOnly DEF Stands
  <2>1. CASE intents[n] # NoIntent /\ call' = Passed(c, call[c].status) /\ ServerUnchanged
    <3>1. intents[n].state # "none"
      BY <2>1, <2>d DEF DeletionInv, ReceiptOf
    <3>2. ServerStep(c, "prepare")
      BY <2>1, <2>d, <2>0, <3>1, <1>t, <1>k DEF ServerStep, ServerUnchanged, server, database
    <3> QED BY <3>2, Serving
  <2>2. CASE /\ intents[n] = NoIntent
             /\ member = "ACTIVE" /\ ~Limited(IntentKind(c))
             /\ intents' = [intents EXCEPT ![n] =
                  [operation |-> IntentKind(c), state |-> "PENDING", recent |-> TRUE]]
             /\ call' = Passed(c, call[c].status)
             /\ UNCHANGED <<rows, journal, member, store, made, auth, removed, browser, asked>>
    <3> DEFINE new == [operation |-> o, state |-> "PENDING", recent |-> TRUE]
    <3>1. new \in AnIntent /\ new.state = "PENDING" /\ new.operation = o /\ new.recent
      BY <2>d DEF AnIntent
    <3>2. intents' = [intents EXCEPT ![n] = new]
      BY <2>2 DEF IntentKind
    <3> HIDE DEF new
    <3>3. intents' \in [Calls -> AnIntent] /\ intents'[n] = new /\ \A k \in Calls : k # n => intents'[k] = intents[k]
      BY <3>1, <3>2, <2>d, <1>t
    <3>4. \A k \in Calls : intents[k].recent => intents[k].operation # o
      BY <2>2 DEF Limited, IntentKind
    <3>5. NewIntent(c, n)
      BY <3>3, <3>4, <2>2 DEF NewIntent, new
    <3>6. \A k \in Calls : k # n => IntentKept(k)
      BY <3>3 DEF IntentKept
    <3>7. \A after \in StepsOf(o) : <<"prepare", after>> \in Follows => Stands(intents'[n], after)
      BY <2>0, <3>1, <3>3
    <3>9. \A k \in Calls :
        /\ intents[k].state # "none" => intents'[k].state # "none"
        /\ intents[k].state \in {"JOURNALED", "DELETED"} => intents'[k].state \in {"JOURNALED", "DELETED"}
        /\ intents[k].state = "DELETED" => intents'[k].state = "DELETED"
      BY <2>2, <3>3 DEF NoIntent
    <3>10. \A k \in Calls : IntentKept(k) \/ NewIntent(c, k)
      BY <3>5, <3>6
    <3>8. ServerStep(c, "prepare")
      BY <2>2, <2>d, <3>3, <3>9, <3>10, <3>7, <1>t DEF ServerStep
    <3> QED BY <3>8, Serving
  <2>3. CASE Refuse(c, "404") \/ Refuse(c, "failed")
    BY <2>3, <2>d, <1>s, Refusing
  <2> QED BY <1>1, <2>1, <2>2, <2>3 DEF PrepareIntent
<1>2. CASE AppendAndProve(c)
  <2>d. /\ Doing(c, "append") /\ n \in Calls /\ Stands(intents[n], "append") /\ call[c].status \in Answers
    BY <1>2, <1>s, Doings DEF AppendAndProve
  <2>0. intents' = intents /\ rows' = rows /\ store' = store /\ auth' = auth
    BY <1>2 DEF AppendAndProve, database
  <2>1. \A after \in StepsOf(o) : <<"append", after>> \in Follows => Stands(intents'[n], after)
    BY <2>d, <2>0, FollowsOnly DEF Stands
  <2>2. ServerStep(c, "append")
    BY <1>2, <2>d, <2>0, <2>1, <1>t, <1>k DEF ServerStep, AppendAndProve
  <2> QED BY <2>2, Serving
<1>3. CASE Attest(c)
  <2>d. /\ Doing(c, "attest") /\ n \in Calls /\ Stands(intents[n], "attest") /\ call[c].status \in Answers
    BY <1>3, <1>s, Doings DEF Attest
  <2>1. intents[n] \in AnIntent /\ intents[n].state # "none"
    BY <2>d, <1>t DEF Stands
  <2>2. \E state \in {"PENDING", "JOURNALED", "DELETED"} :
          /\ intents' = [intents EXCEPT ![n].state = state]
          /\ state = IF intents[n].state = "PENDING" THEN "JOURNALED" ELSE intents[n].state
    <3>1. intents' = [intents EXCEPT ![n] = Attested(intents[n])]
      BY <1>3 DEF Attest
    <3>2. CASE intents[n].state = "PENDING"
      <4>1. intents' = [intents EXCEPT ![n].state = "JOURNALED"]
        BY <3>1, <3>2, <1>t, <2>d DEF Attested
      <4> QED BY <4>1, <3>2
    <3>3. CASE intents[n].state \in {"JOURNALED", "DELETED"}
      <4>1. intents' = [intents EXCEPT ![n].state = intents[n].state]
        BY <3>1, <3>3, <1>t, <2>d DEF Attested, AnIntent
      <4> QED BY <4>1, <3>3
    <3> QED BY <3>2, <3>3, <2>1 DEF AnIntent
  <2>3. PICK state \in {"PENDING", "JOURNALED", "DELETED"} :
          /\ intents' = [intents EXCEPT ![n].state = state]
          /\ state = IF intents[n].state = "PENDING" THEN "JOURNALED" ELSE intents[n].state
    BY <2>2
  <2>4. intents' \in [Calls -> AnIntent] /\ \A k \in Calls : IntentKept(k)
    BY <2>1, <2>3, <2>d, StateOnly
  <2>5. intents'[n].state = state /\ state # "PENDING" /\ \A k \in Calls : k # n => intents'[k] = intents[k]
    BY <2>1, <2>3, <2>d, <1>t DEF AnIntent
  <2>6. \A after \in StepsOf(o) : <<"attest", after>> \in Follows => Stands(intents'[n], after)
    BY <2>5, FollowsOnly DEF Stands
  <2>7. ServerStep(c, "attest")
    BY <1>3, <2>d, <2>3, <2>4, <2>5, <2>6, <1>t DEF ServerStep, Attest
  <2> QED BY <2>7, Serving
<1> QED BY <1>1, <1>2, <1>3

\* What the journal allows is executed.
LEMMA ExecuteInv ==
  ASSUME DeletionInv, NEW c \in Calls, Execute(c)
  PROVE  DeletionInv'
<1> DEFINE n == call[c].receipt
           o == OperationOf(c)
<1>t. /\ rows \in [Requests -> ARow] /\ intents \in [Calls -> AnIntent] /\ auth \in BOOLEAN
      /\ (~auth => store \cap Workspaces = {})
  BY DEF DeletionInv, DeletionTypeOK, IdentityStays
<1>d. /\ Doing(c, "execute") /\ n \in Calls /\ Stands(intents[n], "execute") /\ call[c].status \in Answers
      /\ Running(c) /\ "failed" \in Answers
  BY Doings DEF Execute, ACall, Answers
<1>0. ASSUME intents'[n].state = "DELETED"
      PROVE  \A after \in StepsOf(o) : <<"execute", after>> \in Follows => Stands(intents'[n], after)
  BY <1>0, FollowsOnly DEF Stands
<1>1. CASE ~Unexecuted(n) /\ call' = Passed(c, call[c].status) /\ ServerUnchanged
  <2>1. intents[n].state = "DELETED"
    BY <1>1, <1>d DEF Stands, Unexecuted
  <2>2. intents' = intents /\ rows' = rows /\ store' = store /\ auth' = auth
    BY <1>1 DEF ServerUnchanged, server, database
  <2>3. \A k \in Calls : IntentKept(k)
    BY <2>2 DEF IntentKept
  <2>4. ServerStep(c, "execute")
    BY <1>1, <1>d, <1>0, <2>1, <2>2, <2>3, <1>t DEF ServerStep, ServerUnchanged, server
  <2> QED BY <2>4, Serving
<1>2. CASE /\ Unexecuted(n)
           /\ store' = store \ Connections
           /\ intents' = [intents EXCEPT ![n].state = "DELETED"]
           /\ call' = Passed(c, call[c].status)
           /\ UNCHANGED <<rows, journal, made, auth, removed, browser, asked>>
  <2>1. intents' \in [Calls -> AnIntent] /\ \A k \in Calls : IntentKept(k)
    BY <1>2, <1>d, StateOnly DEF Unexecuted
  <2>2. intents'[n].state = "DELETED" /\ \A k \in Calls : k # n => intents'[k] = intents[k]
    BY <1>2, <1>d, <1>t DEF AnIntent
  <2>3. ServerStep(c, "execute")
    BY <1>2, <1>d, <1>0, <2>1, <2>2, <1>t DEF ServerStep
  <2> QED BY <2>3, Serving
<1>3. CASE Refuse(c, "failed")
  BY <1>3, <1>d, Refusing
<1> QED BY <1>1, <1>2, <1>3 DEF Execute

\* A row whose status changes is still the row it was.
LEMMA StatusOnly ==
  ASSUME DeletionInv, NEW r \in Requests, NEW status \in {"pending", "deleting", "completed"},
         rows[r].live, rows' = [rows EXCEPT ![r].status = status]
  PROVE  /\ rows' \in [Requests -> ARow] /\ rows'[r].status = status
         /\ \A q \in Requests : q # r => rows'[q] = rows[q]
         /\ \A q \in Requests : rows'[q].receipt = rows[q].receipt
         /\ \A q \in Requests : rows'[q] # NoRow => rows[q] # NoRow
<1>1. rows \in [Requests -> ARow] /\ rows[r] # NoRow
  BY DEF DeletionInv, DeletionTypeOK, NoRow
<1>2. rows' \in [Requests -> ARow] /\ rows'[r].status = status
      /\ rows'[r].receipt = rows[r].receipt /\ \A q \in Requests : q # r => rows'[q] = rows[q]
  BY <1>1 DEF ARow
<1> QED BY <1>1, <1>2

\* Workspaces, the profile, the row and the identity.
LEMMA ContentInv ==
  ASSUME DeletionInv, NEW c \in Calls,
         ExecuteContentDeletion(c) \/ MarkDeleting(c) \/ DeleteAuthUser(c) \/ MarkCompleted(c)
  PROVE  DeletionInv'
<1> DEFINE n == call[c].receipt
           o == OperationOf(c)
           r == call[c].req
<1>t. /\ rows \in [Requests -> ARow] /\ intents \in [Calls -> AnIntent] /\ auth \in BOOLEAN
      /\ (~auth => store \cap Workspaces = {})
  BY DEF DeletionInv, DeletionTypeOK, IdentityStays
<1>k. intents' = intents => \A k \in Calls : IntentKept(k)
  BY DEF IntentKept
<1>a. Answers = {"none", "pending", "deleting", "completed", "404", "410", "failed"}
  BY DEF Answers
<1>g. Gone(c) /\ Running(c) => DeletionInv'
  BY <1>a, Refusing DEF Gone
<1>1. CASE ExecuteContentDeletion(c)
  <2>1. PICK step \in {"workspace", "business"} : Doing(c, step)
    BY <1>1 DEF ExecuteContentDeletion
  <2>d. n \in Calls /\ r \in Requests /\ Running(c)
    BY <2>1, Doings
  <2>2. CASE /\ RowOf(c).live
             /\ store' = IF RowOf(c).status = "completed" THEN store ELSE store \ Content(c)
             /\ Row(c, "completed")
             /\ call' = Passed(c, "completed")
             /\ UNCHANGED <<intents, journal, member, made, auth, removed, browser, asked>>
    <3>1. rows[r].live /\ rows' = [rows EXCEPT ![r].status = "completed"]
      BY <2>2 DEF RowOf, Row
    <3>2. /\ rows' \in [Requests -> ARow] /\ rows'[r].status = "completed"
          /\ \A q \in Requests : q # r => rows'[q] = rows[q]
          /\ \A q \in Requests : rows'[q].receipt = rows[q].receipt
          /\ \A q \in Requests : rows'[q] # NoRow => rows[q] # NoRow
      BY <3>1, <2>d, StatusOnly
    <3>3. store' \in SUBSET store
      BY <2>2
    <3>4. \A after \in StepsOf(o) : <<step, after>> \notin Follows
      BY FollowsOnly
    <3>5. ServerStep(c, step)
      BY <2>1, <2>2, <2>d, <3>2, <3>3, <3>4, <1>t, <1>k, <1>a DEF ServerStep
    <3> QED BY <3>5, Serving
  <2> QED BY <1>1, <2>2, <2>d, <1>g DEF ExecuteContentDeletion
<1>2. CASE MarkDeleting(c)
  <2>d. /\ Doing(c, "deleting") /\ n \in Calls /\ r \in Requests /\ Running(c)
        /\ Stands(intents[n], "deleting")
    BY <1>2, Doings DEF MarkDeleting
  <2>2. CASE /\ RowOf(c).live
             /\ Row(c, IF RowOf(c).status = "completed" THEN "completed" ELSE "deleting")
             /\ RowOf(c).status # "completed"
             /\ call' = Passed(c, "deleting")
             /\ OnlyRows
    <3>1. rows[r].live /\ rows' = [rows EXCEPT ![r].status = "deleting"]
      BY <2>2 DEF RowOf, Row
    <3>2. /\ rows' \in [Requests -> ARow] /\ rows'[r].status = "deleting"
          /\ \A q \in Requests : q # r => rows'[q] = rows[q]
          /\ \A q \in Requests : rows'[q].receipt = rows[q].receipt
          /\ \A q \in Requests : rows'[q] # NoRow => rows[q] # NoRow
      BY <3>1, <2>d, StatusOnly
    <3>3. intents' = intents /\ store' = store /\ auth' = auth /\ UNCHANGED <<removed, browser, asked>>
      BY <2>2 DEF OnlyRows
    <3>4. \A after \in StepsOf(o) : <<"deleting", after>> \in Follows => Stands(intents'[n], after)
      BY <2>d, <3>3, FollowsOnly DEF Stands
    <3>5. ServerStep(c, "deleting")
      BY <2>2, <2>d, <3>2, <3>3, <3>4, <1>t, <1>k, <1>a DEF ServerStep
    <3> QED BY <3>5, Serving
  <2>3. CASE /\ RowOf(c).live
             /\ Row(c, IF RowOf(c).status = "completed" THEN "completed" ELSE "deleting")
             /\ RowOf(c).status = "completed"
             /\ call' = Replied(c, "completed")
             /\ OnlyRows
    <3>1. rows' = rows
      BY <2>3, <2>d, <1>t DEF RowOf, Row, ARow
    <3>2. Refuse(c, "completed")
      BY <2>3, <3>1, <1>2 DEF Refuse, ServerUnchanged, OnlyRows, server, database, browser
    <3> QED BY <3>2, <2>d, <1>a, Refusing
  <2> QED BY <1>2, <2>2, <2>3, <2>d, <1>g DEF MarkDeleting
<1>3. CASE DeleteAuthUser(c)
  <2>d. /\ Doing(c, "identity") /\ n \in Calls /\ r \in Requests /\ Running(c)
        /\ Stands(intents[n], "identity") /\ call[c].status \in Answers
    BY <1>3, Doings DEF DeleteAuthUser, ACall
  <2>1. /\ auth' = FALSE /\ store' = store \ Workspaces /\ call' = Passed(c, call[c].status)
        /\ UNCHANGED <<rows, intents, removed, browser, asked>>
    BY <1>3 DEF DeleteAuthUser, IdentityGone
  <2>2. \A after \in StepsOf(o) : <<"identity", after>> \in Follows => Stands(intents'[n], after)
    BY <2>d, <2>1, FollowsOnly DEF Stands
  <2>3. store' \in SUBSET store /\ store' \cap Workspaces = {}
    BY <2>1
  <2>4. ServerStep(c, "identity")
    BY <2>d, <2>1, <2>2, <2>3, <1>t, <1>k DEF ServerStep
  <2> QED BY <2>4, Serving
<1>4. CASE MarkCompleted(c)
  <2>d. /\ Doing(c, "complete") /\ n \in Calls /\ r \in Requests /\ Running(c)
    BY <1>4, Doings DEF MarkCompleted
  <2>2. CASE RowOf(c).live /\ Row(c, "completed") /\ call' = Passed(c, "completed") /\ OnlyRows
    <3>1. rows[r].live /\ rows' = [rows EXCEPT ![r].status = "completed"]
      BY <2>2 DEF RowOf, Row
    <3>2. /\ rows' \in [Requests -> ARow] /\ rows'[r].status = "completed"
          /\ \A q \in Requests : q # r => rows'[q] = rows[q]
          /\ \A q \in Requests : rows'[q].receipt = rows[q].receipt
          /\ \A q \in Requests : rows'[q] # NoRow => rows[q] # NoRow
      BY <3>1, <2>d, StatusOnly
    <3>3. intents' = intents /\ store' = store /\ auth' = auth /\ UNCHANGED <<removed, browser, asked>>
      BY <2>2 DEF OnlyRows
    <3>4. \A after \in StepsOf(o) : <<"complete", after>> \notin Follows
      BY FollowsOnly
    <3>5. ServerStep(c, "complete")
      BY <2>2, <2>d, <3>2, <3>3, <3>4, <1>t, <1>k, <1>a DEF ServerStep
    <3> QED BY <3>5, Serving
  <2> QED BY <1>4, <2>2, <2>d, <1>g DEF MarkCompleted
<1> QED BY <1>1, <1>2, <1>3, <1>4

\* A call that has read its row, or looked for the identity: s is left to do.
ReadingStep(c, s, n) ==
    /\ Doing(c, "begin") \/ Doing(c, "lookup") \/ Doing(c, "exists")
    /\ call' \in [Calls -> ACall] /\ \A d \in Calls : d # c => call'[d] = call[d]
    /\ call'[c].todo = s /\ call'[c].receipt = n /\ call'[c].req = call[c].req
    /\ call'[c].at = call[c].at /\ call'[c].kind = call[c].kind
    /\ n \in Calls /\ call[c].req \in asked
    /\ s \in Seq(Steps) /\ OrderOf(OperationOf(c), s) /\ CompletesGone(s, ~auth)
    /\ s # <<>> => Head(s) \in {"exists", "prepare", "workspace"}
    /\ UNCHANGED <<intents, store, auth, removed, browser, asked>>
    /\ rows' \in [Requests -> ARow]

LEMMA Reading ==
  ASSUME DeletionInv, NEW c \in Calls, NEW s, NEW n, ReadingStep(c, s, n)
  PROVE  /\ DeletionTypeOK' /\ Growing /\ Running(c) /\ Running(c)' /\ (\A d \in Calls : CallOf(d)')
         /\ \A d \in Calls : Running(d)' => call'[d].req \in Requests /\ capability'[call'[d].req] # None
         /\ \A d \in Calls : d # c => Same(d)
         /\ (Begun(c) => Begun(c)') /\ ~Doing(c, "begin")'
         /\ OperationOf(c) \in Operations /\ OperationOf(c)' = OperationOf(c)
<1>1. UNCHANGED <<intents, store, auth, removed, capability, recovery, file, asked>>
  BY DEF ReadingStep, browser
<1>2. DeletionTypeOK' /\ Growing
  BY <1>1 DEF ReadingStep, DeletionInv, DeletionTypeOK, Growing
<1>3. Running(c) /\ OperationOf(c) \in Operations /\ call[c].req \in Requests /\ capability[call[c].req] # None
  BY Doings DEF ReadingStep
<1>4. \A d \in Calls : d # c => Same(d)
  BY DEF ReadingStep, Same, Running, Begun, Doing, Next_
<1>5. Running(c)' /\ OperationOf(c)' = OperationOf(c)
  BY <1>1, <1>3 DEF ReadingStep, Running, OperationOf
<1>6. ~First(c)' /\ ~Doing(c, "begin")'
  BY DEF ReadingStep, First, Doing, Next_
<1>7. call'[c].todo # <<>> => Stands(intents[call[c].receipt], Next_(c))'
  BY DEF ReadingStep, Stands, Next_
<1>8. OrderOf(OperationOf(c), call[c].todo)' /\ CompletesGone(call'[c].todo, ~auth')
  <2>1. OrderOf(OperationOf(c), s) /\ call'[c].todo = s /\ CompletesGone(s, ~auth)
    BY DEF ReadingStep
  <2>2. OrderOf(OperationOf(c), call[c].todo)'
    BY <2>1, <1>5 DEF OrderOf
  <2> QED BY <2>1, <2>2, <1>1
<1>9. CallOf(c)'
  <2>1. call[c].kind # "none"
    BY <1>3 DEF DeletionInv, CallOf
  <2> QED BY <2>1, <1>1, <1>6, <1>7, <1>8 DEF ReadingStep, CallOf
<1>10. \A d \in Calls : d # c =>
         CallOf(d)' /\ (Running(d)' => call'[d].req \in Requests /\ capability'[call'[d].req] # None)
  BY <1>2, <1>4, CallStays
<1>11. Begun(c) => Begun(c)'
  BY <1>6 DEF ReadingStep, Begun
<1> QED BY <1>1, <1>2, <1>3, <1>4, <1>5, <1>6, <1>9, <1>10, <1>11 DEF ReadingStep

\* The receipt it has read was held already.
LEMMA ReadingHeld ==
  ASSUME DeletionInv, NEW c \in Calls, NEW s, NEW n, ReadingStep(c, s, n), rows' = rows,
         Holder(n, OperationOf(c))
  PROVE  DeletionInv'
<1>1. UNCHANGED <<intents, store, auth, removed, capability, recovery, file, asked>>
  BY DEF ReadingStep, browser
<1>2. /\ DeletionTypeOK' /\ Growing /\ Running(c) /\ Running(c)' /\ (\A d \in Calls : CallOf(d)')
      /\ \A d \in Calls : Running(d)' => call'[d].req \in Requests /\ capability'[call'[d].req] # None
      /\ \A d \in Calls : d # c => Same(d)
      /\ (Begun(c) => Begun(c)') /\ OperationOf(c)' = OperationOf(c)
  BY Reading
<1>3. CapabilitiesStand'
  BY <1>1, <1>2 DEF DeletionInv, CapabilitiesStand
<1>4. \A m \in Calls, o \in Operations : Holder(m, o)' => Holder(m, o)
  <2> SUFFICES ASSUME NEW m \in Calls, NEW o \in Operations, Holder(m, o)' PROVE Holder(m, o)
    OBVIOUS
  <2>1. CASE RowHolds(m, o)'
    BY <2>1, <1>2, RowHoldsStays DEF Holder
  <2>2. CASE CallHolds(m, o)'
    <3>1. PICK d \in Calls : Running(d)' /\ call'[d].receipt = m /\ OperationOf(d)' = o
      BY <2>2 DEF CallHolds
    <3>2. CASE d = c
      BY <3>1, <3>2, <1>2 DEF ReadingStep
    <3>3. CASE d # c
      BY <3>1, <3>3, <1>2, CallHoldsStays DEF Same, Holder
    <3> QED BY <3>2, <3>3
  <2> QED BY <2>1, <2>2 DEF Holder
<1>5. \A m \in Calls : ReceiptOf(m)'
  BY <1>1, <1>2, <1>4, ReceiptStays DEF IntentKept, Same
<1>6. OneRecent' /\ CompletedExecuted' /\ IdentityStays'
  BY <1>1 DEF DeletionInv, OneRecent, CompletedExecuted, IdentityStays
<1> QED BY <1>2, <1>3, <1>5, <1>6 DEF DeletionInv

\* A row in the hands of a query.
LEMMA LookupInv ==
  ASSUME DeletionInv, NEW c \in Calls, Lookup(c)
  PROVE  DeletionInv'
<1> DEFINE r == call[c].req
           n == rows[r].receipt
           o == OperationOf(c)
<1>1. /\ Doing(c, "lookup") /\ Running(c) /\ call[c] \in ACall /\ r \in Requests /\ o \in Operations
      /\ call \in [Calls -> ACall]
  BY Doings DEF Lookup, DeletionInv, DeletionTypeOK
<1>2. CASE Refuse(c, "404") \/ Refuse(c, "410")
  BY <1>1, <1>2, Refusing DEF Answers
<1>3. ASSUME NEW s \in {<<>>, <<"exists">>}, s # <<>> => o = "delete_account",
             rows[r] # NoRow, call' = [ReadRow(c) EXCEPT ![c].todo = s]
      PROVE  DeletionInv'
  <2>1. rows[r].receipt \in Calls /\ rows[r].status \in Answers /\ r \in asked
    BY <1>1, <1>3 DEF DeletionInv, DeletionTypeOK, CapabilitiesStand, ARow, Answers
  <2>2. /\ s \in Seq(Steps) /\ OrderOf(o, s) /\ CompletesGone(s, ~auth)
        /\ s # <<>> => Head(s) = "exists"
    <3>1. CASE s = <<>>
      BY <3>1 DEF OrderOf, CompletesGone
    <3>2. CASE s = <<"exists">>
      BY <3>2, <1>3 DEF OrderOf, CompletesGone, Steps, StepsOf
    <3> QED BY <3>1, <3>2
  <2> DEFINE new == [call[c] EXCEPT !.status = rows[r].status, !.receipt = n, !.todo = s]
  <2>3. call' = [call EXCEPT ![c] = new]
    BY <1>1, <1>3 DEF ReadRow, RowOf, ACall
  <2>4. /\ new \in ACall /\ new.todo = s /\ new.receipt = n /\ new.req = call[c].req
        /\ new.at = call[c].at /\ new.kind = call[c].kind
    BY <1>1, <2>1, <2>2 DEF ACall
  <2> HIDE DEF new
  <2>5. call' \in [Calls -> ACall] /\ call'[c] = new /\ \A d \in Calls : d # c => call'[d] = call[d]
    BY <1>1, <2>3, <2>4
  <2>6. /\ UNCHANGED <<rows, intents, store, auth, removed, browser, asked>>
        /\ rows \in [Requests -> ARow]
    BY DEF Lookup, ServerUnchanged, server, database, DeletionInv, DeletionTypeOK
  <2>7. ReadingStep(c, s, n)
    BY <1>1, <2>1, <2>2, <2>4, <2>5, <2>6 DEF ReadingStep
  <2>8. Holder(n, o)
    BY <1>1 DEF Holder, RowHolds, OperationOf
  <2> QED BY <2>6, <2>7, <2>8, ReadingHeld
<1>4. CASE RowOf(c) = NoRow \/ ~RowOf(c).live
  BY <1>2, <1>4 DEF Lookup, Refuse
<1>5. CASE ~(RowOf(c) = NoRow \/ ~RowOf(c).live)
  BY <1>3, <1>5 DEF Lookup, RowOf
<1> QED BY <1>4, <1>5

\* The identity is looked for.
LEMMA AuthUserExistsInv ==
  ASSUME DeletionInv, NEW c \in Calls, AuthUserExists(c)
  PROVE  DeletionInv'
<1> DEFINE n == call[c].receipt
           o == OperationOf(c)
           s == IF auth THEN <<>> ELSE Resumed
<1>1. /\ Doing(c, "exists") /\ Running(c) /\ call[c] \in ACall /\ o = "delete_account" /\ n \in Calls
      /\ call[c].req \in asked /\ Holder(n, o) /\ call \in [Calls -> ACall]
  <2>1. Doing(c, "exists") /\ "exists" \in StepsOf(o)
    BY Doings DEF AuthUserExists
  <2>2. o = "delete_account"
    BY <2>1, Doings DEF StepsOf, Operations
  <2> QED BY <2>1, <2>2, Doings DEF DeletionInv, DeletionTypeOK
<1>2. /\ s \in Seq(Steps) /\ OrderOf(o, s) /\ CompletesGone(s, ~auth)
      /\ s # <<>> => Head(s) = "prepare"
  <2>1. CASE auth
    BY <2>1 DEF OrderOf, CompletesGone
  <2>2. CASE ~auth
    BY <2>2, <1>1, Resumes DEF CompletesGone
  <2> QED BY <2>1, <2>2
<1>3. call' = [call EXCEPT ![c] = [call[c] EXCEPT !.todo = s]]
  BY DEF AuthUserExists
<1> HIDE DEF s
<1>4. [call[c] EXCEPT !.todo = s] \in ACall
  BY <1>1, <1>2 DEF ACall
<1>5. /\ call' \in [Calls -> ACall] /\ \A d \in Calls : d # c => call'[d] = call[d]
      /\ call'[c].todo = s /\ call'[c].receipt = n /\ call'[c].req = call[c].req
      /\ call'[c].at = call[c].at /\ call'[c].kind = call[c].kind
  BY <1>1, <1>3, <1>4 DEF ACall
<1>6. UNCHANGED <<rows, intents, store, auth, removed, browser, asked>> /\ rows \in [Requests -> ARow]
  BY DEF AuthUserExists, ServerUnchanged, server, database, DeletionInv, DeletionTypeOK
<1>7. ReadingStep(c, s, n)
  BY <1>1, <1>2, <1>5, <1>6 DEF ReadingStep
<1> QED BY <1>1, <1>6, <1>7, ReadingHeld

\* A request is accepted, or found accepted.
LEMMA BeginInv ==
  ASSUME DeletionInv, NEW c \in Calls, Begin(c)
  PROVE  DeletionInv'
<1> DEFINE r == call[c].req
           o == OperationOf(c)
           row == RowAfterBegin(c)
           s == Chain(o, row.status)
           n == row.receipt
           new == [call[c] EXCEPT !.todo = s, !.status = row.status, !.receipt = n]
<1>1. /\ Doing(c, "begin") /\ Running(c) /\ call[c] \in ACall /\ r \in Requests /\ o \in Operations
      /\ call \in [Calls -> ACall] /\ r \in asked /\ rows \in [Requests -> ARow]
      /\ capability[r] # None /\ store \in SUBSET Items
  BY Doings DEF Begin, DeletionInv, DeletionTypeOK
<1>2. /\ rows' = [rows EXCEPT ![r] = row]
      /\ UNCHANGED <<intents, store, auth, removed, browser, asked>>
  BY DEF Begin, OnlyRows
<1>3. row \in ARow /\ n \in Calls /\ row.status \in Answers
  <2>1. CASE rows[r] = NoRow
    <3>1. Scope(c) \in SUBSET (Items \cup {None})
      <4>1. capability[r] \in ACapability
        BY <1>1 DEF DeletionInv, DeletionTypeOK
      <4>2. o = "delete_workspace" => WorkspaceOf(c) \in Items \cup {None}
        BY <4>1 DEF WorkspaceOf, ACapability, Items
      <4> QED BY <4>2, <1>1 DEF Scope
    <3> QED BY <2>1, <3>1 DEF RowAfterBegin, RowOf, ARow, Answers
  <2>2. CASE rows[r] # NoRow
    BY <2>2, <1>1 DEF RowAfterBegin, RowOf, ARow, Answers, DeletionInv, CapabilitiesStand
  <2> QED BY <2>1, <2>2
<1>4. CASE ~row.live
  <2>1. rows[r] # NoRow /\ row = rows[r]
    BY <1>4 DEF RowAfterBegin, RowOf
  <2>2. rows' = rows
    BY <2>1, <1>1, <1>2
  <2>3. Refuse(c, "410")
    BY <1>4, <1>2, <2>2 DEF Begin, Refuse, ServerUnchanged, OnlyRows, server, database, browser
  <2> QED BY <2>3, <1>1, Refusing DEF Answers
<1>5. CASE row.live
  <2>1. call' = [call EXCEPT ![c] = new]
    BY <1>5, <1>1 DEF Begin, ACall
  <2>2. /\ s \in Seq(Steps) /\ OrderOf(o, s) /\ CompletesGone(s, ~auth)
        /\ s # <<>> => Head(s) \in {"prepare", "workspace"}
    BY <1>1, Chains DEF CompletesGone
  <2>3. /\ new \in ACall /\ new.todo = s /\ new.receipt = n /\ new.req = r
        /\ new.at = call[c].at /\ new.kind = call[c].kind
    BY <1>1, <1>3, <2>2 DEF ACall
  <2>4. /\ call' \in [Calls -> ACall] /\ call'[c] = new /\ \A d \in Calls : d # c => call'[d] = call[d]
    BY <1>1, <2>1, <2>3
  <2>5. rows' \in [Requests -> ARow] /\ rows'[r] = row /\ \A q \in Requests : q # r => rows'[q] = rows[q]
    BY <1>1, <1>2, <1>3
  <2>6. ReadingStep(c, s, n)
    BY <1>1, <1>2, <1>3, <2>2, <2>3, <2>4, <2>5 DEF ReadingStep
  <2> HIDE DEF s, new, row
  <2>7. CASE rows[r] # NoRow
    <3>1. row = rows[r]
      BY <2>7 DEF RowAfterBegin, RowOf, row
    <3>2. rows' = rows
      BY <3>1, <1>1, <1>2
    <3>3. Holder(n, o)
      BY <3>1, <1>1 DEF Holder, RowHolds, OperationOf
    <3> QED BY <2>6, <3>2, <3>3, ReadingHeld
  <2>8. CASE rows[r] = NoRow
    <3>1. n = c /\ row.status = "pending"
      BY <2>8 DEF RowAfterBegin, RowOf, row
    <3>2. /\ DeletionTypeOK' /\ Growing /\ Running(c) /\ Running(c)' /\ (\A d \in Calls : CallOf(d)')
          /\ \A d \in Calls : Running(d)' => call'[d].req \in Requests /\ capability'[call'[d].req] # None
          /\ \A d \in Calls : d # c => Same(d)
          /\ (Begun(c) => Begun(c)') /\ ~Doing(c, "begin")' /\ OperationOf(c)' = o
      BY <2>6, Reading
    <3>3. UNCHANGED <<intents, store, auth, removed, capability, recovery, file, asked>>
      BY <1>2 DEF browser
    <3>4. CapabilitiesStand'
      BY <1>1, <1>3, <2>5, <3>2, <3>3 DEF DeletionInv, CapabilitiesStand
    <3>5. \A m \in Calls, p \in Operations : m # c /\ Holder(m, p)' => Holder(m, p)
      <4> SUFFICES ASSUME NEW m \in Calls, NEW p \in Operations, m # c, Holder(m, p)'
                   PROVE  Holder(m, p)
        OBVIOUS
      <4>1. CASE RowHolds(m, p)'
        <5>1. \A q \in Requests : rows'[q].receipt = m => rows[q].receipt = m
          BY <2>5, <3>1
        <5> QED BY <4>1, <5>1, <3>2, RowHoldsStays DEF Holder
      <4>2. CASE CallHolds(m, p)'
        <5>1. PICK d \in Calls : Running(d)' /\ call'[d].receipt = m /\ OperationOf(d)' = p
          BY <4>2 DEF CallHolds
        <5>2. d # c
          BY <5>1, <2>3, <2>4, <3>1
        <5> QED BY <5>1, <5>2, <3>2, CallHoldsStays DEF Same, Holder
      <4> QED BY <4>1, <4>2 DEF Holder
    <3>6. \A m \in Calls : m # c => ReceiptOf(m)'
      BY <3>2, <3>3, <3>5, ReceiptStays DEF IntentKept, Same
    <3>7. ReceiptOf(c)'
      <4>1. ReceiptOf(c) /\ ~Begun(c)
        BY <1>1 DEF DeletionInv, Begun
      <4>2. intents[c] = NoIntent /\ intents[c].state = "none" /\ \A p \in Operations : ~Holder(c, p)
        BY <4>1 DEF ReceiptOf
      <4>3. \A p \in Operations : Holder(c, p)' => p = o
        <5> SUFFICES ASSUME NEW p \in Operations, Holder(c, p)' PROVE p = o
          OBVIOUS
        <5>1. CASE RowHolds(c, p)'
          <6>1. PICK q \in Requests : rows'[q].receipt = c /\ capability'[q].operation = p
            BY <5>1 DEF RowHolds
          <6>2. CASE q = r
            BY <6>1, <6>2, <3>3 DEF OperationOf
          <6>3. CASE q # r
            <7>1. rows[q].receipt = c
              BY <6>1, <6>3, <2>5
            <7>2. rows[q] # NoRow
              BY <7>1 DEF NoRow, Calls
            <7>3. capability[q] \in ACapability
              BY <7>2 DEF DeletionInv, CapabilitiesStand, DeletionTypeOK
            <7>4. capability[q].operation \in Operations
              BY <7>3 DEF ACapability
            <7> QED BY <7>1, <7>4, <4>2 DEF Holder, RowHolds
          <6> QED BY <6>2, <6>3
        <5>2. CASE CallHolds(c, p)'
          <6>1. PICK d \in Calls : Running(d)' /\ call'[d].receipt = c /\ OperationOf(d)' = p
            BY <5>2 DEF CallHolds
          <6>2. CASE d = c
            BY <6>1, <6>2, <3>2
          <6>3. CASE d # c
            BY <6>1, <6>3, <3>2, <4>2, CallHoldsStays DEF Same, Holder
          <6> QED BY <6>2, <6>3
        <5> QED BY <5>1, <5>2 DEF Holder
      <4>4. Begun(c)'
        <5>1. call[c].kind # "none"
          BY <1>1 DEF DeletionInv, CallOf
        <5> QED BY <5>1, <3>2, <2>3, <2>4 DEF Begun
      <4> QED BY <4>2, <4>3, <4>4, <3>3, <1>1 DEF ReceiptOf
    <3>8. CompletedExecuted'
      BY <2>5, <3>1, <3>3 DEF DeletionInv, CompletedExecuted
    <3>9. OneRecent' /\ IdentityStays'
      BY <3>3 DEF DeletionInv, OneRecent, IdentityStays
    <3> QED BY <3>2, <3>4, <3>6, <3>7, <3>8, <3>9 DEF DeletionInv
  <2> QED BY <2>7, <2>8
<1> QED BY <1>4, <1>5, <1>3 DEF ARow

----------------------------------------------------------------------------
(* Time, an operator, and the whole *)

\* Rows expire, are pruned, and limits pass; an operator removes the identity.
OutsideStep ==
    /\ UNCHANGED <<browser, asked, call>>
    /\ rows' \in [Requests -> ARow]
    /\ \A r \in Requests :
        \/ rows'[r] = NoRow
        \/ rows[r] # NoRow /\ rows'[r].receipt = rows[r].receipt /\ rows'[r].status = rows[r].status
    /\ auth' \in BOOLEAN /\ (auth' => auth) /\ removed' \in BOOLEAN /\ (removed' => ~auth')
    /\ store' \in SUBSET store /\ (~auth' => store' \cap Workspaces = {})
    /\ intents' \in [Calls -> AnIntent]
    /\ \/ intents' = intents
       \/ /\ \A n \in Calls : intents'[n] = [intents[n] EXCEPT !.recent = FALSE]
          /\ \A c \in Calls : ~Running(c)
          /\ \A r \in Requests : rows'[r] = NoRow

LEMMA Outside ==
  ASSUME DeletionInv, OutsideStep
  PROVE  DeletionInv'
<1>1. UNCHANGED <<capability, recovery, file, asked, call>>
  BY DEF OutsideStep, browser
<1>2. DeletionTypeOK'
  BY <1>1 DEF OutsideStep, DeletionInv, DeletionTypeOK
<1>3. \A n \in Calls : intents'[n].state = intents[n].state /\ intents'[n].operation = intents[n].operation
                       /\ (intents'[n].recent => intents[n].recent)
  BY DEF OutsideStep, DeletionInv, DeletionTypeOK, AnIntent
<1>4. Growing
  BY <1>1, <1>3 DEF OutsideStep, Growing
<1>5. \A c \in Calls : Same(c)
  BY <1>1 DEF Same, Running, Begun, Doing, Next_
<1>6. \A c \in Calls : CallOf(c)' /\ (Running(c)' => call'[c].req \in Requests /\ capability'[call'[c].req] # None)
  BY <1>2, <1>4, <1>5, CallStays
<1>7. CapabilitiesStand'
  BY <1>1, <1>6 DEF OutsideStep, DeletionInv, CapabilitiesStand
<1>8. \A n \in Calls : ReceiptOf(n)'
  <2> SUFFICES ASSUME NEW n \in Calls PROVE ReceiptOf(n)'
    OBVIOUS
  <2>1. CASE intents' = intents
    <3>1. IntentKept(n)
      BY <2>1 DEF IntentKept
    <3>2. \A o \in Operations : Holder(n, o)' => Holder(n, o)
      <4>1. \A r \in Requests : rows'[r].receipt = n => rows[r].receipt = n
        BY DEF OutsideStep, NoRow, Calls
      <4>2. \A o \in Operations : RowHolds(n, o)' => RowHolds(n, o)
        BY <4>1, <1>4, RowHoldsStays
      <4>3. \A o \in Operations : CallHolds(n, o)' => CallHolds(n, o)
        BY <1>1 DEF CallHolds, OperationOf, Running
      <4> QED BY <4>2, <4>3 DEF Holder
    <3> QED BY <3>1, <3>2, <1>4, <1>5, ReceiptStays DEF Same
  <2>2. CASE /\ \A m \in Calls : intents'[m] = [intents[m] EXCEPT !.recent = FALSE]
             /\ \A c \in Calls : ~Running(c)
             /\ \A r \in Requests : rows'[r] = NoRow
    <3>1. \A o \in Operations : ~Holder(n, o)'
      BY <2>2, <1>1 DEF Holder, RowHolds, CallHolds, NoRow, Calls, Running
    <3>2. ReceiptOf(n) /\ (Begun(n) => Begun(n)') /\ intents[n] \in AnIntent
      BY <1>5 DEF DeletionInv, DeletionTypeOK, Same
    <3>3. intents[n].state = "none" => intents'[n] = NoIntent
      BY <2>2, <3>2 DEF ReceiptOf, NoIntent
    <3> QED BY <3>1, <3>2, <3>3, <1>3 DEF ReceiptOf
  <2> QED BY <2>1, <2>2 DEF OutsideStep
<1>9. OneRecent'
  BY <1>3 DEF DeletionInv, OneRecent
<1>10. CompletedExecuted'
  <2>1. CASE intents' = intents
    BY <2>1, <1>1 DEF OutsideStep, DeletionInv, CompletedExecuted, NoRow
  <2>2. CASE \A r \in Requests : rows'[r] = NoRow
    BY <2>2 DEF CompletedExecuted, NoRow
  <2> QED BY <2>1, <2>2 DEF OutsideStep
<1>11. IdentityStays'
  BY DEF OutsideStep, IdentityStays
<1> QED BY <1>2, <1>6, <1>7, <1>8, <1>9, <1>10, <1>11 DEF DeletionInv

\* Time and the operator do no more than that.
LEMMA TimeInv ==
  ASSUME DeletionInv, RowExpires \/ PruneRows \/ LimitPasses \/ RemoveIdentity
  PROVE  DeletionInv'
<1>t. /\ rows \in [Requests -> ARow] /\ intents \in [Calls -> AnIntent] /\ auth \in BOOLEAN
      /\ removed \in BOOLEAN /\ (removed => ~auth) /\ (~auth => store \cap Workspaces = {})
      /\ NoRow \in ARow /\ \A r \in Requests : rows[r].live => rows[r] # NoRow
  BY DEF DeletionInv, DeletionTypeOK, IdentityStays, NoRow, ARow
<1>1. CASE RowExpires
  <2>1. PICK r \in Requests : rows[r].live /\ rows' = [rows EXCEPT ![r].live = FALSE]
    BY <1>1 DEF RowExpires
  <2>2. /\ rows' \in [Requests -> ARow] /\ rows'[r].receipt = rows[r].receipt
        /\ rows'[r].status = rows[r].status /\ \A q \in Requests : q # r => rows'[q] = rows[q]
    BY <2>1, <1>t DEF ARow
  <2>3. OutsideStep
    BY <1>1, <1>t, <2>1, <2>2 DEF RowExpires, OutsideStep
  <2> QED BY <2>3, Outside
<1>2. CASE PruneRows
  <2>1. PICK r \in Requests : rows' = [rows EXCEPT ![r] = NoRow]
    BY <1>2 DEF PruneRows
  <2>2. rows' \in [Requests -> ARow] /\ rows'[r] = NoRow /\ \A q \in Requests : q # r => rows'[q] = rows[q]
    BY <2>1, <1>t
  <2>3. OutsideStep
    BY <1>2, <1>t, <2>2 DEF PruneRows, OutsideStep
  <2> QED BY <2>3, Outside
<1>3. CASE LimitPasses
  <2>1. /\ intents' = [n \in Calls |-> [intents[n] EXCEPT !.recent = FALSE]]
        /\ rows' = [r \in Requests |-> NoRow] /\ \A c \in Calls : ~Running(c)
        /\ UNCHANGED <<store, auth, removed, browser, asked, call>>
    BY <1>3 DEF LimitPasses
  <2>2. intents' \in [Calls -> AnIntent] /\ rows' \in [Requests -> ARow]
    BY <2>1, <1>t DEF AnIntent
  <2>3. OutsideStep
    BY <1>t, <2>1, <2>2 DEF OutsideStep
  <2> QED BY <2>3, Outside
<1>4. CASE RemoveIdentity
  <2>1. OutsideStep
    BY <1>4, <1>t DEF RemoveIdentity, IdentityGone, OutsideStep
  <2> QED BY <2>1, Outside
<1> QED BY <1>1, <1>2, <1>3, <1>4

\* At first nothing was asked.
LEMMA DeletionInit == Init => DeletionInv
<1> SUFFICES ASSUME Init PROVE DeletionInv
  OBVIOUS
<1>1. DeletionTypeOK
  <2>1. NoRow \in ARow /\ NoIntent \in AnIntent
    BY DEF NoRow, NoIntent, ARow, AnIntent
  <2>2. store \in SUBSET Items
    BY DEF Init, Items
  <2> QED BY <2>1, <2>2, OverRecords DEF Init, DeletionTypeOK
<1>2. NoCall.at = "none" /\ NoIntent.state = "none" /\ ~NoIntent.recent /\ NoRow.status = "none"
      /\ NoRow.receipt = 0
  BY DEF NoCall, NoIntent, NoRow
<1>3. (\A c \in Calls : ~Running(c) /\ CallOf(c)) /\ CapabilitiesStand
  BY <1>2 DEF Init, Running, CallOf, CapabilitiesStand
<1>4. \A n \in Calls : ReceiptOf(n)
  BY <1>2, <1>3 DEF Init, ReceiptOf, Holder, RowHolds, CallHolds, Calls
<1>5. OneRecent /\ CompletedExecuted /\ IdentityStays
  BY <1>2 DEF Init, OneRecent, CompletedExecuted, IdentityStays
<1> QED BY <1>1, <1>3, <1>4, <1>5 DEF DeletionInv

\* Every step keeps the invariant.
LEMMA DeletionNext == DeletionInv /\ [Next]_vars => DeletionInv'
<1> SUFFICES ASSUME DeletionInv, [Next]_vars PROVE DeletionInv'
  OBVIOUS
<1>1. ASSUME NEW c \in Calls, Browser(c) PROVE DeletionInv'
  BY <1>1, DeleteDataInv, DeleteAccountInv, BrowserInv DEF Browser
<1>2. ASSUME NEW c \in Calls, Answer(c) \/ Unavailable(c) PROVE DeletionInv'
  <2>1. Running(c) /\ call[c].status \in Answers /\ "failed" \in Answers
    BY <1>2 DEF Answer, Unavailable, DeletionInv, DeletionTypeOK, ACall, Answers
  <2> QED BY <1>2, <2>1, Refusing DEF Answer, Unavailable
<1>3. ASSUME NEW c \in Calls, Edge(c) PROVE DeletionInv'
  BY <1>2, <1>3, BeginInv, LookupInv, AuthUserExistsInv, JournalInv, ExecuteInv, ContentInv DEF Edge
<1>4. CASE UNCHANGED vars
  <2>1. QuietStep
    BY <1>4 DEF vars, server, database, browser, QuietStep, DeletionInv, DeletionTypeOK, Growing,
                CapabilitiesStand, IdentityStays, Same, Running, Begun, Doing, Next_
  <2> QED BY <2>1, Quiet
<1> QED BY <1>1, <1>3, <1>4, PrepareRecoveryFileInv, BrowserInv, TimeInv DEF Next

\* For any requests, calls and moves the invariant of deletions holds.
THEOREM DeletionInvariant == Spec => []DeletionInv
  BY DeletionInit, DeletionNext, PTL DEF Spec

----------------------------------------------------------------------------
(* What disappears was asked for *)

\* Only three steps of a call remove anything, and the operator.
LEMMA RemovingSteps ==
  ASSUME DeletionInv, [Next]_vars, NEW i \in store \ store', removed' = removed
  PROVE  \E r \in asked : i \in Covers(r) /\ rows[r].status # "completed"
<1>1. store # store' /\ i \in Items
  BY DEF DeletionInv, DeletionTypeOK
<1>2. PICK c \in Calls : Execute(c) \/ ExecuteContentDeletion(c) \/ DeleteAuthUser(c)
  <2>1. ~(removed' = TRUE /\ IdentityGone /\ auth)
    BY DEF DeletionInv, IdentityStays
  <2> QED
    BY <1>1, <2>1 DEF Next, vars, server, database, browser, Browser, Edge, DeleteData, DeleteAccount,
       QueryStatus, Hear, StopListening, Begin, Lookup, AuthUserExists, PrepareIntent, AppendAndProve,
       Attest, MarkDeleting, MarkCompleted, Answer, Unavailable, PrepareRecoveryFile, Leave, SignIn,
       ImportRecoveryFile, CreateItem, RowExpires, PruneRows, LimitPasses, RemoveIdentity, Refuse,
       ServerUnchanged, OnlyRows, Gone
<1> DEFINE r == call[c].req
           n == call[c].receipt
           o == OperationOf(c)
<1>3. CASE Execute(c)
  <2>1. /\ Doing(c, "execute") /\ Unexecuted(n)
    BY <1>1, <1>3 DEF Execute, Refuse, ServerUnchanged, server, database
  <2>2. n \in Calls /\ r \in asked /\ o \in Operations /\ Holder(n, o) /\ "execute" \in StepsOf(o)
    BY <2>1, Doings
  <2>3. o # "delete_workspace" /\ capability[r].operation = o
    BY <2>2 DEF StepsOf, OperationOf
  <2>4. intents[n].state = "JOURNALED" /\ intents[n].operation = o /\ intents[n].recent
    BY <2>1, <2>2, HeldIntent DEF Unexecuted
  <2>5. rows[r].status # "completed"
    <3> SUFFICES ASSUME rows[r].status = "completed" PROVE FALSE
      OBVIOUS
    <3>1. PICK m \in Calls : /\ intents[m].operation = o /\ intents[m].recent
                             /\ intents[m].state = "DELETED"
      BY <2>2, <2>3 DEF DeletionInv, DeletionTypeOK, CompletedExecuted
    <3>2. m = n
      BY <2>2, <2>4, <3>1 DEF DeletionInv, OneRecent
    <3> QED BY <2>4, <3>1, <3>2
  <2>6. i \in Covers(r)
    BY <1>1, <2>3 DEF Covers
  <2> QED BY <2>2, <2>5, <2>6
<1>4. CASE ExecuteContentDeletion(c)
  <2>1. PICK step \in {"workspace", "business"} : Doing(c, step)
    BY <1>4 DEF ExecuteContentDeletion
  <2>2. r \in asked /\ step \in StepsOf(o) /\ o \in Operations /\ capability[r].operation = o
    BY <2>1, Doings DEF OperationOf
  <2>3. rows[r].status # "completed" /\ i \in Content(c)
    BY <1>1, <1>4 DEF ExecuteContentDeletion, Gone, Refuse, ServerUnchanged, server, database, RowOf
  <2>4. i \in Covers(r)
    <3>1. CASE step = "workspace"
      BY <3>1, <2>1, <2>2, <2>3, <1>1 DEF Doing, Next_, Content, Covers, WorkspaceOf
    <3>2. CASE step = "business"
      BY <3>2, <2>2, <1>1 DEF Covers, StepsOf
    <3> QED BY <3>1, <3>2
  <2> QED BY <2>2, <2>3, <2>4
<1>5. CASE DeleteAuthUser(c)
  <2>1. Doing(c, "identity") /\ i \in store \cap Workspaces
    BY <1>5 DEF DeleteAuthUser, IdentityGone
  <2>2. r \in asked /\ "identity" \in StepsOf(o) /\ o \in Operations /\ capability[r].operation = o
    BY <2>1, Doings DEF OperationOf
  <2>3. o = "delete_account" /\ auth
    BY <2>1, <2>2 DEF StepsOf, Operations, DeletionInv, IdentityStays
  <2>4. rows[r].status # "completed"
    BY <2>2, <2>3 DEF DeletionInv, DeletionTypeOK, CompletedExecuted
  <2> QED BY <1>1, <2>2, <2>3, <2>4 DEF Covers
<1> QED BY <1>2, <1>3, <1>4, <1>5

\* However often a deletion is repeated, however late a call arrives and
\* whatever expires in between, an item disappears only for a request that the
\* user sent, that covers it, and whose row does not say it is complete.
THEOREM OnlyAuthorisedDeletions == Spec => DeletionsAreAuthorised
<1>1. DeletionInv /\ [Next]_vars =>
        [\A i \in store \ store' :
            \/ removed' # removed
            \/ \E r \in asked : i \in Covers(r) /\ rows[r].status # "completed"]_vars
  BY RemovingSteps
<1> QED BY <1>1, DeletionInvariant, PTL DEF Spec, DeletionsAreAuthorised

\* The receipt of an account's deletion means that the identity is gone, and
\* that of any journaled deletion that an intent of its kind was executed.
THEOREM ReceiptsMeanDeletion == Spec => []CompletedExecuted
<1>1. DeletionInv => CompletedExecuted
  BY DEF DeletionInv
<1> QED BY <1>1, DeletionInvariant, PTL

----------------------------------------------------------------------------
(* What a completed row speaks for *)

\* A row is never pruned under a call that works for it.  The times see to
\* that nearly always: a row lives an hour, it is pruned within five minutes
\* after that, and a call has ten seconds; a call that began in the last of
\* those seconds is the exception.
RowsOutliveCalls ==
    \A r \in Requests : rows[r] # NoRow /\ rows'[r] = NoRow =>
        \A c \in Calls : ~(Running(c) /\ call[c].req = r)

\* A workspace whose deletion is asked for was created.
CapabilityMade(r) ==
    capability[r] # None /\ capability[r].operation = "delete_workspace" =>
        capability[r].workspace \in made \cap Workspaces

\* What a row covers was there when it was begun; an executed intent leaves no
\* connection of it, and a completed row nothing.
RowDone(r) ==
    rows[r] # NoRow =>
        /\ rows[r].scope \subseteq made
        /\ capability[r].operation = "delete_workspace" => rows[r].scope = {capability[r].workspace}
        /\ intents[rows[r].receipt].state = "DELETED" => rows[r].scope \cap Connections \cap store = {}
        /\ rows[r].status = "completed" => rows[r].scope \cap store = {}

\* A call that has read its row works under the row's receipt.
CallRow(c) ==
    Running(c) /\ ~First(c) =>
        rows[call[c].req] # NoRow /\ rows[call[c].req].receipt = call[c].receipt

DoneInv ==
    /\ made \subseteq Items /\ store \subseteq made
    /\ \A r \in Requests : CapabilityMade(r) /\ RowDone(r)
    /\ \A c \in Calls : CallRow(c)

\* Rows and calls as most steps leave them.
RowKept(r) ==
    /\ rows[r] # NoRow
    /\ rows'[r].receipt = rows[r].receipt /\ rows'[r].scope = rows[r].scope
    /\ rows'[r].status = "completed" =>
         rows[r].status = "completed" \/ rows[r].scope \cap store' = {}
CallKept(c) ==
    Running(c)' =>
        /\ Running(c) /\ (First(c) => First(c)')
        /\ call'[c].req = call[c].req /\ call'[c].receipt = call[c].receipt
CapabilityKept(r) == capability'[r] = capability[r] \/ (capability[r] = None /\ CapabilityMade(r)')

\* What every step keeps: no item returns, and no intent is executed while a
\* connection is left.
DoneStep ==
    /\ made \subseteq made' /\ made' \subseteq Items /\ store' \subseteq made' /\ store' \cap made \subseteq store
    /\ \A r \in Requests : CapabilityKept(r)
    /\ \A r \in Requests : rows'[r] = NoRow \/ RowKept(r) \/ (rows[r] = NoRow /\ RowDone(r)')
    /\ \A n \in Calls : intents'[n].state = "DELETED" =>
         intents[n].state = "DELETED" \/ store' \cap Connections = {}
    /\ \A c \in Calls : CallKept(c) \/ CallRow(c)'

\* Such a step, with no row pruned under its call, keeps what rows stand for.
LEMMA DoneStays ==
  ASSUME DeletionInv, DoneInv, DoneStep, RowsOutliveCalls
  PROVE  DoneInv'
<1>1. made' \subseteq Items /\ store' \subseteq made' /\ made \subseteq made' /\ store' \cap made \subseteq store
  BY DEF DoneStep
<1>2. ASSUME NEW r \in Requests PROVE CapabilityMade(r)'
  BY <1>1 DEF DoneStep, CapabilityKept, CapabilityMade, DoneInv
<1>3. ASSUME NEW r \in Requests, rows[r] # NoRow
      PROVE  capability'[r] = capability[r] /\ rows[r].receipt \in Calls
  BY <1>3 DEF DoneStep, CapabilityKept, DeletionInv, CapabilitiesStand
<1>4. ASSUME NEW r \in Requests PROVE RowDone(r)'
  <2>1. CASE rows'[r] = NoRow \/ RowDone(r)'
    BY <2>1 DEF RowDone
  <2>2. CASE RowKept(r)
    <3>1. capability'[r] = capability[r] /\ rows[r].receipt \in Calls /\ RowDone(r) /\ rows[r] # NoRow
      BY <2>2, <1>3 DEF RowKept, DoneInv
    <3>2. /\ rows[r].scope \subseteq made
          /\ capability[r].operation = "delete_workspace" => rows[r].scope = {capability[r].workspace}
          /\ intents[rows[r].receipt].state = "DELETED" => rows[r].scope \cap Connections \cap store = {}
          /\ rows[r].status = "completed" => rows[r].scope \cap store = {}
      BY <3>1 DEF RowDone
    <3>3. intents'[rows[r].receipt].state = "DELETED" => rows[r].scope \cap Connections \cap store' = {}
      BY <3>1, <3>2, <1>1 DEF DoneStep
    <3>4. rows'[r].status = "completed" => rows[r].scope \cap store' = {}
      BY <2>2, <3>2, <1>1 DEF RowKept
    <3>5. rows[r].scope \subseteq made'
      BY <3>2, <1>1
    <3>6. rows'[r].receipt = rows[r].receipt /\ rows'[r].scope = rows[r].scope
      BY <2>2 DEF RowKept
    <3> QED BY <3>1, <3>2, <3>3, <3>4, <3>5, <3>6 DEF RowDone
  <2> QED BY <2>1, <2>2 DEF DoneStep
<1>5. ASSUME NEW c \in Calls PROVE CallRow(c)'
  <2>1. CASE CallKept(c) /\ Running(c)' /\ ~First(c)'
    <3>1. Running(c) /\ ~First(c) /\ call'[c].req = call[c].req /\ call'[c].receipt = call[c].receipt
      BY <2>1 DEF CallKept
    <3>2. call[c].req \in Requests /\ rows[call[c].req] # NoRow /\ rows[call[c].req].receipt = call[c].receipt
      BY <3>1 DEF DeletionInv, CapabilitiesStand, DoneInv, CallRow
    <3>3. rows'[call[c].req] # NoRow
      BY <3>1, <3>2 DEF RowsOutliveCalls
    <3>4. rows'[call[c].req].receipt = rows[call[c].req].receipt
      BY <3>2, <3>3 DEF DoneStep, RowKept
    <3> QED BY <3>1, <3>2, <3>3, <3>4 DEF CallRow
  <2>2. CASE ~(Running(c)' /\ ~First(c)')
    BY <2>2 DEF CallRow
  <2> QED BY <2>1, <2>2 DEF DoneStep
<1> QED BY <1>1, <1>2, <1>4, <1>5 DEF DoneInv

\* A step that leaves the server's rows and the capabilities as they are.
CallsOnly ==
    /\ UNCHANGED <<rows, intents, store, made, capability>>
    /\ \A c \in Calls : CallKept(c) \/ CallRow(c)'

\* It is such a step.
LEMMA CallsOnlyDone ==
  ASSUME DeletionInv, DoneInv, CallsOnly
  PROVE  DoneStep
  BY DEF DoneInv, CallsOnly, DoneStep, CapabilityKept, RowKept

\* A call that is answered is over.
LEMMA AnswerKeeps ==
  ASSUME DeletionTypeOK, NEW c \in Calls, NEW answer, call' = Replied(c, answer)
  PROVE  \A d \in Calls : CallKept(d)
<1> DEFINE new == [call[c] EXCEPT !.at = "answered", !.todo = <<>>, !.status = "none", !.answer = answer]
<1>1. call[c] \in ACall /\ Over.at = "none"
  BY OverRecords DEF DeletionTypeOK
<1>2. new.at = "answered"
  BY <1>1 DEF ACall
<1>3. call' = [call EXCEPT ![c] = IF call[c].heard /\ answer # "failed" THEN new ELSE Over]
  BY DEF Replied
<1> HIDE DEF new
<1>4. call'[c].at # "running" /\ \A d \in Calls : d # c => call'[d] = call[d]
  BY <1>1, <1>2, <1>3 DEF DeletionTypeOK
<1> QED BY <1>4 DEF CallKept, Running, First, Doing, Next_

\* A call that passes a step keeps its row and its receipt.
LEMMA PassKeeps ==
  ASSUME DeletionInv, NEW c \in Calls, NEW step, Doing(c, step), step \notin {"begin", "lookup"},
         NEW status, call' = Passed(c, status)
  PROVE  \A d \in Calls : CallKept(d)
<1> DEFINE new == [call[c] EXCEPT !.todo = Tail(call[c].todo), !.status = status]
<1>1. call[c] \in ACall /\ Running(c) /\ ~First(c)
  BY Doings DEF First, Doing
<1>2. new.req = call[c].req /\ new.receipt = call[c].receipt /\ new.at = call[c].at
  BY <1>1 DEF ACall
<1>3. call' = [call EXCEPT ![c] = new]
  BY DEF Passed
<1> HIDE DEF new
<1>4. call'[c] = new /\ \A d \in Calls : d # c => call'[d] = call[d]
  BY <1>3 DEF DeletionInv, DeletionTypeOK
<1> QED BY <1>1, <1>2, <1>4 DEF CallKept, Running, First, Doing, Next_

\* A call that is sent has read no row.
LEMMA SendKeeps ==
  ASSUME DeletionTypeOK, NEW c \in Calls, NEW kind, NEW r, NEW first \in {"begin", "lookup"},
         Sent(c, kind, r, first)
  PROVE  \A d \in Calls : CallKept(d) \/ CallRow(d)'
<1> DEFINE new == [NoCall EXCEPT !.kind = kind, !.req = r, !.todo = <<first>>, !.at = "running",
                                 !.heard = TRUE]
<1>1. new.todo = <<first>> /\ new.at = "running" /\ Head(<<first>>) = first /\ <<first>> # <<>>
  BY DEF NoCall
<1>2. call' = [call EXCEPT ![c] = new]
  BY DEF Sent
<1> HIDE DEF new
<1>3. call'[c] = new /\ \A d \in Calls : d # c => call'[d] = call[d]
  BY <1>2 DEF DeletionTypeOK
<1>4. First(c)'
  BY <1>1, <1>3 DEF First, Doing, Running, Next_
<1>5. CallRow(c)'
  BY <1>4 DEF CallRow
<1> QED BY <1>3, <1>5 DEF CallKept, Running, First, Doing, Next_

\* The function goes on when nobody listens.
LEMMA UnhearKeeps ==
  ASSUME DeletionTypeOK, NEW S \in SUBSET Calls,
         call' = [c \in Calls |-> IF c \in S THEN Unheard(call[c]) ELSE call[c]]
  PROVE  \A c \in Calls : CallKept(c)
<1>1. \A c \in Calls : Unheard(call[c]).at = "running" =>
         /\ call[c].at = "running" /\ Unheard(call[c]).req = call[c].req
         /\ Unheard(call[c]).todo = call[c].todo /\ Unheard(call[c]).receipt = call[c].receipt
  BY OverRecords DEF DeletionTypeOK, Unheard, ACall
<1> QED BY <1>1 DEF CallKept, Running, First, Doing, Next_

\* The browser.
LEMMA BrowserDone ==
  ASSUME DeletionInv, DoneInv,
         \/ \E c \in Calls : Browser(c)
         \/ PrepareRecoveryFile \/ Leave \/ SignIn \/ ImportRecoveryFile \/ CreateItem
  PROVE  DoneStep
<1>t. DeletionTypeOK /\ call \in [Calls -> ACall] /\ made \subseteq Items /\ store \subseteq made
  BY DEF DeletionInv, DeletionTypeOK, DoneInv
<1>0. call' = call => \A c \in Calls : CallKept(c)
  BY DEF CallKept, Running, First, Doing, Next_
<1>1. ASSUME NEW c \in Calls, DeleteData(c) PROVE DoneStep
  <2>1. PICK o \in {"delete_workspace", "clear_business_data"},
             w \in Workspaces \cup {None}, r \in Requests :
           /\ o = "delete_workspace" => w \in made \cap Workspaces
           /\ \/ /\ recovery[o] = None /\ Fresh(r)
                 /\ capability' = [capability EXCEPT ![r] = Capability(o, w)]
              \/ UNCHANGED capability
           /\ Sent(c, "delete", r, "begin")
    BY <1>1 DEF DeleteData
  <2>2. UNCHANGED <<rows, intents, store, made>>
    BY <1>1 DEF DeleteData, server, database
  <2>3. \A q \in Requests : CapabilityKept(q)
    <3>1. CASE Fresh(r) /\ capability' = [capability EXCEPT ![r] = Capability(o, w)]
      <4>1. capability'[r] = Capability(o, w) /\ capability[r] = None
            /\ \A q \in Requests : q # r => capability'[q] = capability[q]
        BY <3>1, <1>t DEF DeletionTypeOK, Fresh
      <4>2. o = "delete_workspace" => w \in made' \cap Workspaces
        BY <2>1, <2>2
      <4>3. CapabilityMade(r)'
        BY <4>1, <4>2 DEF CapabilityMade, Capability
      <4> QED BY <4>1, <4>3 DEF CapabilityKept
    <3> QED BY <2>1, <3>1 DEF CapabilityKept
  <2>4. \A d \in Calls : CallKept(d) \/ CallRow(d)'
    BY <2>1, <1>t, SendKeeps
  <2> QED BY <2>2, <2>3, <2>4, <1>t DEF DoneStep, RowKept
<1>2. CASE PrepareRecoveryFile
  <2>1. PICK r \in Requests :
           \/ Fresh(r) /\ capability' = [capability EXCEPT ![r] = Capability("delete_account", None)]
           \/ UNCHANGED capability
    BY <1>2 DEF PrepareRecoveryFile
  <2>2. UNCHANGED <<rows, intents, store, made, call>>
    BY <1>2 DEF PrepareRecoveryFile, server, database
  <2>3. \A q \in Requests : CapabilityKept(q)
    <3>1. CASE Fresh(r) /\ capability' = [capability EXCEPT ![r] = Capability("delete_account", None)]
      <4>1. capability'[r] = Capability("delete_account", None) /\ capability[r] = None
            /\ \A q \in Requests : q # r => capability'[q] = capability[q]
        BY <3>1, <1>t DEF DeletionTypeOK, Fresh
      <4>2. CapabilityMade(r)'
        BY <4>1 DEF CapabilityMade, Capability
      <4> QED BY <4>1, <4>2 DEF CapabilityKept
    <3> QED BY <2>1, <3>1 DEF CapabilityKept
  <2> QED BY <2>2, <2>3, <1>t, <1>0 DEF DoneStep, RowKept
<1>3. ASSUME NEW c \in Calls, DeleteAccount(c) \/ QueryStatus(c) PROVE DoneStep
  <2>1. UNCHANGED <<rows, intents, store, made, capability>>
    BY <1>3 DEF DeleteAccount, QueryStatus, server, database, browser
  <2>2. \A d \in Calls : CallKept(d) \/ CallRow(d)'
    <3>1. CASE DeleteAccount(c)
      <4>1. Sent(c, "delete", recovery["delete_account"], "begin")
        BY <3>1 DEF DeleteAccount
      <4> QED BY <4>1, <1>t, SendKeeps
    <3>2. CASE QueryStatus(c)
      <4>1. PICK o \in Operations : Sent(c, "status", recovery[o], "lookup")
        BY <3>2 DEF QueryStatus
      <4> QED BY <4>1, <1>t, SendKeeps
    <3> QED BY <1>3, <3>1, <3>2
  <2> QED BY <2>1, <2>2, CallsOnlyDone DEF CallsOnly
<1>4. ASSUME NEW c \in Calls, Hear(c) PROVE DoneStep
  <2>1. call' = [call EXCEPT ![c] = Over] /\ UNCHANGED <<rows, intents, store, made, capability>>
    BY <1>4 DEF Hear, server, database
  <2>2. call'[c] = Over /\ Over.at = "none" /\ \A d \in Calls : d # c => call'[d] = call[d]
    BY <2>1, <1>t, OverRecords
  <2>3. \A d \in Calls : CallKept(d)
    BY <2>2 DEF CallKept, Running, First, Doing, Next_
  <2> QED BY <2>1, <2>3, CallsOnlyDone DEF CallsOnly
<1>5. ASSUME NEW c \in Calls, StopListening(c) PROVE DoneStep
  <2>1. /\ call' = [d \in Calls |-> IF d \in {c} THEN Unheard(call[d]) ELSE call[d]]
        /\ UNCHANGED <<rows, intents, store, made, capability>>
    BY <1>5, <1>t DEF StopListening, server, database, browser
  <2> QED BY <2>1, <1>t, UnhearKeeps, CallsOnlyDone DEF CallsOnly
<1>6. CASE Leave
  <2> DEFINE S == {d \in Calls : call[d].heard}
  <2>1. /\ call' = [d \in Calls |-> IF d \in S THEN Unheard(call[d]) ELSE call[d]]
        /\ UNCHANGED <<rows, intents, store, made, capability>>
    BY <1>6 DEF Leave, server, database
  <2>2. \A d \in Calls : CallKept(d)
    BY <2>1, <1>t, UnhearKeeps
  <2> QED BY <2>1, <2>2, CallsOnlyDone DEF CallsOnly
<1>7. CASE SignIn \/ ImportRecoveryFile
  <2>1. UNCHANGED <<rows, intents, store, made, capability, call>>
    BY <1>7 DEF SignIn, ImportRecoveryFile, server, database
  <2> QED BY <2>1, <1>0, CallsOnlyDone DEF CallsOnly
<1>8. CASE CreateItem
  <2>1. /\ \E i \in Items \ made : store' = store \cup {i} /\ made' = made \cup {i}
        /\ UNCHANGED <<rows, intents, capability, call>>
    BY <1>8 DEF CreateItem, browser
  <2>2. \A r \in Requests : rows[r] # NoRow => rows[r].scope \cap store' = rows[r].scope \cap store
    BY <2>1 DEF DoneInv, RowDone
  <2>3. made \subseteq made' /\ made' \subseteq Items /\ store' \subseteq made' /\ store' \cap made \subseteq store
    BY <2>1, <1>t
  <2> QED BY <2>1, <2>2, <2>3, <1>0 DEF DoneStep, RowKept, CapabilityKept
<1> QED BY <1>1, <1>2, <1>3, <1>4, <1>5, <1>6, <1>7, <1>8 DEF Browser

\* Answers and refusals.
LEMMA RefuseDone ==
  ASSUME DeletionInv, DoneInv, NEW c \in Calls, NEW answer, Refuse(c, answer)
  PROVE  DoneStep
  BY AnswerKeeps, CallsOnlyDone DEF CallsOnly, Refuse, ServerUnchanged, server, database, browser, DeletionInv

\* The row a query reads.
LEMMA LookupDone ==
  ASSUME DeletionInv, DoneInv, NEW c \in Calls, Lookup(c)
  PROVE  DoneStep
<1>1. /\ call[c] \in ACall /\ call \in [Calls -> ACall]
      /\ UNCHANGED <<rows, intents, store, made, capability>>
  BY DEF Lookup, ServerUnchanged, server, database, browser, DeletionInv, DeletionTypeOK
<1>2. ASSUME NEW answer, call' = Replied(c, answer) PROVE DoneStep
  BY <1>1, <1>2, AnswerKeeps, CallsOnlyDone DEF CallsOnly, DeletionInv
<1>3. ASSUME NEW s, RowOf(c) # NoRow, call' = [ReadRow(c) EXCEPT ![c].todo = s]
      PROVE  DoneStep
  <2> DEFINE new == [call[c] EXCEPT !.status = RowOf(c).status, !.receipt = RowOf(c).receipt, !.todo = s]
  <2>1. call' = [call EXCEPT ![c] = new]
    BY <1>1, <1>3 DEF ReadRow
  <2>2. new.receipt = RowOf(c).receipt /\ new.req = call[c].req
    BY <1>1 DEF ACall
  <2> HIDE DEF new
  <2>3. call'[c] = new /\ \A d \in Calls : d # c => call'[d] = call[d]
    BY <1>1, <2>1
  <2>4. CallRow(c)'
    BY <1>1, <1>3, <2>2, <2>3 DEF CallRow, RowOf
  <2>5. \A d \in Calls : CallKept(d) \/ CallRow(d)'
    BY <2>3, <2>4 DEF CallKept, Running, First, Doing, Next_
  <2> QED BY <1>1, <2>5, CallsOnlyDone DEF CallsOnly
<1>4. CASE RowOf(c) = NoRow \/ ~RowOf(c).live
  BY <1>2, <1>4 DEF Lookup
<1>5. CASE ~(RowOf(c) = NoRow \/ ~RowOf(c).live)
  BY <1>3, <1>5 DEF Lookup
<1> QED BY <1>4, <1>5

\* The row that is begun, or found.
LEMMA BeginDone ==
  ASSUME DeletionInv, DoneInv, NEW c \in Calls, Begin(c)
  PROVE  DoneStep
<1>0. PICK r \in Requests : r = call[c].req
  BY Doings DEF Begin
<1> DEFINE row == RowAfterBegin(c)
           s == Chain(OperationOf(c), row.status)
           new == [call[c] EXCEPT !.todo = s, !.status = row.status, !.receipt = row.receipt]
<1>1. /\ Doing(c, "begin") /\ call[c] \in ACall /\ r = call[c].req /\ call \in [Calls -> ACall]
      /\ rows \in [Requests -> ARow] /\ capability[r] # None
  BY <1>0, Doings DEF Begin, DeletionInv, DeletionTypeOK
<1>2. rows' = [rows EXCEPT ![r] = row] /\ UNCHANGED <<intents, store, made, capability>>
  BY <1>0 DEF Begin, OnlyRows, browser
<1>3. rows'[r] = row /\ \A q \in Requests : q # r => rows'[q] = rows[q]
  BY <1>1, <1>2
<1>4. rows[r] # NoRow => row = rows[r]
  BY <1>0 DEF RowAfterBegin, RowOf
<1>5. ASSUME rows[r] = NoRow PROVE RowDone(r)' /\ row # NoRow
  <2>1. row = [status |-> "pending", receipt |-> c, live |-> TRUE, scope |-> Scope(c)]
    BY <1>0, <1>5 DEF RowAfterBegin, RowOf
  <2>2. row.status = "pending" /\ row.receipt = c /\ row.scope = Scope(c) /\ row # NoRow
    BY <2>1 DEF NoRow
  <2>3. intents[c].state # "DELETED"
    BY <1>1 DEF DeletionInv, ReceiptOf, Begun
  <2>4. Scope(c) \subseteq made
        /\ (capability[r].operation = "delete_workspace" => Scope(c) = {capability[r].workspace})
    BY <1>1 DEF Scope, OperationOf, WorkspaceOf, DoneInv, CapabilityMade
  <2>5. UNCHANGED <<intents, store, made, capability>> /\ rows'[r] = row
    BY <1>2, <1>3
  <2> HIDE DEF row
  <2>6. RowDone(r)'
    BY <2>2, <2>3, <2>4, <2>5 DEF RowDone
  <2> QED BY <2>2, <2>6
<1> HIDE DEF row
<1>6. \A d \in Calls : CallKept(d) \/ CallRow(d)'
  <2>1. CASE ~row.live
    BY <2>1, AnswerKeeps DEF Begin, row, DeletionInv
  <2>2. CASE row.live
    <3>1. call' = [call EXCEPT ![c] = new]
      BY <2>2, <1>1 DEF Begin, row, ACall
    <3>2. new.receipt = row.receipt /\ new.req = r
      BY <1>1 DEF ACall
    <3> HIDE DEF new
    <3>3. call'[c] = new /\ \A d \in Calls : d # c => call'[d] = call[d]
      BY <1>1, <3>1
    <3>4. CallRow(c)'
      BY <1>3, <1>4, <1>5, <3>2, <3>3 DEF CallRow
    <3> QED BY <3>3, <3>4 DEF CallKept, Running, First, Doing, Next_
  <2> QED BY <2>1, <2>2
<1>7. \A q \in Requests : rows'[q] = NoRow \/ RowKept(q) \/ (rows[q] = NoRow /\ RowDone(q)')
  <2>1. ASSUME NEW q \in Requests, rows'[q] = rows[q] PROVE rows'[q] = NoRow \/ RowKept(q)
    BY <2>1 DEF RowKept
  <2>2. rows'[r] = NoRow \/ RowKept(r) \/ (rows[r] = NoRow /\ RowDone(r)')
    BY <1>1, <1>3, <1>4, <1>5, <2>1
  <2>3. ASSUME NEW q \in Requests, q # r PROVE rows'[q] = NoRow \/ RowKept(q)
    BY <1>3, <2>1, <2>3
  <2> QED BY <2>2, <2>3
<1> QED BY <1>2, <1>6, <1>7 DEF DoneStep, DoneInv, CapabilityKept

\* The journal, and what it allows.
LEMMA JournalDone ==
  ASSUME DeletionInv, DoneInv, NEW c \in Calls,
         AuthUserExists(c) \/ PrepareIntent(c) \/ AppendAndProve(c) \/ Attest(c) \/ Execute(c)
  PROVE  DoneStep
<1>t. /\ intents \in [Calls -> AnIntent] /\ call \in [Calls -> ACall]
      /\ made \subseteq Items /\ store \subseteq made
  BY DEF DeletionInv, DeletionTypeOK, DoneInv
<1>0. ASSUME NEW answer, Refuse(c, answer) PROVE DoneStep
  BY <1>0, RefuseDone
<1>p. ASSUME NEW step, Doing(c, step), step \notin {"begin", "lookup"}, NEW status, call' = Passed(c, status)
      PROVE  \A d \in Calls : CallKept(d)
  BY <1>p, PassKeeps
<1>q. ASSUME NEW step, Doing(c, step), step \notin {"begin", "lookup"}, NEW status, call' = Passed(c, status),
             ServerUnchanged
      PROVE  DoneStep
  BY <1>q, <1>p, CallsOnlyDone DEF CallsOnly, ServerUnchanged, server, database, browser
<1>i. ASSUME UNCHANGED <<rows, store, made, capability>>, \A d \in Calls : CallKept(d),
             \A n \in Calls : intents'[n].state = "DELETED" => intents[n].state = "DELETED"
      PROVE  DoneStep
  BY <1>i, <1>t DEF DoneStep, DoneInv, CapabilityKept, RowKept
<1>n. \A step : Doing(c, step) /\ step \notin {"begin", "lookup"} => call[c].receipt \in Calls
  BY Doings
<1>1. CASE AuthUserExists(c)
  <2> DEFINE new == [call[c] EXCEPT !.todo = IF auth THEN <<>> ELSE Resumed]
  <2>1. call' = [call EXCEPT ![c] = new] /\ UNCHANGED <<rows, intents, store, made, capability>>
    BY <1>1 DEF AuthUserExists, ServerUnchanged, server, database, browser
  <2>2. new.req = call[c].req /\ new.receipt = call[c].receipt /\ new.at = call[c].at
    BY <1>t DEF ACall
  <2> HIDE DEF new
  <2>3. call'[c] = new /\ \A d \in Calls : d # c => call'[d] = call[d]
    BY <1>t, <2>1
  <2>4. Running(c) /\ ~First(c)
    BY <1>1 DEF AuthUserExists, Doing, First
  <2>5. \A d \in Calls : CallKept(d)
    BY <2>2, <2>3, <2>4 DEF CallKept, Running, First, Doing, Next_
  <2> QED BY <2>1, <2>5, CallsOnlyDone DEF CallsOnly
<1>2. CASE PrepareIntent(c)
  <2>1. Doing(c, "prepare")
    BY <1>2 DEF PrepareIntent
  <2>2. CASE ServerUnchanged /\ call' = Passed(c, call[c].status)
    BY <2>1, <2>2, <1>q
  <2>3. CASE /\ intents' = [intents EXCEPT ![call[c].receipt] =
                  [operation |-> IntentKind(c), state |-> "PENDING", recent |-> TRUE]]
             /\ call' = Passed(c, call[c].status)
             /\ UNCHANGED <<rows, journal, member, store, made, auth, removed, browser>>
    <3>1. \A n \in Calls : intents'[n].state = "DELETED" => intents[n].state = "DELETED"
      BY <2>3, <1>t
    <3>2. \A d \in Calls : CallKept(d)
      BY <2>1, <2>3, <1>p
    <3> QED BY <2>3, <3>1, <3>2, <1>i DEF browser
  <2>4. CASE Refuse(c, "404") \/ Refuse(c, "failed")
    BY <2>4, <1>0
  <2> QED BY <1>2, <2>2, <2>3, <2>4 DEF PrepareIntent
<1>3. CASE AppendAndProve(c)
  <2>1. Doing(c, "append") /\ call' = Passed(c, call[c].status) /\ UNCHANGED <<rows, intents, store, made, capability>>
    BY <1>3 DEF AppendAndProve, database, browser
  <2>2. \A d \in Calls : CallKept(d)
    BY <2>1, <1>p
  <2> QED BY <2>1, <2>2, CallsOnlyDone DEF CallsOnly
<1>4. CASE Attest(c)
  <2>1. /\ Doing(c, "attest") /\ call' = Passed(c, call[c].status) /\ UNCHANGED <<rows, store, made, capability>>
        /\ intents' = [intents EXCEPT ![call[c].receipt] = Attested(intents[call[c].receipt])]
    BY <1>4 DEF Attest, browser
  <2>2. \A d \in Calls : CallKept(d)
    BY <2>1, <1>p
  <2>3. call[c].receipt \in Calls /\ intents[call[c].receipt] \in AnIntent
    BY <2>1, <1>n, <1>t
  <2>4. Attested(intents[call[c].receipt]).state = "DELETED" => intents[call[c].receipt].state = "DELETED"
    BY <2>3 DEF Attested, AnIntent
  <2>5. \A n \in Calls : intents'[n].state = "DELETED" => intents[n].state = "DELETED"
    BY <2>1, <2>3, <2>4, <1>t
  <2> QED BY <2>1, <2>2, <2>5, <1>i
<1>5. CASE Execute(c)
  <2>1. Doing(c, "execute")
    BY <1>5 DEF Execute
  <2>2. CASE ServerUnchanged /\ call' = Passed(c, call[c].status)
    BY <2>1, <2>2, <1>q
  <2>3. CASE /\ store' = store \ Connections
             /\ call' = Passed(c, call[c].status)
             /\ UNCHANGED <<rows, journal, made, auth, removed, browser>>
    <3>1. \A d \in Calls : CallKept(d)
      BY <2>1, <2>3, <1>p
    <3>2. store' \cap Connections = {} /\ store' \subseteq made' /\ store' \cap made \subseteq store
      BY <2>3, <1>t
    <3> QED BY <2>3, <3>1, <3>2, <1>t DEF browser, DoneStep, RowKept, CapabilityKept, DoneInv
  <2>4. CASE Refuse(c, "failed")
    BY <2>4, <1>0
  <2> QED BY <1>5, <2>2, <2>3, <2>4 DEF Execute
<1> QED BY <1>1, <1>2, <1>3, <1>4, <1>5

\* The row that is completed, or on its way.
LEMMA StatusDone ==
  ASSUME DeletionInv, DoneInv, NEW r \in Requests, NEW status, rows[r].live,
         rows' = [rows EXCEPT ![r].status = status],
         status = "completed" => rows[r].scope \cap store' = {}
  PROVE  \A q \in Requests : rows'[q] = NoRow \/ RowKept(q)
<1>1. rows \in [Requests -> ARow] /\ rows[r] # NoRow
  BY DEF DeletionInv, DeletionTypeOK, NoRow
<1>2. /\ rows'[r].status = status /\ rows'[r].receipt = rows[r].receipt /\ rows'[r].scope = rows[r].scope
      /\ \A q \in Requests : q # r => rows'[q] = rows[q]
  BY <1>1 DEF ARow
<1> QED BY <1>1, <1>2 DEF RowKept

\* Under the receipt of an executed intent the row covers no connection.
LEMMA ExecutedScope ==
  ASSUME DeletionInv, DoneInv, NEW c \in Calls, NEW r \in Requests, r = call[c].req,
         NEW step \in {"business", "deleting", "identity", "complete"}, Doing(c, step)
  PROVE  rows[r].scope \cap Connections \cap store = {} /\ rows[r].scope \subseteq Items
<1>1. Running(c) /\ ~First(c) /\ Stands(intents[call[c].receipt], step)
  BY Doings DEF First, Doing
<1>2. rows[r] # NoRow /\ rows[r].receipt = call[c].receipt /\ RowDone(r) /\ made \subseteq Items
  BY <1>1 DEF DoneInv, CallRow
<1>3. intents[call[c].receipt].state = "DELETED"
  BY <1>1 DEF Stands
<1> QED BY <1>2, <1>3 DEF RowDone

\* Content, status and identity.
LEMMA ContentDone ==
  ASSUME DeletionInv, DoneInv, NEW c \in Calls,
         ExecuteContentDeletion(c) \/ MarkDeleting(c) \/ DeleteAuthUser(c) \/ MarkCompleted(c)
  PROVE  DoneStep
<1>0. PICK r \in Requests : r = call[c].req
  BY Doings DEF ExecuteContentDeletion, MarkDeleting, DeleteAuthUser, MarkCompleted
<1>t. /\ rows \in [Requests -> ARow] /\ made \subseteq Items /\ store \subseteq made /\ RowDone(r)
      /\ (~auth => store \cap Workspaces = {})
  BY DEF DeletionInv, DeletionTypeOK, DoneInv, IdentityStays
<1>g. Gone(c) => DoneStep
  BY RefuseDone DEF Gone
<1>p. ASSUME NEW step, Doing(c, step), step \notin {"begin", "lookup"}, NEW status, call' = Passed(c, status)
      PROVE  \A d \in Calls : CallKept(d)
  BY <1>p, PassKeeps
<1>q. ASSUME UNCHANGED <<intents, made, capability>>, \A d \in Calls : CallKept(d),
             store' \subseteq store, \A q \in Requests : rows'[q] = NoRow \/ RowKept(q)
      PROVE  DoneStep
  BY <1>q, <1>t DEF DoneStep, CapabilityKept
<1>1. CASE ExecuteContentDeletion(c)
  <2>1. CASE /\ rows[r].live
             /\ store' = IF rows[r].status = "completed" THEN store ELSE store \ Content(c)
             /\ rows' = [rows EXCEPT ![r].status = "completed"]
             /\ call' = Passed(c, "completed")
             /\ UNCHANGED <<intents, made, browser>>
    <3>1. PICK step \in {"workspace", "business"} : Doing(c, step)
      BY <1>1 DEF ExecuteContentDeletion
    <3>2. \A d \in Calls : CallKept(d)
      BY <3>1, <2>1, <1>p
    <3>3. rows[r].scope \cap store' = {}
      <4>r. rows[r] # NoRow
        BY <2>1 DEF NoRow
      <4>1. CASE rows[r].status = "completed"
        BY <4>1, <4>r, <2>1, <1>t DEF RowDone
      <4>2. CASE rows[r].status # "completed" /\ step = "workspace"
        <5>1. Content(c) = {capability[r].workspace}
          BY <4>2, <3>1, <1>0 DEF Content, Doing, WorkspaceOf
        <5>2. OperationOf(c) \in Operations /\ "workspace" \in StepsOf(OperationOf(c))
          BY <4>2, <3>1, Doings
        <5>3. capability[r].operation = "delete_workspace"
          BY <5>2, <1>0 DEF StepsOf, OperationOf, Operations
        <5>4. rows[r].scope = {capability[r].workspace}
          BY <4>r, <5>3, <1>t DEF RowDone
        <5> QED BY <2>1, <4>2, <5>1, <5>4
      <4>3. CASE rows[r].status # "completed" /\ step = "business"
        <5>1. Content(c) = Workspaces
          BY <4>3, <3>1 DEF Content, Doing
        <5>2. rows[r].scope \cap Connections \cap store = {} /\ rows[r].scope \subseteq Items
          BY <4>3, <3>1, <1>0, ExecutedScope
        <5> QED BY <2>1, <4>3, <5>1, <5>2 DEF Items
      <4> QED BY <3>1, <4>1, <4>2, <4>3
    <3>4. \A q \in Requests : rows'[q] = NoRow \/ RowKept(q)
      BY <2>1, <3>3, StatusDone
    <3> QED BY <2>1, <3>2, <3>4, <1>q DEF browser
  <2> QED BY <1>0, <1>1, <1>g, <2>1 DEF ExecuteContentDeletion, RowOf, Row
<1>2. CASE MarkDeleting(c)
  <2>1. CASE /\ rows[r].live /\ OnlyRows
             /\ rows' = [rows EXCEPT ![r].status = IF rows[r].status = "completed" THEN "completed" ELSE "deleting"]
             /\ call' = IF rows[r].status = "completed" THEN Replied(c, "completed") ELSE Passed(c, "deleting")
    <3>1. UNCHANGED <<intents, store, made, capability>>
      BY <2>1 DEF OnlyRows, browser
    <3>2. \A d \in Calls : CallKept(d)
      BY <1>2, <2>1, <1>p, AnswerKeeps DEF MarkDeleting, DeletionInv
    <3>3. rows[r].status = "completed" => rows[r].scope \cap store' = {}
      BY <2>1, <3>1, <1>t DEF RowDone, NoRow
    <3>4. \A q \in Requests : rows'[q] = NoRow \/ RowKept(q)
      BY <2>1, <3>3, StatusDone
    <3> QED BY <3>1, <3>2, <3>4, <1>q
  <2> QED BY <1>0, <1>2, <1>g, <2>1 DEF MarkDeleting, RowOf, Row
<1>3. CASE DeleteAuthUser(c)
  <2>1. /\ Doing(c, "identity") /\ store' = store \ Workspaces /\ call' = Passed(c, call[c].status)
        /\ UNCHANGED <<rows, intents, made, capability>>
    BY <1>3 DEF DeleteAuthUser, IdentityGone, browser
  <2>2. \A d \in Calls : CallKept(d)
    BY <2>1, <1>p
  <2> QED BY <2>1, <2>2, <1>q DEF RowKept
<1>4. CASE MarkCompleted(c)
  <2>1. CASE /\ rows[r].live /\ OnlyRows
             /\ rows' = [rows EXCEPT ![r].status = "completed"]
             /\ call' = Passed(c, "completed")
    <3>1. UNCHANGED <<intents, store, made, capability>> /\ Doing(c, "complete")
      BY <1>4, <2>1 DEF OnlyRows, browser, MarkCompleted
    <3>2. \A d \in Calls : CallKept(d)
      BY <2>1, <3>1, <1>p
    <3>3. rows[r].scope \cap Connections \cap store = {} /\ rows[r].scope \subseteq Items
      BY <3>1, <1>0, ExecutedScope
    <3>4. ~auth
      BY <3>1, Doings
    <3>5. rows[r].scope \cap store' = {}
      BY <3>1, <3>3, <3>4, <1>t DEF Items
    <3>6. \A q \in Requests : rows'[q] = NoRow \/ RowKept(q)
      BY <2>1, <3>5, StatusDone
    <3> QED BY <3>1, <3>2, <3>6, <1>q
  <2> QED BY <1>0, <1>4, <1>g, <2>1 DEF MarkCompleted, RowOf, Row
<1> QED BY <1>1, <1>2, <1>3, <1>4

\* Time and the operator.
LEMMA TimeDone ==
  ASSUME DeletionInv, DoneInv, RowExpires \/ PruneRows \/ LimitPasses \/ RemoveIdentity
  PROVE  DoneStep
<1>t. /\ rows \in [Requests -> ARow] /\ intents \in [Calls -> AnIntent]
      /\ made \subseteq Items /\ store \subseteq made
  BY DEF DeletionInv, DeletionTypeOK, DoneInv
<1>q. ASSUME UNCHANGED <<made, capability, call>>, store' \subseteq store,
             \A n \in Calls : intents'[n].state = intents[n].state,
             \A q \in Requests : rows'[q] = NoRow \/ RowKept(q)
      PROVE  DoneStep
  <2>1. \A d \in Calls : CallKept(d)
    BY <1>q DEF CallKept, Running, First, Doing, Next_
  <2> QED BY <1>q, <1>t, <2>1 DEF DoneStep, CapabilityKept
<1>k. \A q \in Requests : rows'[q] = rows[q] => rows'[q] = NoRow \/ RowKept(q)
  BY DEF RowKept
<1>1. CASE RowExpires
  <2>1. PICK r \in Requests : rows[r].live /\ rows' = [rows EXCEPT ![r].live = FALSE]
    BY <1>1 DEF RowExpires
  <2>2. /\ rows'[r].receipt = rows[r].receipt /\ rows'[r].scope = rows[r].scope
        /\ rows'[r].status = rows[r].status /\ rows[r] # NoRow
        /\ \A q \in Requests : q # r => rows'[q] = rows[q]
    BY <2>1, <1>t DEF ARow, NoRow
  <2>3. RowKept(r)
    BY <2>2 DEF RowKept
  <2> QED BY <1>1, <1>q, <1>k, <2>2, <2>3 DEF RowExpires, browser
<1>2. CASE PruneRows
  <2>1. PICK r \in Requests : rows' = [rows EXCEPT ![r] = NoRow]
    BY <1>2 DEF PruneRows
  <2>2. rows'[r] = NoRow /\ \A q \in Requests : q # r => rows'[q] = rows[q]
    BY <2>1, <1>t
  <2> QED BY <1>2, <1>q, <1>k, <2>2 DEF PruneRows, browser
<1>3. CASE LimitPasses
  <2>1. \A n \in Calls : intents'[n].state = intents[n].state
    BY <1>3, <1>t DEF LimitPasses, AnIntent
  <2>2. \A q \in Requests : rows'[q] = NoRow
    BY <1>3 DEF LimitPasses
  <2> QED BY <1>3, <1>q, <2>1, <2>2 DEF LimitPasses, browser
<1>4. CASE RemoveIdentity
  BY <1>4, <1>q, <1>k DEF RemoveIdentity, IdentityGone, browser
<1> QED BY <1>1, <1>2, <1>3, <1>4

\* At first there is no row.
LEMMA DoneInit == Init => DoneInv
<1> SUFFICES ASSUME Init PROVE DoneInv
  OBVIOUS
<1>1. store \subseteq made /\ made \subseteq Items
  BY DEF Init, Items
<1>2. \A r \in Requests : CapabilityMade(r) /\ RowDone(r)
  BY DEF Init, CapabilityMade, RowDone
<1>3. \A c \in Calls : CallRow(c)
  BY DEF Init, CallRow, Running, NoCall
<1> QED BY <1>1, <1>2, <1>3 DEF DoneInv

\* Every step keeps the invariant.
LEMMA DoneNext == DeletionInv /\ DoneInv /\ [Next]_vars /\ [RowsOutliveCalls]_vars => DoneInv'
<1> SUFFICES ASSUME DeletionInv, DoneInv, [Next]_vars, [RowsOutliveCalls]_vars PROVE DoneInv'
  OBVIOUS
<1>1. CASE UNCHANGED vars
  BY <1>1 DEF vars, server, database, browser, DoneInv, CapabilityMade, RowDone, CallRow, Running,
              First, Doing, Next_
<1>2. ASSUME Next, RowsOutliveCalls PROVE DoneInv'
  <2>1. ASSUME NEW c \in Calls, Answer(c) \/ Unavailable(c) PROVE DoneStep
    BY <2>1, RefuseDone DEF Answer, Unavailable
  <2>2. ASSUME NEW c \in Calls, Edge(c) PROVE DoneStep
    BY <2>1, <2>2, BeginDone, LookupDone, JournalDone, ContentDone DEF Edge
  <2>3. DoneStep
    BY <1>2, <2>2, BrowserDone, TimeDone DEF Next
  <2> QED BY <1>2, <2>3, DoneStays
<1> QED BY <1>1, <1>2

\* For any requests, retries, late calls and moves of the user and of time:
\* while no row is pruned under a call that works for it, a completed row
\* means that everything the request covered when it was first accepted is
\* gone, and for an account the identity, whatever was created since.
THEOREM CompletedRowsAreDone == Spec /\ [][RowsOutliveCalls]_vars => []CompletedIsDone
<1>1. DeletionInv /\ DoneInv => CompletedIsDone
  BY DEF DeletionInv, DoneInv, CompletedExecuted, CompletedIsDone, RowDone, NoRow
<1> QED BY <1>1, DoneInit, DoneNext, DeletionInvariant, PTL DEF Spec
================================================================================
