------------------------------- MODULE EdgeProofs -------------------------------
(***************************************************************************)
(* Tenant writes, for any wishes, senders, repetitions and versions;       *)
(* archives, for any files, links, runs and pages; and the pages of one    *)
(* dataset, for any rows, workers and lost answers.                        *)
(*                                                                         *)
(* Records: the version of a record is the number of writes in its story,  *)
(* a receipt stands for exactly one of them, and a refused request asked   *)
(* for a version or a generation that is past.  Versions only grow, so no  *)
(* later copy of it can be applied.                                        *)
(*                                                                         *)
(* Credentials: every envelope has a version at most the connection's, and *)
(* a new one is the version after it, provided that nothing but the one    *)
(* creation is asked of a connection that does not exist.                  *)
(*                                                                         *)
(* Archives: a file being finalized has all its pages staged, one digest   *)
(* per id, and was compared with what was stored; only a page of the sync  *)
(* worker writes in between, and a finalization leaves that alone.         *)
(*                                                                         *)
(* Pages: a cursor is empty until a row was read, every row behind it is   *)
(* stored, it is not past what existed when it was made, and a page in the *)
(* hands of whoever holds the lease begins where the cursor ends.  A row   *)
(* the provider gets meanwhile is then never behind a cursor.  Where an    *)
(* argument goes back to the least row of some kind, the least one exists  *)
(* because finite sets are well founded under inclusion.                   *)
(***************************************************************************)
EXTENDS ArchiveJobs, ProviderPages, TenantWrites, FiniteSetTheorems, TLAPS

Wish == [step : {"unasked", "asked", "never"}, sends : Nat, expected : Nat \cup {NoValue},
         generation : Nat \cup {NoValue}, seen : Nat \cup {NoValue},
         told : {"ok", "refused", "rejected", NoValue}]
Request == [wish : Wishes \cup {NoValue}, step : {"none", "arrived", "read"},
            version : Nat \cup {NoValue}]
AnEntry == [by : Wishes, seen : Nat \cup {NoValue}, text : {TextOf[w] : w \in Wishes}]
AnEnvelope == [version : Nat, sealed : Nat]

WritesTypeOK ==
    /\ wish \in [Wishes -> Wish]
    /\ request \in [Senders -> Request]
    /\ connection \in [status : {"NONE", "ACTIVE", "REVOKED"}, version : Nat]
    /\ envelopes \in [Wishes -> AnEnvelope \cup {NoValue}]
    /\ records \in [Records -> [version : Nat, text : {TextOf[w] : w \in Wishes} \cup {NoValue}]]
    /\ receipts \in [Wishes -> Nat \cup {NoValue}]
    /\ syncs \in [Wishes -> {"QUEUED", "STARTED", NoValue}]
    /\ generation \in Nat
    /\ story \in [Records -> Seq(AnEntry)]
    /\ \A s \in Senders : request[s].step # "none" =>
            request[s].wish \in Wishes /\ wish[request[s].wish].step = "asked"

----------------------------------------------------------------------------
(* Records *)

IsRecord(w) == KindOf[w] \in Records

\* Written by w, once, or not at all.
WrittenOnce(w) ==
    \E m \in 1..Len(story[KindOf[w]]) :
        \A n \in 1..Len(story[KindOf[w]]) : story[KindOf[w]][n].by = w <=> n = m

VersionsCount == \A r \in Records : records[r].version = Len(story[r])

\* What an author expected was there, and no more.
ExpectedWasThere ==
    \A w \in Wishes : IsRecord(w) /\ wish[w].step = "asked" =>
        /\ wish[w].expected \in Nat /\ wish[w].expected <= records[KindOf[w]].version
        /\ wish[w].seen = wish[w].expected
        /\ KindOf[w] = "report" => wish[w].generation \in Nat /\ wish[w].generation <= generation

ReceiptsStand ==
    \A w \in Wishes : IsRecord(w) =>
        /\ receipts[w] # NoValue =>
              wish[w].step = "asked" /\ receipts[w] = wish[w].expected + 1 /\ WrittenOnce(w)
        /\ receipts[w] = NoValue => ~Applied(w)

\* A refused request asked for what is past.
Past(w) ==
    \/ wish[w].expected < records[KindOf[w]].version
    \/ KindOf[w] = "report" /\ wish[w].generation < generation

AnswersStand ==
    \A w \in Wishes : IsRecord(w) =>
        /\ wish[w].told # NoValue => wish[w].step = "asked"
        /\ wish[w].told = "ok" => receipts[w] # NoValue
        /\ wish[w].told = "refused" => receipts[w] = NoValue /\ Past(w)

RecordInv == VersionsCount /\ ExpectedWasThere /\ ReceiptsStand /\ AnswersStand
             /\ NothingReplacedUnseen

----------------------------------------------------------------------------
(* Credentials *)

Storing == {w \in Wishes : envelopes[w] # NoValue}
Versions == {envelopes[w].version : w \in Storing}

Creates(w) == KindOf[w] = "create" /\ wish[w].step # "never"

\* A connection that does not exist is asked for nothing but to be created,
\* once.
OneCreation ==
    /\ \A v, w \in Wishes : Creates(v) /\ Creates(w) => v = w
    /\ connection.status = "NONE" =>
        /\ connection.version = 0 /\ Storing = {}
        /\ \A w \in Wishes : wish[w].step = "asked" => KindOf[w] = "create"
    /\ \A w \in Wishes : Creates(w) /\ envelopes[w] = NoValue => connection.status = "NONE"

EnvelopesInOrder ==
    /\ IsFiniteSet(Storing)
    /\ IsFiniteSet(Versions)
    /\ \A w \in Storing : envelopes[w].version <= connection.version

WriteInv == WritesTypeOK /\ RecordInv /\ OneCreation /\ EnvelopesInOrder /\ CredentialsOpen

----------------------------------------------------------------------------
(* Answers *)

SameBut(w) ==
    /\ wish'[w].step = wish[w].step /\ wish'[w].expected = wish[w].expected
    /\ wish'[w].generation = wish[w].generation /\ wish'[w].seen = wish[w].seen

\* An answer frees its place and changes nothing of a wish but what it was told.
LEMMA AnswerTells ==
    ASSUME WritesTypeOK, NEW s \in Senders, request[s].step # "none",
           NEW answer \in {"ok", "refused", "rejected", "unclear"}, Answer(s, answer)
    PROVE  /\ wish' \in [Wishes -> Wish]
           /\ request' \in [Senders -> Request]
           /\ request'[s] = NoRequest
           /\ \A q \in Senders : q # s => request'[q] = request[q]
           /\ \A w \in Wishes : SameBut(w)
           /\ \A w \in Wishes : wish'[w].told # wish[w].told =>
                w = request[s].wish /\ wish'[w].told = answer
<1> DEFINE v == request[s].wish
<1>1. v \in Wishes BY DEF WritesTypeOK
<1>2. request' \in [Senders -> Request] /\ request'[s] = NoRequest
      /\ \A q \in Senders : q # s => request'[q] = request[q]
    BY DEF Answer, WritesTypeOK, Request, NoRequest
<1>3. wish' = wish \/ (answer # "unclear" /\ wish' = [wish EXCEPT ![v].told = answer])
    BY DEF Answer
<1>4. CASE wish' = wish BY <1>2, <1>4 DEF WritesTypeOK, SameBut
<1>5. CASE answer # "unclear" /\ wish' = [wish EXCEPT ![v].told = answer]
    <2>1. answer \in {"ok", "refused", "rejected", NoValue} BY <1>5
    <2>2. wish[v] \in Wish /\ [wish[v] EXCEPT !.told = answer] \in Wish
        BY <1>1, <2>1, ZenonT(60) DEF WritesTypeOK, Wish
    <2>3. wish' \in [Wishes -> Wish] BY <1>1, <1>5, <2>2 DEF WritesTypeOK
    <2>4. \A w \in Wishes : w # v => wish'[w] = wish[w] BY <1>5 DEF WritesTypeOK
    <2>5. wish'[v] = [wish[v] EXCEPT !.told = answer] BY <1>1, <1>5 DEF WritesTypeOK
    <2>6. SameBut(v) /\ wish'[v].told = answer BY <2>2, <2>5 DEF Wish, SameBut
    <2> QED BY <1>2, <2>3, <2>4, <2>6 DEF SameBut
<1> QED BY <1>3, <1>4, <1>5

\* What an author of a record may be told.
TrueAnswer(w, answer) ==
    IsRecord(w) =>
        \/ answer \in {"rejected", "unclear"}
        \/ answer = "ok" /\ receipts[w] # NoValue
        \/ answer = "refused" /\ Past(w) /\ receipts[w] = NoValue

\* So it keeps what is said of records, when what it tells is true.
LEMMA AnswerKeepsRecords ==
    ASSUME WritesTypeOK, RecordInv, NEW s \in Senders, request[s].step # "none",
           NEW answer \in {"ok", "refused", "rejected", "unclear"}, Answer(s, answer),
           UNCHANGED <<records, receipts, generation, story>>,
           TrueAnswer(request[s].wish, answer)
    PROVE  RecordInv'
<1> DEFINE v == request[s].wish
<1>1. v \in Wishes /\ wish[v].step = "asked" BY DEF WritesTypeOK
<1>2. \A w \in Wishes : SameBut(w) BY AnswerTells
<1>3. \A w \in Wishes : wish'[w].told # wish[w].told => w = v /\ wish'[w].told = answer
    BY AnswerTells
<1>4. NothingReplacedUnseen' /\ VersionsCount'
    BY DEF RecordInv, NothingReplacedUnseen, VersionsCount
<1>5. ExpectedWasThere'
    BY <1>2 DEF RecordInv, ExpectedWasThere, SameBut, IsRecord
<1>6. ReceiptsStand'
    BY <1>2 DEF RecordInv, ReceiptsStand, SameBut, IsRecord, WrittenOnce, Applied
<1>7. \A w \in Wishes : Past(w)' <=> Past(w)
    BY <1>2 DEF Past, SameBut
<1>8. AnswersStand'
    BY <1>1, <1>2, <1>3, <1>7, WritesAssumption DEF RecordInv, AnswersStand, SameBut, IsRecord, TrueAnswer
<1> QED BY <1>4, <1>5, <1>6, <1>8 DEF RecordInv

\* An answer settles the request it answers and disturbs no other.
LEMMA AnswerKeepsTypes ==
    ASSUME WritesTypeOK, NEW s \in Senders, request[s].step # "none",
           NEW answer \in {"ok", "refused", "rejected", "unclear"}, Answer(s, answer)
    PROVE  \A q \in Senders : request'[q].step # "none" =>
                request'[q].wish \in Wishes /\ wish'[request'[q].wish].step = "asked"
<1> SUFFICES ASSUME NEW q \in Senders, request'[q].step # "none"
    PROVE  request'[q].wish \in Wishes /\ wish'[request'[q].wish].step = "asked"
    OBVIOUS
<1>1. q # s /\ request'[q] = request[q] BY AnswerTells DEF NoRequest
<1>2. request[q].wish \in Wishes /\ wish[request[q].wish].step = "asked"
    BY <1>1 DEF WritesTypeOK
<1> QED BY <1>1, <1>2, AnswerTells DEF SameBut

\* Steps that write no record and tell nothing.
LEMMA SameRecords ==
    ASSUME RecordInv, UNCHANGED <<records, receipts, generation, story>>,
           \A w \in Wishes : SameBut(w) /\ wish'[w].told = wish[w].told
    PROVE  RecordInv'
<1>1. NothingReplacedUnseen' /\ VersionsCount'
    BY DEF RecordInv, NothingReplacedUnseen, VersionsCount
<1>2. ExpectedWasThere' BY DEF RecordInv, ExpectedWasThere, SameBut, IsRecord
<1>3. ReceiptsStand' BY DEF RecordInv, ReceiptsStand, SameBut, IsRecord, WrittenOnce, Applied
<1>4. AnswersStand' BY DEF RecordInv, AnswersStand, SameBut, IsRecord, Past
<1> QED BY <1>1, <1>2, <1>3, <1>4 DEF RecordInv

\* Steps that store no credential and ask for none.
LEMMA SameCredentials ==
    ASSUME OneCreation, EnvelopesInOrder, CredentialsOpen, UNCHANGED <<connection, envelopes>>,
           \A w \in Wishes : wish'[w].step = wish[w].step
    PROVE  OneCreation' /\ EnvelopesInOrder' /\ CredentialsOpen'
<1>1. CredentialsOpen' BY DEF CredentialsOpen, Opens
<1>2. EnvelopesInOrder' BY DEF EnvelopesInOrder, Storing, Versions
<1>3. OneCreation' BY DEF OneCreation, Creates, Storing
<1> QED BY <1>1, <1>2, <1>3

----------------------------------------------------------------------------
(* One lemma per action *)

\* The browser asks with a fresh key and the version it saw.
LEMMA AskStep ==
    ASSUME WriteInv, NEW w \in Wishes, Ask(w)
    PROVE  WriteInv'
<1> DEFINE isRec == KindOf[w] \in Records
<1> DEFINE r == records[KindOf[w]].version
<1>0. WritesTypeOK /\ KindOf[w] \in Kinds BY WritesAssumption DEF WriteInv
<1>1. isRec => r \in Nat /\ Len(story[KindOf[w]]) \in Nat
    BY <1>0 DEF WritesTypeOK
<1>2. wish' = [wish EXCEPT ![w] = wish'[w]] /\ wish'[w] \in Wish
    <2>1. wish[w] \in Wish BY <1>0 DEF WritesTypeOK
    <2>2. CASE isRec
        <3>1. wish'[w] = [wish[w] EXCEPT !.step = "asked", !.expected = r,
                            !.seen = Len(story[KindOf[w]]),
                            !.generation = IF KindOf[w] = "report" THEN generation ELSE NoValue]
            BY <1>0, <2>2 DEF Ask, WritesTypeOK
        <3> QED BY <1>0, <1>1, <2>1, <2>2, <3>1 DEF Ask, WritesTypeOK, Wish
    <2>3. CASE ~isRec BY <1>0, <2>1, <2>3 DEF Ask, WritesTypeOK, Wish
    <2> QED BY <2>2, <2>3
<1>3. \A v \in Wishes : v # w => wish'[v] = wish[v] BY <1>0, <1>2 DEF WritesTypeOK
<1>4. wish[w].step = "unasked" /\ wish'[w].step = "asked" /\ wish'[w].told = wish[w].told
    BY <1>0 DEF Ask, WritesTypeOK, Wish
<1>5. isRec => /\ wish'[w].expected = r /\ wish'[w].seen = Len(story[KindOf[w]])
               /\ KindOf[w] = "report" => wish'[w].generation = generation
    BY <1>0 DEF Ask, WritesTypeOK, Wish
<1>6. UNCHANGED <<request, generation, connection, envelopes, records, receipts, syncs, story>>
    BY DEF Ask, Data
<1>7. WritesTypeOK'
    BY <1>0, <1>2, <1>3, <1>4, <1>6 DEF WritesTypeOK
<1>8. RecordInv'
    <2>1. NothingReplacedUnseen' /\ VersionsCount'
        BY <1>6 DEF WriteInv, RecordInv, NothingReplacedUnseen, VersionsCount
    <2>2. ExpectedWasThere'
        <3>1. ASSUME isRec
              PROVE  wish'[w].expected = r /\ r \in Nat /\ wish'[w].seen = r
            BY <1>1, <1>5, <3>1 DEF WriteInv, RecordInv, VersionsCount
        <3>2. KindOf[w] = "report" => isRec /\ wish'[w].generation = generation
            BY <1>5 DEF Records
        <3>3. generation \in Nat BY <1>0 DEF WritesTypeOK
        <3>4. ExpectedWasThere BY DEF WriteInv, RecordInv
        <3>5. ASSUME NEW v \in Wishes, IsRecord(v), wish'[v].step = "asked"
              PROVE  /\ wish'[v].expected \in Nat
                     /\ wish'[v].expected <= records[KindOf[v]].version
                     /\ wish'[v].seen = wish'[v].expected
                     /\ KindOf[v] = "report" => /\ wish'[v].generation \in Nat
                                                /\ wish'[v].generation <= generation
            <4>1. CASE v = w BY <3>1, <3>2, <3>3, <3>5, <4>1 DEF IsRecord
            <4>2. CASE v # w BY <1>3, <3>4, <3>5, <4>2 DEF ExpectedWasThere
            <4> QED BY <4>1, <4>2
        <3> QED BY <1>6, <3>5 DEF ExpectedWasThere, IsRecord
    <2>3. ReceiptsStand'
        <3>1. ReceiptsStand BY DEF WriteInv, RecordInv
        <3>2. ASSUME NEW v \in Wishes
              PROVE  (WrittenOnce(v)' <=> WrittenOnce(v)) /\ (Applied(v)' <=> Applied(v))
            BY <1>6 DEF WrittenOnce, Applied
        <3>3. ASSUME NEW v \in Wishes, IsRecord(v)
              PROVE  /\ receipts[v] # NoValue => /\ wish'[v].step = "asked"
                                                 /\ receipts[v] = wish'[v].expected + 1
                                                 /\ WrittenOnce(v)
                     /\ receipts[v] = NoValue => ~Applied(v)
            <4>1. CASE v = w
                <5>1. receipts[v] = NoValue BY <1>4, <3>1, <3>3, <4>1 DEF ReceiptsStand
                <5> QED BY <3>1, <3>3, <5>1 DEF ReceiptsStand
            <4>2. CASE v # w
                <5>1. wish'[v] = wish[v] BY <1>3, <4>2
                <5> QED BY <3>1, <3>3, <5>1 DEF ReceiptsStand
            <4> QED BY <4>1, <4>2
        <3> QED BY <1>6, <3>2, <3>3 DEF ReceiptsStand, IsRecord
    <2>4. AnswersStand'
        BY <1>3, <1>4, <1>6, WritesAssumption DEF WriteInv, RecordInv, AnswersStand, IsRecord, Past
    <2> QED BY <2>1, <2>2, <2>3, <2>4 DEF RecordInv
<1>9. CredentialsOpen' BY <1>6 DEF WriteInv, CredentialsOpen, Opens
<1>10. EnvelopesInOrder' BY <1>6 DEF WriteInv, EnvelopesInOrder, Storing, Versions
<1>11. OneCreation'
    <2>1. \A v \in Wishes : Creates(v)' <=> Creates(v) BY <1>3, <1>4 DEF Creates
    <2>2. connection.status = "NONE" => KindOf[w] = "create" BY DEF Ask
    <2> QED BY <1>3, <1>6, <2>1, <2>2 DEF WriteInv, OneCreation, Storing
<1> QED BY <1>7, <1>8, <1>9, <1>10, <1>11 DEF WriteInv

\* A copy of a request, late or not, reaches the handler with what was asked.
LEMMA ArriveStep ==
    ASSUME WriteInv, NEW w \in Wishes, NEW s \in Senders, Arrive(w, s)
    PROVE  WriteInv'
<1>0. WritesTypeOK BY DEF WriteInv
<1>1. wish[w] \in Wish /\ wish[w].sends + 1 \in Nat
    <2>1. wish[w] \in Wish BY <1>0 DEF WritesTypeOK
    <2>2. wish[w].sends \in Nat BY <2>1 DEF Wish
    <2> QED BY <2>1, <2>2
<1>2. wish'[w] = [wish[w] EXCEPT !.sends = wish[w].sends + 1]
      /\ \A v \in Wishes : v # w => wish'[v] = wish[v]
    BY <1>0 DEF Arrive, WritesTypeOK
<1>3. wish' \in [Wishes -> Wish] /\ \A v \in Wishes : SameBut(v) /\ wish'[v].told = wish[v].told
    <2>1. wish'[w] \in Wish /\ SameBut(w) /\ wish'[w].told = wish[w].told
        BY <1>1, <1>2 DEF Wish, SameBut
    <2>2. \A v \in Wishes : wish'[v] \in Wish BY <1>0, <1>2, <2>1 DEF WritesTypeOK
    <2>3. wish' = [v \in Wishes |-> wish'[v]] BY <1>0 DEF Arrive, WritesTypeOK
    <2> QED BY <1>2, <2>1, <2>2, <2>3 DEF SameBut
<1>4. UNCHANGED <<generation, connection, envelopes, records, receipts, syncs, story>>
    BY DEF Arrive, Data
<1>5. request' \in [Senders -> Request] /\ request'[s].wish = w
      /\ \A q \in Senders : q # s => request'[q] = request[q]
    BY <1>0 DEF Arrive, WritesTypeOK, Request, NoRequest
<1>6. WritesTypeOK'
    <2>1. ASSUME NEW q \in Senders, request'[q].step # "none"
          PROVE  request'[q].wish \in Wishes /\ wish'[request'[q].wish].step = "asked"
        <3>1. CASE q = s BY <1>3, <1>5, <3>1 DEF Arrive, SameBut
        <3>2. CASE q # s BY <1>0, <1>3, <1>5, <2>1, <3>2 DEF WritesTypeOK, SameBut
        <3> QED BY <3>1, <3>2
    <2> QED BY <1>0, <1>3, <1>4, <1>5, <2>1 DEF WritesTypeOK
<1>7. RecordInv' BY <1>3, <1>4, SameRecords DEF WriteInv
<1>8. OneCreation' /\ EnvelopesInOrder' /\ CredentialsOpen'
    BY <1>3, <1>4, SameCredentials DEF WriteInv, SameBut
<1> QED BY <1>6, <1>7, <1>8 DEF WriteInv

\* A handler that fails leaves the browser without a verdict.
LEMMA HandlerFailsStep ==
    ASSUME WriteInv, NEW s \in Senders, HandlerFails(s)
    PROVE  WriteInv'
<1>0. WritesTypeOK BY DEF WriteInv
<1>1. PICK answer \in {"unclear", "rejected"} : Answer(s, answer)
    BY DEF HandlerFails
<1>2. request[s].step # "none" BY DEF HandlerFails
<1>3. UNCHANGED <<generation, connection, envelopes, records, receipts, syncs, story>>
    BY DEF HandlerFails, Data
<1>4. WritesTypeOK'
    BY <1>0, <1>1, <1>2, <1>3, AnswerTells, AnswerKeepsTypes DEF WritesTypeOK
<1>5. RecordInv'
    <2>1. answer \in {"ok", "refused", "rejected", "unclear"} /\ RecordInv
        BY <1>1 DEF WriteInv
    <2>2. UNCHANGED <<records, receipts, generation, story>> BY <1>3
    <2>3. TrueAnswer(request[s].wish, answer) BY <1>1 DEF TrueAnswer
    <2> QED BY <1>0, <1>1, <1>2, <2>1, <2>2, <2>3, AnswerKeepsRecords
<1>6. \A w \in Wishes : wish'[w].step = wish[w].step BY <1>0, <1>1, <1>2, AnswerTells DEF SameBut
<1>7. OneCreation' /\ EnvelopesInOrder' /\ CredentialsOpen'
    BY <1>3, <1>6, SameCredentials DEF WriteInv
<1> QED BY <1>4, <1>5, <1>7 DEF WriteInv

\* The handler reads the version it will seal the credential for.
LEMMA ReadConnectionStep ==
    ASSUME WriteInv, NEW s \in Senders, ReadConnection(s)
    PROVE  WriteInv'
<1>0. WritesTypeOK BY DEF WriteInv
<1>1. UNCHANGED <<wish, generation, connection, envelopes, records, receipts, syncs, story>>
    BY DEF ReadConnection, Data
<1>2. request[s] \in Request /\ connection.version \in Nat BY <1>0 DEF WritesTypeOK
<1>3. request' = [request EXCEPT ![s] = [request[s] EXCEPT !.step = "read",
                                                           !.version = connection.version]]
    BY <1>0 DEF ReadConnection, WritesTypeOK
<1>4. request'[s] \in Request /\ request'[s].wish = request[s].wish
      /\ \A q \in Senders : q # s => request'[q] = request[q]
    BY <1>0, <1>2, <1>3 DEF Request, WritesTypeOK
<1>5. WritesTypeOK'
    <2>1. ASSUME NEW q \in Senders, request'[q].step # "none"
          PROVE  request'[q].wish \in Wishes /\ wish'[request'[q].wish].step = "asked"
        <3>1. request[q].step # "none" BY <1>4, <2>1 DEF ReadConnection
        <3> QED BY <1>0, <1>1, <1>4, <3>1 DEF WritesTypeOK
    <2> QED BY <1>0, <1>1, <1>3, <1>4, <2>1 DEF WritesTypeOK
<1>6. RecordInv' BY <1>1, SameRecords DEF WriteInv, SameBut
<1>7. OneCreation' /\ EnvelopesInOrder' /\ CredentialsOpen'
    BY <1>1, SameCredentials DEF WriteInv
<1> QED BY <1>5, <1>6, <1>7 DEF WriteInv

\* A credential stored under the next version is the latest, has a version of
\* its own, and opens.
LEMMA NewEnvelope ==
    ASSUME WritesTypeOK, EnvelopesInOrder, CredentialsOpen,
           NEW w \in Wishes, envelopes[w] = NoValue,
           connection'.version = connection.version + 1,
           envelopes' = [envelopes EXCEPT ![w] = [version |-> connection.version + 1,
                                                  sealed |-> connection.version + 1]]
    PROVE  EnvelopesInOrder' /\ CredentialsOpen' /\ Storing' = Storing \cup {w}
<1> DEFINE next == connection.version + 1
<1>1. connection.version \in Nat /\ next \in Nat BY DEF WritesTypeOK
<1>2. envelopes'[w] = [version |-> next, sealed |-> next]
      /\ \A v \in Wishes : v # w => envelopes'[v] = envelopes[v]
    BY DEF WritesTypeOK
<1>3. envelopes'[w] # NoValue BY <1>1, <1>2, WritesAssumption
<1>4. Storing' = Storing \cup {w} /\ w \notin Storing BY <1>2, <1>3 DEF Storing
<1>5. \A v \in Storing : envelopes[v] \in AnEnvelope /\ envelopes[v].version \in Nat
                        /\ envelopes[v].version < next
    BY <1>1 DEF Storing, EnvelopesInOrder, WritesTypeOK, AnEnvelope
<1>6. Versions' = Versions \cup {next} /\ next \notin Versions
    BY <1>1, <1>2, <1>4, <1>5 DEF Versions
<1>7. IsFiniteSet(Storing') /\ IsFiniteSet(Versions')
      /\ Cardinality(Storing') = Cardinality(Storing) + 1
      /\ Cardinality(Versions') = Cardinality(Versions) + 1
    BY <1>4, <1>6, FS_AddElement DEF EnvelopesInOrder
<1>8. EnvelopesInOrder'
    <2>1. ASSUME NEW v \in Storing' PROVE envelopes'[v].version <= connection'.version
        <3>1. CASE v = w BY <1>1, <1>2, <3>1
        <3>2. CASE v # w BY <1>1, <1>2, <1>4, <1>5, <3>2 DEF Storing
        <3> QED BY <3>1, <3>2
    <2> QED BY <1>7, <2>1 DEF EnvelopesInOrder
<1>9. CredentialsOpen'
    <2>1. \A v \in Storing' : Opens(envelopes'[v])
        BY <1>2, <1>4 DEF CredentialsOpen, Storing, Opens
    <2>2. Cardinality(Versions') = Cardinality(Storing')
        BY <1>7 DEF CredentialsOpen, Storing, Versions
    <2>3. connection'.version \in Versions' BY <1>6
    <2> QED BY <2>1, <2>2, <2>3 DEF CredentialsOpen, Storing, Versions, Opens
<1> QED BY <1>4, <1>8, <1>9

\* What an answer changes, for actions that write no record.
LEMMA AnswerStep ==
    ASSUME WriteInv, NEW s \in Senders, request[s].step = "read", KindIn(s) \notin Records,
           NEW answer \in {"ok", "refused", "rejected", "unclear"}, Answer(s, answer),
           UNCHANGED <<records, receipts, generation, story>>
    PROVE  /\ RecordInv'
           /\ \A w \in Wishes : wish'[w].step = wish[w].step
           /\ wish' \in [Wishes -> Wish] /\ request' \in [Senders -> Request]
           /\ \A q \in Senders : request'[q].step # "none" =>
                request'[q].wish \in Wishes /\ wish'[request'[q].wish].step = "asked"
<1>1. WritesTypeOK /\ RecordInv /\ request[s].step # "none" BY DEF WriteInv
<1>2. TrueAnswer(request[s].wish, answer) BY DEF TrueAnswer, IsRecord, KindIn
<1>3. RecordInv' BY <1>1, <1>2, AnswerKeepsRecords
<1> QED BY <1>1, <1>3, AnswerTells, AnswerKeepsTypes DEF SameBut

\* A connection is created once, with the first version of its credential.
LEMMA CreateStep ==
    ASSUME WriteInv, NEW s \in Senders, CreateConnection(s)
    PROVE  WriteInv'
<1> DEFINE w == request[s].wish
<1>0. WritesTypeOK /\ OneCreation /\ EnvelopesInOrder /\ CredentialsOpen BY DEF WriteInv
<1>1. w \in Wishes /\ wish[w].step = "asked" /\ Creates(w)
    BY <1>0 DEF CreateConnection, WritesTypeOK, Creates, KindIn
<1>2. UNCHANGED <<records, receipts, generation, story>> /\ syncs' = syncs
    BY DEF CreateConnection, Rest
<1>3. /\ RecordInv'
      /\ \A v \in Wishes : wish'[v].step = wish[v].step
      /\ wish' \in [Wishes -> Wish] /\ request' \in [Senders -> Request]
      /\ \A q \in Senders : request'[q].step # "none" =>
            request'[q].wish \in Wishes /\ wish'[request'[q].wish].step = "asked"
    BY <1>2, AnswerStep DEF CreateConnection, Records
<1>4. CASE envelopes[w] # NoValue
    <2>1. UNCHANGED <<connection, envelopes>> BY <1>4 DEF CreateConnection
    <2>2. OneCreation' /\ EnvelopesInOrder' /\ CredentialsOpen'
        BY <1>0, <1>3, <2>1, SameCredentials
    <2> QED BY <1>0, <1>2, <1>3, <2>1, <2>2 DEF WriteInv, WritesTypeOK
<1>5. CASE envelopes[w] = NoValue
    <2>1. connection.version = 0 /\ Storing = {} BY <1>0, <1>1, <1>5 DEF OneCreation
    <2>2. connection' = [status |-> "ACTIVE", version |-> 1]
          /\ envelopes' = [envelopes EXCEPT ![w] = [version |-> connection.version + 1,
                                                    sealed |-> connection.version + 1]]
        BY <1>5, <2>1 DEF CreateConnection, Envelope, Sealed
    <2>3. EnvelopesInOrder' /\ CredentialsOpen' /\ Storing' = {w}
        <3>1. connection'.version = connection.version + 1 BY <2>1, <2>2
        <3>2. EnvelopesInOrder' /\ CredentialsOpen' /\ Storing' = Storing \cup {w}
            BY <1>0, <1>1, <1>5, <2>2, <3>1, NewEnvelope
        <3> QED BY <2>1, <3>2
    <2>4. OneCreation'
        BY <1>0, <1>1, <1>3, <2>2, <2>3 DEF OneCreation, Creates, Storing
    <2>5. envelopes' \in [Wishes -> AnEnvelope \cup {NoValue}]
        BY <1>0, <1>1, <2>1, <2>2 DEF WritesTypeOK, AnEnvelope
    <2> QED BY <1>0, <1>2, <1>3, <2>2, <2>3, <2>4, <2>5 DEF WriteInv, WritesTypeOK
<1> QED BY <1>4, <1>5

\* A rotation gives the credential the next version or changes nothing.
LEMMA RotateStep ==
    ASSUME WriteInv, NEW s \in Senders, RotateConnection(s)
    PROVE  WriteInv'
<1> DEFINE w == request[s].wish
<1>0. WritesTypeOK /\ OneCreation /\ EnvelopesInOrder /\ CredentialsOpen BY DEF WriteInv
<1>1. w \in Wishes /\ wish[w].step = "asked" /\ KindOf[w] = "rotate"
    BY <1>0 DEF RotateConnection, WritesTypeOK, KindIn
<1>2. UNCHANGED <<records, receipts, generation, story>> /\ syncs' = syncs
    BY DEF RotateConnection, Rest
<1>3. PICK answer \in {"ok", "refused", "rejected", "unclear"} : Answer(s, answer)
    BY DEF RotateConnection, Outcome
<1>4. /\ RecordInv'
      /\ \A v \in Wishes : wish'[v].step = wish[v].step
      /\ wish' \in [Wishes -> Wish] /\ request' \in [Senders -> Request]
      /\ \A q \in Senders : request'[q].step # "none" =>
            request'[q].wish \in Wishes /\ wish'[request'[q].wish].step = "asked"
    BY <1>2, <1>3, AnswerStep DEF RotateConnection, Records
<1>5. CASE UNCHANGED <<connection, envelopes>>
    <2>1. OneCreation' /\ EnvelopesInOrder' /\ CredentialsOpen'
        BY <1>0, <1>4, <1>5, SameCredentials
    <2> QED BY <1>0, <1>2, <1>4, <1>5, <2>1 DEF WriteInv, WritesTypeOK
<1>6. CASE /\ envelopes[w] = NoValue /\ SameVersion(s)
           /\ connection' = [status |-> "ACTIVE", version |-> connection.version + 1]
           /\ envelopes' = [envelopes EXCEPT ![w] = Envelope(request[s].version)]
    <2>1. envelopes' = [envelopes EXCEPT ![w] = [version |-> connection.version + 1,
                                                 sealed |-> connection.version + 1]]
        BY <1>6 DEF SameVersion, Envelope, Sealed
    <2>2. EnvelopesInOrder' /\ CredentialsOpen' /\ Storing' = Storing \cup {w}
        BY <1>0, <1>1, <1>6, <2>1, NewEnvelope
    <2>3. connection.status # "NONE" BY <1>0, <1>1 DEF OneCreation
    <2>4. OneCreation'
        <3>1. \A v \in Wishes : Creates(v)' <=> Creates(v) BY <1>4 DEF Creates
        <3>2. \A v \in Wishes : Creates(v) => envelopes[v] # NoValue
            BY <1>0, <2>3 DEF OneCreation
        <3>3. \A v \in Wishes : Creates(v) => envelopes'[v] # NoValue
            BY <1>0, <1>1, <2>1, <3>2 DEF WritesTypeOK, Creates
        <3> QED BY <1>0, <1>6, <3>1, <3>3 DEF OneCreation
    <2>5. connection.version + 1 \in Nat BY <1>0 DEF WritesTypeOK
    <2>6. envelopes' \in [Wishes -> AnEnvelope \cup {NoValue}]
        BY <1>0, <1>1, <2>1, <2>5 DEF WritesTypeOK, AnEnvelope
    <2> QED BY <1>0, <1>2, <1>4, <1>6, <2>2, <2>4, <2>5, <2>6 DEF WriteInv, WritesTypeOK
<1> QED BY <1>5, <1>6 DEF RotateConnection

\* A disconnection retires the credential or changes nothing.
LEMMA DisconnectStep ==
    ASSUME WriteInv, NEW s \in Senders, DisconnectConnection(s)
    PROVE  WriteInv'
<1> DEFINE w == request[s].wish
<1>0. WritesTypeOK /\ OneCreation /\ EnvelopesInOrder /\ CredentialsOpen BY DEF WriteInv
<1>1. w \in Wishes /\ wish[w].step = "asked" /\ KindOf[w] = "disconnect"
    BY <1>0 DEF DisconnectConnection, WritesTypeOK, KindIn
<1>2. UNCHANGED <<records, receipts, generation, story>> /\ UNCHANGED <<envelopes, syncs>>
    BY DEF DisconnectConnection, Rest
<1>3. PICK answer \in {"ok", "refused", "rejected", "unclear"} : Answer(s, answer)
    BY DEF DisconnectConnection, Outcome
<1>4. /\ RecordInv'
      /\ \A v \in Wishes : wish'[v].step = wish[v].step
      /\ wish' \in [Wishes -> Wish] /\ request' \in [Senders -> Request]
      /\ \A q \in Senders : request'[q].step # "none" =>
            request'[q].wish \in Wishes /\ wish'[request'[q].wish].step = "asked"
    BY <1>2, <1>3, AnswerStep DEF DisconnectConnection, Records
<1>5. CASE UNCHANGED connection
    <2>1. OneCreation' /\ EnvelopesInOrder' /\ CredentialsOpen'
        BY <1>0, <1>2, <1>4, <1>5, SameCredentials
    <2> QED BY <1>0, <1>2, <1>4, <1>5, <2>1 DEF WriteInv, WritesTypeOK
<1>6. CASE connection' = [connection EXCEPT !.status = "REVOKED"]
    <2>1. connection' = [status |-> "REVOKED", version |-> connection.version]
          /\ connection.version \in Nat
        BY <1>0, <1>6 DEF WritesTypeOK
    <2>2. connection.status # "NONE" BY <1>0, <1>1 DEF OneCreation
    <2>3. CredentialsOpen' BY <1>0, <1>2, <2>1 DEF CredentialsOpen, Opens
    <2>4. EnvelopesInOrder' BY <1>0, <1>2, <2>1 DEF EnvelopesInOrder, Storing, Versions
    <2>5. OneCreation' BY <1>0, <1>2, <1>4, <2>1, <2>2 DEF OneCreation, Creates
    <2> QED BY <1>0, <1>2, <1>4, <2>1, <2>3, <2>4, <2>5 DEF WriteInv, WritesTypeOK
<1> QED BY <1>5, <1>6 DEF DisconnectConnection

\* An enqueue and the start of a job leave records and credentials alone.
LEMMA SyncStep ==
    ASSUME WriteInv, \/ \E s \in Senders : EnqueueSync(s)
                     \/ \E w \in Wishes : SyncStarts(w)
    PROVE  WriteInv'
<1>0. WritesTypeOK /\ OneCreation /\ EnvelopesInOrder /\ CredentialsOpen /\ RecordInv
    BY DEF WriteInv
<1>1. ASSUME NEW s \in Senders, EnqueueSync(s) PROVE WriteInv'
    <2>0. request[s].wish \in Wishes BY <1>0, <1>1 DEF EnqueueSync, WritesTypeOK
    <2>1. UNCHANGED <<records, receipts, generation, story>> /\ UNCHANGED <<connection, envelopes>>
          /\ request[s].step = "read" /\ KindIn(s) = "sync"
        BY <1>1 DEF EnqueueSync, Rest
    <2>2. PICK answer \in {"ok", "refused", "rejected", "unclear"} : Answer(s, answer)
        BY <1>1 DEF EnqueueSync, Outcome
    <2>3. /\ RecordInv'
          /\ \A v \in Wishes : wish'[v].step = wish[v].step
          /\ wish' \in [Wishes -> Wish] /\ request' \in [Senders -> Request]
          /\ \A q \in Senders : request'[q].step # "none" =>
                request'[q].wish \in Wishes /\ wish'[request'[q].wish].step = "asked"
        BY <2>1, <2>2, AnswerStep DEF Records
    <2>4. syncs' \in [Wishes -> {"QUEUED", "STARTED", NoValue}]
        BY <1>0, <1>1, <2>0 DEF EnqueueSync, WritesTypeOK
    <2>5. OneCreation' /\ EnvelopesInOrder' /\ CredentialsOpen'
        BY <1>0, <2>1, <2>3, SameCredentials
    <2> QED BY <1>0, <2>1, <2>3, <2>4, <2>5 DEF WriteInv, WritesTypeOK
<1>2. ASSUME NEW w \in Wishes, SyncStarts(w) PROVE WriteInv'
    <2>1. UNCHANGED <<wish, request, records, receipts, generation, story, connection, envelopes>>
        BY <1>2 DEF SyncStarts, Rest
    <2>2. RecordInv' BY <1>0, <2>1, SameRecords DEF SameBut
    <2>3. OneCreation' /\ EnvelopesInOrder' /\ CredentialsOpen' BY <1>0, <2>1, SameCredentials
    <2>4. WritesTypeOK' BY <1>0, <1>2, <2>1 DEF SyncStarts, WritesTypeOK
    <2> QED BY <2>2, <2>3, <2>4 DEF WriteInv
<1> QED BY <1>1, <1>2

\* A record gets at most one new entry in a step, by the request of the step,
\* and its version with it.
LEMMA OneEntry ==
    ASSUME WritesTypeOK, NEW w \in Wishes, IsRecord(w), wish[w].seen \in Nat \cup {NoValue},
           records' = AfterWrite(w), story' = StoryAfter(w), NEW r \in Records
    PROVE  \/ r # KindOf[w] /\ records'[r] = records[r] /\ story'[r] = story[r]
           \/ \E e \in AnEntry :
                /\ e.by = w /\ e.seen = IF r = KindOf[w] THEN wish[w].seen ELSE NoValue
                /\ story'[r] = Append(story[r], e)
                /\ records'[r] = [version |-> records[r].version + 1, text |-> TextOf[w]]
<1> DEFINE rows == [records EXCEPT ![KindOf[w]] = NextVersion(records[KindOf[w]], TextOf[w])]
<1>0. Entry(w) \in AnEntry /\ Entry(w).by = w /\ Entry(w).seen = wish[w].seen
    BY DEF Entry, AnEntry
<1>1. story'[r] = IF r = KindOf[w] THEN Append(story[r], Entry(w))
                  ELSE IF KindOf[w] = "review" /\ r = "action" /\ records'[r] # records[r]
                       THEN Append(story[r], [Entry(w) EXCEPT !.seen = NoValue])
                       ELSE story[r]
    BY DEF StoryAfter
<1>2. rows[KindOf[w]] = [version |-> records[KindOf[w]].version + 1, text |-> TextOf[w]]
      /\ \A q \in Records : q # KindOf[w] => rows[q] = records[q]
    BY DEF WritesTypeOK, NextVersion, IsRecord
<1>3. CASE r = KindOf[w]
    <2>1. records'[r] = rows[r]
        BY <1>3 DEF AfterWrite, LessonWritten, WritesTypeOK, IsRecord
    <2> QED BY <1>0, <1>1, <1>2, <1>3, <2>1
<1>4. CASE r # KindOf[w] /\ ~(KindOf[w] = "review" /\ r = "action")
    <2>1. records'[r] = records[r]
        BY <1>2, <1>4 DEF AfterWrite, LessonWritten, WritesTypeOK
    <2> QED BY <1>1, <1>4, <2>1
<1>5. CASE r # KindOf[w] /\ KindOf[w] = "review" /\ r = "action"
    <2>1. records'[r] = records[r] \/ records'[r] = NextVersion(records[r], TextOf[w])
        BY <1>2, <1>5 DEF AfterWrite, LessonWritten, WritesTypeOK
    <2>2. [Entry(w) EXCEPT !.seen = NoValue] \in AnEntry
          /\ [Entry(w) EXCEPT !.seen = NoValue].by = w
          /\ [Entry(w) EXCEPT !.seen = NoValue].seen = NoValue
        BY <1>0 DEF AnEntry
    <2>3. CASE records'[r] = records[r] BY <1>1, <1>5, <2>3
    <2>4. CASE records'[r] # records[r]
        BY <1>1, <1>5, <2>1, <2>2, <2>4 DEF NextVersion
    <2> QED BY <2>3, <2>4
<1> QED BY <1>3, <1>4, <1>5

\* A record write adds the version after the expected one, or replays its receipt.
LEMMA WriteRecordStep ==
    ASSUME WriteInv, NEW s \in Senders, WriteRecord(s)
    PROVE  WriteInv'
<1>0. WritesTypeOK /\ OneCreation /\ EnvelopesInOrder /\ CredentialsOpen /\ RecordInv
    BY DEF WriteInv
<1>c. PICK w \in Wishes : w = request[s].wish BY <1>0 DEF WriteRecord, WritesTypeOK
<1> DEFINE k == KindOf[w]
<1>1. w \in Wishes /\ wish[w].step = "asked" /\ IsRecord(w) /\ request[s].step # "none"
    BY <1>0, <1>c DEF WriteRecord, WritesTypeOK, KindIn, IsRecord
<1>2. UNCHANGED <<connection, envelopes>> /\ UNCHANGED <<syncs, generation>>
    BY DEF WriteRecord
<1>3. CASE \/ Known(w)
           \/ ~Known(w) /\ ~(Available(w) /\ Current(w))
    <2>1. UNCHANGED <<records, receipts, story>> BY <1>c, <1>3 DEF WriteRecord
    <2>2. PICK answer \in {"ok", "refused", "rejected", "unclear"} :
            Answer(s, answer) /\ TrueAnswer(w, answer)
        <3>1. CASE Known(w)
            BY <1>c, <1>1, <3>1 DEF WriteRecord, Acknowledged, TrueAnswer, Known, KindIn
        <3>2. CASE ~Known(w) /\ ~(Available(w) /\ Current(w))
            <4>1. Answer(s, "refused") BY <1>c, <3>2 DEF WriteRecord, Outcome
            <4>2. Past(w)
                <5>1. wish[w].expected \in Nat /\ wish[w].expected <= records[k].version
                      /\ (k = "report" => wish[w].generation \in Nat
                                          /\ wish[w].generation <= generation)
                    BY <1>0, <1>1 DEF RecordInv, ExpectedWasThere
                <5>2. records[k].version \in Nat /\ generation \in Nat
                    BY <1>0, <1>1 DEF WritesTypeOK, IsRecord
                <5> QED BY <3>2, <5>1, <5>2 DEF Past, Available, Current
            <4> QED BY <3>2, <4>1, <4>2 DEF TrueAnswer, Known
        <3> QED BY <1>3, <3>1, <3>2
    <2>3. RecordInv' BY <1>c, <1>0, <1>1, <1>2, <2>1, <2>2, AnswerKeepsRecords
    <2>4. \A v \in Wishes : wish'[v].step = wish[v].step
        BY <1>0, <1>1, <2>2, AnswerTells DEF SameBut
    <2>5. OneCreation' /\ EnvelopesInOrder' /\ CredentialsOpen'
        BY <1>0, <1>2, <2>4, SameCredentials
    <2>6. WritesTypeOK'
        BY <1>0, <1>1, <1>2, <2>1, <2>2, AnswerTells, AnswerKeepsTypes DEF WritesTypeOK
    <2> QED BY <2>3, <2>5, <2>6 DEF WriteInv
<1>4. CASE ~Known(w) /\ Available(w) /\ Current(w)
    <2>1. /\ records' = AfterWrite(w) /\ story' = StoryAfter(w)
          /\ receipts' = [receipts EXCEPT ![w] = records'[k].version]
        BY <1>c, <1>4 DEF WriteRecord
    <2>2. PICK answer \in {"ok", "unclear"} : Answer(s, answer)
        BY <1>c, <1>4 DEF WriteRecord, Acknowledged
    <2>3. /\ wish' \in [Wishes -> Wish] /\ request' \in [Senders -> Request]
          /\ \A v \in Wishes : SameBut(v)
          /\ \A v \in Wishes : wish'[v].told # wish[v].told => v = w /\ wish'[v].told = answer
          /\ \A q \in Senders : request'[q].step # "none" =>
                request'[q].wish \in Wishes /\ wish'[request'[q].wish].step = "asked"
        BY <1>c, <1>0, <1>1, <2>2, AnswerTells, AnswerKeepsTypes
    <2>4. /\ wish[w].expected \in Nat /\ wish[w].expected = records[k].version
          /\ wish[w].seen = records[k].version /\ Len(story[k]) = records[k].version
        BY <1>0, <1>1, <1>4 DEF RecordInv, ExpectedWasThere, VersionsCount, IsRecord, Current
    <2>5. ASSUME NEW r \in Records
          PROVE  \/ r # k /\ records'[r] = records[r] /\ story'[r] = story[r]
                 \/ \E e \in AnEntry :
                      /\ e.by = w /\ e.seen = IF r = k THEN records[k].version ELSE NoValue
                      /\ story'[r] = Append(story[r], e)
                      /\ records'[r] = [version |-> records[r].version + 1, text |-> TextOf[w]]
        BY <1>0, <1>1, <2>1, <2>4, OneEntry
    <2>6. WritesTypeOK'
        <3>1. records' = [r \in Records |-> records'[r]] /\ story' = [r \in Records |-> story'[r]]
            BY <1>0, <2>1 DEF WritesTypeOK, AfterWrite, LessonWritten, StoryAfter
        <3>2. \A r \in Records : records[r].version \in Nat /\ records[r].version + 1 \in Nat
            BY <1>0 DEF WritesTypeOK
        <3>3. \A r \in Records :
                /\ records'[r] \in [version : Nat, text : {TextOf[v] : v \in Wishes} \cup {NoValue}]
                /\ story'[r] \in Seq(AnEntry)
            <4> SUFFICES ASSUME NEW r \in Records
                PROVE  /\ records'[r] \in [version : Nat,
                                           text : {TextOf[v] : v \in Wishes} \cup {NoValue}]
                       /\ story'[r] \in Seq(AnEntry)
                OBVIOUS
            <4>1. story[r] \in Seq(AnEntry) BY <1>0 DEF WritesTypeOK
            <4>2. CASE records'[r] = records[r] /\ story'[r] = story[r]
                BY <1>0, <4>1, <4>2 DEF WritesTypeOK
            <4>3. ASSUME NEW e \in AnEntry, story'[r] = Append(story[r], e),
                         records'[r] = [version |-> records[r].version + 1, text |-> TextOf[w]]
                  PROVE  /\ records'[r] \in [version : Nat,
                                             text : {TextOf[v] : v \in Wishes} \cup {NoValue}]
                         /\ story'[r] \in Seq(AnEntry)
                BY <1>1, <3>2, <4>1, <4>3
            <4> QED BY <2>5, <4>2, <4>3
        <3>4. receipts' \in [Wishes -> Nat \cup {NoValue}]
            BY <1>0, <1>1, <2>1, <3>3 DEF WritesTypeOK, IsRecord
        <3> QED BY <1>0, <1>2, <2>3, <3>1, <3>3, <3>4 DEF WritesTypeOK
    <2>7. VersionsCount'
        <3> SUFFICES ASSUME NEW r \in Records PROVE records'[r].version = Len(story'[r])
            BY DEF VersionsCount
        <3>1. story[r] \in Seq(AnEntry) /\ records[r].version = Len(story[r])
            BY <1>0 DEF WritesTypeOK, RecordInv, VersionsCount
        <3>2. records[r].version \in Nat BY <1>0 DEF WritesTypeOK
        <3>3. CASE records'[r] = records[r] /\ story'[r] = story[r] BY <3>1, <3>3
        <3>4. ASSUME NEW e \in AnEntry, story'[r] = Append(story[r], e),
                     records'[r] = [version |-> records[r].version + 1, text |-> TextOf[w]]
              PROVE  records'[r].version = Len(story'[r])
            BY <3>1, <3>2, <3>4
        <3> QED BY <2>5, <3>3, <3>4
    <2>8. \A r \in Records : /\ records[r].version \in Nat /\ records'[r].version \in Nat
                             /\ records[r].version <= records'[r].version
        <3> SUFFICES ASSUME NEW r \in Records
                     PROVE  /\ records[r].version \in Nat /\ records'[r].version \in Nat
                            /\ records[r].version <= records'[r].version
            OBVIOUS
        <3>1. records[r].version \in Nat BY <1>0 DEF WritesTypeOK
        <3>2. records'[r] = records[r]
              \/ records'[r] = [version |-> records[r].version + 1, text |-> TextOf[w]]
            BY <2>5
        <3>3. records'[r].version \in {records[r].version, records[r].version + 1} BY <3>2
        <3> QED BY <3>1, <3>3
    <2>9. records'[k].version = records[k].version + 1
        <3>1. k \in Records BY <1>1 DEF IsRecord
        <3>2. records'[k] = [version |-> records[k].version + 1, text |-> TextOf[w]]
            BY <2>5, <3>1
        <3> QED BY <3>2
    <2>10. NothingReplacedUnseen'
        <3> SUFFICES ASSUME NEW r \in Records, NEW n \in 1..Len(story'[r])
                     PROVE  story'[r][n].seen \in {n - 1, NoValue}
            BY DEF NothingReplacedUnseen
        <3>1. story[r] \in Seq(AnEntry) /\ records[r].version = Len(story[r])
            BY <1>0 DEF WritesTypeOK, RecordInv, VersionsCount
        <3>2. \A m \in 1..Len(story[r]) : story[r][m].seen \in {m - 1, NoValue}
            BY <1>0 DEF RecordInv, NothingReplacedUnseen
        <3>3. CASE story'[r] = story[r] BY <3>2, <3>3
        <3>4. ASSUME NEW e \in AnEntry, story'[r] = Append(story[r], e),
                     e.seen = IF r = k THEN records[k].version ELSE NoValue
              PROVE  story'[r][n].seen \in {n - 1, NoValue}
            <4>1. CASE n \in 1..Len(story[r]) BY <3>1, <3>2, <3>4, <4>1
            <4>2. CASE n \notin 1..Len(story[r])
                <5>1. n = Len(story[r]) + 1 /\ story'[r][n] = e BY <3>1, <3>4, <4>2
                <5>2. n - 1 = records[r].version BY <3>1, <5>1
                <5> QED BY <3>4, <5>1, <5>2
            <4> QED BY <4>1, <4>2
        <3> QED BY <2>5, <3>3, <3>4
    <2>11. ExpectedWasThere'
        <3> SUFFICES ASSUME NEW v \in Wishes, IsRecord(v), wish'[v].step = "asked"
                     PROVE  /\ wish'[v].expected \in Nat
                            /\ wish'[v].expected <= records'[KindOf[v]].version
                            /\ wish'[v].seen = wish'[v].expected
                            /\ KindOf[v] = "report" => /\ wish'[v].generation \in Nat
                                                       /\ wish'[v].generation <= generation'
            BY DEF ExpectedWasThere, IsRecord
        <3> QED BY <1>0, <1>2, <2>3, <2>8 DEF RecordInv, ExpectedWasThere, SameBut, IsRecord
    <2>12. ReceiptsStand'
        <3> DEFINE old == Len(story[k])
        <3>1. story[k] \in Seq(AnEntry) /\ old \in Nat BY <1>0, <1>1 DEF WritesTypeOK, IsRecord
        <3>2. receipts[w] = NoValue /\ \A n \in 1..old : story[k][n].by # w
            BY <1>0, <1>1, <1>4 DEF RecordInv, ReceiptsStand, Known, Applied
        <3>3. PICK e \in AnEntry : e.by = w /\ story'[k] = Append(story[k], e)
            BY <1>1, <2>5 DEF IsRecord
        <3>4. WrittenOnce(w)'
            <4>1. Len(story'[k]) = old + 1 /\ story'[k][old + 1].by = w
                  /\ \A n \in 1..old : story'[k][n] = story[k][n]
                BY <3>1, <3>3
            <4>2. \A n \in 1..Len(story'[k]) : story'[k][n].by = w <=> n = old + 1
                <5> SUFFICES ASSUME NEW n \in 1..(old + 1)
                             PROVE  story'[k][n].by = w <=> n = old + 1
                    BY <4>1
                <5>1. CASE n = old + 1 BY <4>1, <5>1
                <5>2. CASE n # old + 1
                    <6>1. n \in 1..old BY <3>1, <5>2
                    <6> QED BY <3>2, <4>1, <5>2, <6>1
                <5> QED BY <5>1, <5>2
            <4>3. old + 1 \in 1..Len(story'[k]) BY <3>1, <4>1
            <4> QED BY <4>2, <4>3 DEF WrittenOnce
        <3>5. receipts'[w] = wish'[w].expected + 1 /\ wish'[w].step = "asked"
            BY <1>0, <1>1, <2>1, <2>3, <2>4, <2>9 DEF WritesTypeOK, SameBut
        <3>6. ASSUME NEW v \in Wishes, IsRecord(v), v # w
              PROVE  /\ receipts'[v] # NoValue =>
                           /\ wish'[v].step = "asked" /\ receipts'[v] = wish'[v].expected + 1
                           /\ WrittenOnce(v)'
                     /\ receipts'[v] = NoValue => ~Applied(v)'
            <4> DEFINE q == KindOf[v]
            <4>1. receipts'[v] = receipts[v] BY <1>0, <2>1, <3>6 DEF WritesTypeOK
            <4>2. \/ story'[q] = story[q]
                  \/ \E d \in AnEntry : d.by = w /\ story'[q] = Append(story[q], d)
                BY <2>5, <3>6 DEF IsRecord
            <4>3. story[q] \in Seq(AnEntry) BY <1>0, <3>6 DEF WritesTypeOK, IsRecord
            <4>4. \A n \in 1..Len(story'[q]) :
                    story'[q][n].by = v <=> n \in 1..Len(story[q]) /\ story[q][n].by = v
                BY <3>6, <4>2, <4>3
            <4>5. Len(story[q]) <= Len(story'[q]) /\ Len(story[q]) \in Nat
                  /\ Len(story'[q]) \in Nat
                BY <4>2, <4>3
            <4>6. WrittenOnce(v) => WrittenOnce(v)'
                <5> SUFFICES ASSUME WrittenOnce(v) PROVE WrittenOnce(v)' OBVIOUS
                <5>1. PICK m \in 1..Len(story[q]) :
                        \A n \in 1..Len(story[q]) : story[q][n].by = v <=> n = m
                    BY DEF WrittenOnce
                <5>2. m \in 1..Len(story'[q]) BY <4>5
                <5>3. \A n \in 1..Len(story'[q]) : story'[q][n].by = v <=> n = m
                    BY <4>4, <5>1
                <5> QED BY <5>2, <5>3 DEF WrittenOnce
            <4>7. ~Applied(v) => ~Applied(v)' BY <4>4 DEF Applied
            <4> QED BY <1>0, <2>3, <3>6, <4>1, <4>6, <4>7 DEF RecordInv, ReceiptsStand, SameBut
        <3>7. receipts'[w] # NoValue
            BY <1>0, <1>1, <2>1, <2>8, WritesAssumption DEF WritesTypeOK, IsRecord
        <3>8. ASSUME NEW v \in Wishes, IsRecord(v)
              PROVE  /\ receipts'[v] # NoValue =>
                           /\ wish'[v].step = "asked" /\ receipts'[v] = wish'[v].expected + 1
                           /\ WrittenOnce(v)'
                     /\ receipts'[v] = NoValue => ~Applied(v)'
            <4>1. CASE v = w BY <3>4, <3>5, <3>7, <4>1
            <4>2. CASE v # w BY <3>6, <3>8, <4>2
            <4> QED BY <4>1, <4>2
        <3> QED BY <3>8 DEF ReceiptsStand, IsRecord
    <2>13. AnswersStand'
        <3>1. receipts'[w] # NoValue
            BY <1>0, <1>1, <2>1, <2>8, WritesAssumption DEF WritesTypeOK, IsRecord
        <3>2. receipts[w] = NoValue BY <1>4 DEF Known
        <3>3. ASSUME NEW v \in Wishes, IsRecord(v), v # w
              PROVE  /\ wish'[v].told # NoValue => wish'[v].step = "asked"
                     /\ wish'[v].told = "ok" => receipts'[v] # NoValue
                     /\ wish'[v].told = "refused" => receipts'[v] = NoValue /\ Past(v)'
            <4>1. receipts'[v] = receipts[v] BY <1>0, <2>1, <3>3 DEF WritesTypeOK
            <4>2. wish'[v].told = wish[v].told BY <2>3, <3>3
            <4>3. ASSUME wish[v].told = "refused" PROVE Past(v)'
                <5>1. Past(v) /\ wish[v].step = "asked"
                    BY <1>0, <3>3, <4>3, WritesAssumption DEF RecordInv, AnswersStand
                <5>2. wish[v].expected \in Nat
                    BY <1>0, <3>3, <5>1 DEF RecordInv, ExpectedWasThere
                <5> QED BY <1>2, <2>3, <2>8, <3>3, <5>1, <5>2 DEF Past, SameBut, IsRecord
            <4> QED BY <1>0, <2>3, <3>3, <4>1, <4>2, <4>3
                DEF RecordInv, AnswersStand, SameBut
        <3>4. wish[w].told # "refused"
            <4>1. generation \in Nat /\ records[k].version \in Nat
                BY <1>0, <1>1 DEF WritesTypeOK, IsRecord
            <4>2. ~Past(w) BY <1>4, <2>4, <4>1 DEF Past, Available
            <4> QED BY <1>0, <1>1, <4>2 DEF RecordInv, AnswersStand
        <3>5. wish'[w].told # "refused" /\ wish'[w].step = "asked"
            BY <1>1, <2>3, <3>4 DEF SameBut
        <3> QED BY <3>1, <3>3, <3>5 DEF AnswersStand, IsRecord
    <2>14. RecordInv' BY <2>7, <2>10, <2>11, <2>12, <2>13 DEF RecordInv
    <2>15. OneCreation' /\ EnvelopesInOrder' /\ CredentialsOpen'
        BY <1>0, <1>2, <2>3, SameCredentials DEF SameBut
    <2> QED BY <2>6, <2>14, <2>15 DEF WriteInv
<1> QED BY <1>3, <1>4

\* A publication changes what a report is about, not who wrote what.
LEMMA PublishStep ==
    ASSUME WriteInv, PublishGeneration
    PROVE  WriteInv'
<1>0. WritesTypeOK /\ OneCreation /\ EnvelopesInOrder /\ CredentialsOpen /\ RecordInv
    BY DEF WriteInv
<1>1. UNCHANGED <<wish, request, records, receipts, story, connection, envelopes, syncs>>
      /\ generation' = generation + 1 /\ generation \in Nat
    BY <1>0 DEF PublishGeneration, Data, WritesTypeOK
<1>2. WritesTypeOK' BY <1>0, <1>1 DEF WritesTypeOK
<1>3. NothingReplacedUnseen' /\ VersionsCount' /\ ReceiptsStand'
    BY <1>0, <1>1 DEF RecordInv, NothingReplacedUnseen, VersionsCount, ReceiptsStand,
                      WrittenOnce, Applied
<1>4. ExpectedWasThere' BY <1>0, <1>1 DEF RecordInv, ExpectedWasThere
<1>5. AnswersStand'
    <2>1. ASSUME NEW w \in Wishes, IsRecord(w), wish[w].told = "refused" PROVE Past(w)'
        <3>1. Past(w) /\ wish[w].step = "asked"
            BY <1>0, <2>1, WritesAssumption DEF RecordInv, AnswersStand
        <3>2. KindOf[w] = "report" => wish[w].generation \in Nat
            BY <1>0, <2>1, <3>1 DEF RecordInv, ExpectedWasThere
        <3> QED BY <1>1, <3>1, <3>2 DEF Past
    <2> QED BY <1>0, <1>1, <2>1 DEF RecordInv, AnswersStand
<1>6. OneCreation' /\ EnvelopesInOrder' /\ CredentialsOpen' BY <1>0, <1>1, SameCredentials
<1> QED BY <1>2, <1>3, <1>4, <1>5, <1>6 DEF WriteInv, RecordInv

----------------------------------------------------------------------------
(* The theorems *)

\* At first nothing was asked, written or answered.
LEMMA WritesInitially == WritesInit => WriteInv
<1> SUFFICES ASSUME WritesInit PROVE WriteInv OBVIOUS
<1>1. PICK asked \in Chosen :
        /\ wish = [w \in Wishes |-> IF w \in asked THEN NoWish ELSE [NoWish EXCEPT !.step = "never"]]
        /\ connection = IF \E w \in asked : KindOf[w] = "create"
                        THEN [status |-> "NONE", version |-> 0]
                        ELSE [status |-> "ACTIVE", version |-> 1]
    BY DEF WritesInit
<1>2. NoWish \in Wish /\ [NoWish EXCEPT !.step = "never"] \in Wish
      /\ NoWish.step = "unasked" /\ [NoWish EXCEPT !.step = "never"].step = "never"
      /\ NoWish.told = NoValue /\ [NoWish EXCEPT !.step = "never"].told = NoValue
    BY DEF NoWish, Wish
<1>3. \A w \in Wishes : /\ wish[w] \in Wish /\ wish[w].told = NoValue
                        /\ wish[w].step = IF w \in asked THEN "unasked" ELSE "never"
    BY <1>1, <1>2
<1>4. WritesTypeOK
    <2>1. wish \in [Wishes -> Wish] BY <1>1, <1>2
    <2>2. NoRequest \in Request /\ NoRequest.step = "none" BY DEF NoRequest, Request
    <2>3. connection \in [status : {"NONE", "ACTIVE", "REVOKED"}, version : Nat] BY <1>1
    <2>4. story \in [Records -> Seq(AnEntry)]
          /\ records \in [Records -> [version : Nat, text : {TextOf[w] : w \in Wishes} \cup {NoValue}]]
        BY DEF WritesInit, NoRecord
    <2> QED BY <2>1, <2>2, <2>3, <2>4 DEF WritesTypeOK, WritesInit
<1>5. RecordInv
    <2>1. VersionsCount BY DEF WritesInit, VersionsCount, NoRecord
    <2>2. ExpectedWasThere BY <1>3 DEF ExpectedWasThere
    <2>3. ReceiptsStand BY DEF WritesInit, ReceiptsStand, Applied, IsRecord
    <2>4. AnswersStand BY <1>3, WritesAssumption DEF AnswersStand
    <2>5. NothingReplacedUnseen BY DEF WritesInit, NothingReplacedUnseen
    <2> QED BY <2>1, <2>2, <2>3, <2>4, <2>5 DEF RecordInv
<1>6. Storing = {} /\ Versions = {} BY DEF WritesInit, Storing, Versions
<1>7. OneCreation
    <2>1. \A w \in Wishes : Creates(w) => w \in asked /\ KindOf[w] = "create"
        BY <1>3 DEF Creates
    <2>2. \A v, w \in Wishes : Creates(v) /\ Creates(w) => v = w BY <2>1, WritesAssumption
    <2>3. \A w \in Wishes : wish[w].step # "asked" BY <1>3
    <2>4. connection.status = "NONE" => connection.version = 0 BY <1>1
    <2>5. (\E w \in Wishes : Creates(w)) => connection.status = "NONE" BY <1>1, <2>1
    <2> QED BY <1>6, <2>2, <2>3, <2>4, <2>5 DEF OneCreation
<1>8. EnvelopesInOrder BY <1>6, FS_EmptySet DEF EnvelopesInOrder
<1>9. CredentialsOpen BY <1>6 DEF CredentialsOpen, Storing, Versions
<1> QED BY <1>4, <1>5, <1>7, <1>8, <1>9 DEF WriteInv

\* Every step of users, handlers and the database keeps the invariant.
LEMMA WritesStep == WriteInv /\ [WritesNext]_writeVars => WriteInv'
<1> SUFFICES ASSUME WriteInv, [WritesNext]_writeVars PROVE WriteInv' OBVIOUS
<1>1. CASE UNCHANGED writeVars
    <2>1. UNCHANGED <<wish, request, connection, envelopes, records, receipts, syncs, generation,
                      story>>
        BY <1>1 DEF writeVars
    <2>2. RecordInv' BY <2>1, SameRecords DEF WriteInv, SameBut
    <2>3. OneCreation' /\ EnvelopesInOrder' /\ CredentialsOpen'
        BY <2>1, SameCredentials DEF WriteInv
    <2>4. WritesTypeOK' BY <2>1 DEF WriteInv, WritesTypeOK
    <2> QED BY <2>2, <2>3, <2>4 DEF WriteInv
<1>2. CASE WritesNext
    BY <1>2, AskStep, ArriveStep, HandlerFailsStep, ReadConnectionStep, CreateStep, RotateStep,
       DisconnectStep, SyncStep, WriteRecordStep, PublishStep
    DEF WritesNext
<1> QED BY <1>1, <1>2

\* So it holds always.
LEMMA WriteInvHolds == WritesSpec => []WriteInv
BY WritesInitially, WritesStep, PTL DEF WritesSpec

\* However often a request arrives and however late, what its author was told
\* of a record is true: an acknowledged write was made once and is the version
\* after the one its author saw, and a refused one was and will not be applied.
THEOREM ToldTheTruth == WritesSpec => []AnswersAreTrue
<1>1. WriteInv => AnswersAreTrue
    <2> SUFFICES ASSUME WriteInv, NEW w \in Wishes, KindOf[w] \in Records
                 PROVE  /\ wish[w].told = "ok" =>
                             /\ Cardinality({n \in 1..Len(story[KindOf[w]]) :
                                                story[KindOf[w]][n].by = w}) = 1
                             /\ receipts[w] = wish[w].expected + 1
                        /\ wish[w].told = "refused" => ~Applied(w)
        BY DEF AnswersAreTrue
    <2>1. ReceiptsStand /\ AnswersStand /\ IsRecord(w) BY DEF WriteInv, RecordInv, IsRecord
    <2>2. ASSUME WrittenOnce(w)
          PROVE  Cardinality({n \in 1..Len(story[KindOf[w]]) : story[KindOf[w]][n].by = w}) = 1
        <3>1. PICK m \in 1..Len(story[KindOf[w]]) :
                \A n \in 1..Len(story[KindOf[w]]) : story[KindOf[w]][n].by = w <=> n = m
            BY <2>2 DEF WrittenOnce
        <3>2. {n \in 1..Len(story[KindOf[w]]) : story[KindOf[w]][n].by = w} = {m} BY <3>1
        <3> QED BY <3>2, FS_Singleton
    <2> QED BY <2>1, <2>2 DEF ReceiptsStand, AnswersStand
<1> QED BY <1>1, WriteInvHolds, PTL

\* No text is replaced by an author who has not seen it.
THEOREM TextsAreSeen == WritesSpec => []NothingReplacedUnseen
<1>1. WriteInv => NothingReplacedUnseen BY DEF WriteInv, RecordInv
<1> QED BY <1>1, WriteInvHolds, PTL

\* Every stored credential opens for the version it was stored under, and each
\* has a version of its own, for any number of creations that arrive twice,
\* rotations and disconnections.
THEOREM CredentialsAlwaysOpen == WritesSpec => []CredentialsOpen
<1>1. WriteInv => CredentialsOpen BY DEF WriteInv
<1> QED BY <1>1, WriteInvHolds, PTL

----------------------------------------------------------------------------
(* Archives: a file that is being finalized is whole, agrees with itself,  *)
(* and disagrees with nothing but what pages wrote since it was compared.  *)

ArchiveStates == {"none", "PENDING", "CLAIMED", "ATTESTED", "EXPIRED", "FAILED", "CONFLICT",
                  "COMPLETED"}
Batches == UNION {DOMAIN FileOf[u] : u \in Urls}
AnEvent == [digest : Digests, by : Urls \cup {"page"}]

ArchiveTypeOK ==
    /\ archive \in [Urls -> [status : ArchiveStates, run : ArchiveRuns \cup {Nothing},
                             expired : BOOLEAN]]
    /\ staged \in [Urls -> SUBSET Batches]
    /\ finalizing \in [url : Urls \cup {Nothing}, conflicts : SUBSET Ids]
    /\ page \in (Ids \X Digests) \cup {Nothing}
    /\ event \in [Ids -> AnEvent \cup {Unwritten}]

\* Only links that wait to be claimed or attested can be too old.
OnlyWaitingExpire ==
    \A u \in Urls : archive[u].expired => archive[u].status \in {"PENDING", "CLAIMED"}

\* A file with one digest for each of its ids.
OneDigestEach(u) ==
    \A row, other \in Rows(u) : row[1] = other[1] => row = other

\* What was stored of a row's id, if anything, agrees with it or came by page.
NotContradicted(u) ==
    \A row \in Rows(u) :
        event[row[1]] = Unwritten \/ event[row[1]].digest = row[2] \/ event[row[1]].by = "page"

FinalizesWhole ==
    finalizing.url # Nothing =>
        /\ archive[finalizing.url].status = "ATTESTED"
        /\ staged[finalizing.url] = DOMAIN FileOf[finalizing.url]
        /\ finalizing.conflicts = {} =>
             OneDigestEach(finalizing.url) /\ NotContradicted(finalizing.url)

ArchiveInv == ArchiveTypeOK /\ OnlyWaitingExpire /\ FinalizesWhole /\ CompletedIsWhole

evidenceVars == <<archive, staged, finalizing, page, event>>

\* The invariant is about the evidence alone: what leaves it alone keeps the invariant.
LEMMA SameEvidence == ArchiveInv /\ UNCHANGED evidenceVars => ArchiveInv'
<1> SUFFICES ASSUME ArchiveInv, UNCHANGED evidenceVars PROVE ArchiveInv' OBVIOUS
<1>1. ArchiveTypeOK' /\ OnlyWaitingExpire'
    BY DEF ArchiveInv, evidenceVars, ArchiveTypeOK, OnlyWaitingExpire
<1>2. FinalizesWhole'
    BY DEF ArchiveInv, evidenceVars, FinalizesWhole, NotContradicted
<1>3. CompletedIsWhole' BY DEF ArchiveInv, evidenceVars, CompletedIsWhole
<1> QED BY <1>1, <1>2, <1>3 DEF ArchiveInv

\* Links are staged, claimed, attested, given up and grow old: none of it
\* touches an archive that is completed or being finalized.
LEMMA ArchiveKept ==
    ASSUME ArchiveInv, UNCHANGED <<finalizing, page, event>>,
           archive' \in [Urls -> [status : ArchiveStates, run : ArchiveRuns \cup {Nothing},
                                  expired : BOOLEAN]],
           \A u \in Urls : archive'[u].expired => archive'[u].status \in {"PENDING", "CLAIMED"},
           \A u \in Urls : archive[u].status = "COMPLETED" <=> archive'[u].status = "COMPLETED",
           finalizing.url # Nothing => archive'[finalizing.url].status = "ATTESTED",
           staged' \in [Urls -> SUBSET Batches],
           \A u \in Urls : u = finalizing.url => staged'[u] = staged[u]
    PROVE  ArchiveInv'
<1>1. ArchiveTypeOK' /\ OnlyWaitingExpire' BY DEF ArchiveInv, ArchiveTypeOK, OnlyWaitingExpire
<1>2. finalizing.url # Nothing => finalizing.url \in Urls BY DEF ArchiveInv, ArchiveTypeOK
<1>3. FinalizesWhole' BY <1>2 DEF ArchiveInv, FinalizesWhole, NotContradicted
<1>4. CompletedIsWhole'
    <2>1. \A i \in Ids : event[i].by \in Urls => archive'[event[i].by].status = "COMPLETED"
        BY DEF ArchiveInv, CompletedIsWhole
    <2> QED BY <2>1 DEF ArchiveInv, CompletedIsWhole
<1> QED BY <1>1, <1>3, <1>4 DEF ArchiveInv

\* Links, their claims and attestations come before any row of the file is stored.
LEMMA LinkStep ==
    ASSUME ArchiveInv,
           \/ \E w \in Workers : StageLink(w)
           \/ \E u \in Urls : ArchiveAges(u)
           \/ \E r \in ArchiveRuns, u \in Urls :
                ClaimDownload(r, u) \/ AttestPayload(r, u) \/ FailClaim(r, u)
    PROVE  ArchiveInv'
<1> DEFINE Archive == [status : ArchiveStates, run : ArchiveRuns \cup {Nothing},
                       expired : BOOLEAN]
<1> DEFINE Kept(u) == /\ archive'[u] \in Archive
                      /\ archive'[u].expired => archive'[u].status \in {"PENDING", "CLAIMED"}
                      /\ archive[u].status = "COMPLETED" <=> archive'[u].status = "COMPLETED"
                      /\ u = finalizing.url => archive'[u].status = "ATTESTED"
<1>0. /\ archive \in [Urls -> Archive] /\ OnlyWaitingExpire
      /\ finalizing.url # Nothing => finalizing.url \in Urls
      /\ \A u \in Urls : u = finalizing.url => archive[u].status = "ATTESTED"
    BY ArchiveAssumption DEF ArchiveInv, ArchiveTypeOK, FinalizesWhole
<1>1. \A u \in Urls : archive'[u] = archive[u] => Kept(u)
    BY <1>0 DEF OnlyWaitingExpire
<1>2. SUFFICES /\ UNCHANGED <<finalizing, page, event, staged>>
               /\ archive' = [u \in Urls |-> archive'[u]]
               /\ \A u \in Urls : Kept(u)
    <2>1. archive' \in [Urls -> Archive] BY <1>2
    <2> QED BY <1>0, <1>2, <2>1, ArchiveKept DEF ArchiveInv, ArchiveTypeOK
<1>3. ASSUME NEW w \in Workers, StageLink(w)
      PROVE  /\ UNCHANGED <<finalizing, page, event, staged>>
             /\ archive' = [u \in Urls |-> archive'[u]]
             /\ \A u \in Urls : Kept(u)
    <2>1. UNCHANGED <<finalizing, page, event, staged>> /\ archive' = [u \in Urls |-> archive'[u]]
        BY <1>0, <1>3 DEF StageLink, Evidence
    <2>2. ASSUME NEW u \in Urls, archive'[u] # archive[u] PROVE Kept(u)
        <3>1. archive[u].status = "none"
              /\ archive'[u] = [NoArchive EXCEPT !.status = "PENDING"]
            BY <1>0, <1>3, <2>2 DEF StageLink
        <3>2. archive'[u] = [status |-> "PENDING", run |-> Nothing, expired |-> FALSE]
            BY <3>1 DEF NoArchive
        <3>3. archive'[u] \in Archive BY <3>2 DEF ArchiveStates
        <3>4. u # finalizing.url BY <1>0, <3>1
        <3> QED BY <3>1, <3>2, <3>3, <3>4
    <2> QED BY <1>1, <2>1, <2>2
<1>4. ASSUME NEW u \in Urls, ArchiveAges(u)
      PROVE  /\ UNCHANGED <<finalizing, page, event, staged>>
             /\ archive' = [v \in Urls |-> archive'[v]]
             /\ \A v \in Urls : Kept(v)
    <2>1. UNCHANGED <<finalizing, page, event, staged>> /\ archive' = [v \in Urls |-> archive'[v]]
        BY <1>0, <1>4 DEF ArchiveAges, Evidence
    <2>2. archive'[u] = [archive[u] EXCEPT !.expired = TRUE]
          /\ \A v \in Urls : v # u => archive'[v] = archive[v]
        BY <1>0, <1>4 DEF ArchiveAges
    <2>3. archive[u] \in Archive BY <1>0
    <2>4. archive'[u] \in Archive /\ archive'[u].status = archive[u].status BY <2>2, <2>3
    <2>5. Kept(u) BY <1>0, <1>4, <2>4 DEF ArchiveAges
    <2> QED BY <1>1, <2>1, <2>2, <2>5
<1>5. ASSUME NEW r \in ArchiveRuns, NEW u \in Urls, ClaimDownload(r, u)
      PROVE  /\ UNCHANGED <<finalizing, page, event, staged>>
             /\ archive' = [v \in Urls |-> archive'[v]]
             /\ \A v \in Urls : Kept(v)
    <2>1. UNCHANGED <<finalizing, page, event, staged>> /\ archive' = [v \in Urls |-> archive'[v]]
        BY <1>5 DEF ClaimDownload, Evidence
    <2>2. Kept(u)
        <3>1. archive'[u] = [archive[u] EXCEPT !.status = "CLAIMED", !.run = r]
            BY <1>5 DEF ClaimDownload
        <3>2. archive[u] \in Archive BY <1>0
        <3>3. archive'[u] \in Archive /\ archive'[u].status = "CLAIMED"
            BY <3>1, <3>2 DEF ArchiveStates
        <3> QED BY <1>0, <1>5, <3>3 DEF ClaimDownload
    <2>3. ASSUME NEW v \in Urls, v # u PROVE Kept(v)
        <3>1. archive'[v] = Swept(archive[v]) BY <1>5, <2>3 DEF ClaimDownload
        <3>2. archive[v] \in Archive BY <1>0
        <3>3. CASE ~archive[v].expired BY <1>1, <3>1, <3>3 DEF Swept
        <3>4. CASE archive[v].expired
            <4>1. archive[v].status \in {"PENDING", "CLAIMED"} BY <1>0, <3>4 DEF OnlyWaitingExpire
            <4>2. archive'[v] \in Archive /\ archive'[v].status \in {"EXPIRED", "FAILED"}
                  /\ archive'[v].expired = FALSE
                BY <3>1, <3>2, <3>4 DEF Swept, ArchiveStates
            <4> QED BY <1>0, <4>1, <4>2
        <3> QED BY <3>3, <3>4
    <2> QED BY <2>1, <2>2, <2>3
<1>6. ASSUME NEW r \in ArchiveRuns, NEW u \in Urls, AttestPayload(r, u) \/ FailClaim(r, u)
      PROVE  /\ UNCHANGED <<finalizing, page, event, staged>>
             /\ archive' = [v \in Urls |-> archive'[v]]
             /\ \A v \in Urls : Kept(v)
    <2>1. UNCHANGED <<finalizing, page, event, staged>> /\ archive' = [v \in Urls |-> archive'[v]]
        BY <1>0, <1>6 DEF AttestPayload, FailClaim, Evidence
    <2>2. \A v \in Urls : v # u => archive'[v] = archive[v]
        BY <1>0, <1>6 DEF AttestPayload, FailClaim
    <2>3. finalizing.url # u /\ archive[u].status \in {"CLAIMED", "ATTESTED"}
        BY <1>6 DEF AttestPayload, FailClaim, Free, Failable
    <2>4. archive[u] \in Archive BY <1>0
    <2>5. \/ archive'[u] = [archive[u] EXCEPT !.status = "ATTESTED"] /\ ~archive[u].expired
          \/ archive'[u] = [archive[u] EXCEPT !.status = "FAILED"] /\ archive[u].status = "ATTESTED"
          \/ archive'[u] = [archive[u] EXCEPT !.status = "FAILED", !.expired = FALSE]
        BY <1>0, <1>6 DEF AttestPayload, FailClaim
    <2>6. archive'[u] \in Archive /\ archive'[u].status \in {"ATTESTED", "FAILED"}
          /\ ~archive'[u].expired
        BY <1>0, <2>4, <2>5, ZenonT(60) DEF ArchiveStates, OnlyWaitingExpire
    <2>7. Kept(u) BY <2>3, <2>6
    <2> QED BY <1>1, <2>1, <2>2, <2>7
<1> QED BY <1>3, <1>4, <1>5, <1>6

\* A batch stages rows of the file that was attested.
LEMMA IngestStep ==
    ASSUME ArchiveInv, NEW r \in ArchiveRuns, NEW u \in Urls, NEW b \in DOMAIN FileOf[u],
           IngestBatch(r, u, b)
    PROVE  ArchiveInv'
<1>1. ArchiveTypeOK /\ OnlyWaitingExpire /\ FinalizesWhole BY DEF ArchiveInv
<1>2. UNCHANGED <<finalizing, page, event, archive>> BY DEF IngestBatch, Evidence
<1>3. b \in Batches BY DEF Batches
<1>4. staged' \in [Urls -> SUBSET Batches]
    BY <1>1, <1>3 DEF IngestBatch, ArchiveTypeOK
<1>5. \A v \in Urls : v = finalizing.url => staged'[v] = staged[v]
    BY <1>1 DEF IngestBatch, ArchiveTypeOK, Free
<1> QED BY <1>1, <1>2, <1>4, <1>5, ArchiveKept DEF ArchiveTypeOK, OnlyWaitingExpire, FinalizesWhole

\* The rows of a file are finitely many events.
LEMMA RowsAreEvents ==
    ASSUME NEW u \in Urls
    PROVE  Rows(u) \subseteq Ids \X Digests /\ IsFiniteSet(Rows(u))
<1> DEFINE files == {FileOf[u][b] : b \in DOMAIN FileOf[u]}
<1>1. Rows(u) = UNION files BY DEF Rows
<1>2. IsFiniteSet(files)
    <2>1. IsFiniteSet(DOMAIN FileOf[u]) BY ArchiveAssumption
    <2> DEFINE file == [b \in DOMAIN FileOf[u] |-> FileOf[u][b]]
    <2>2. file \in Surjection(DOMAIN FileOf[u], files) BY DEF Surjection
    <2> QED BY <2>1, <2>2, FS_Surjection
<1>3. \A f \in files : f \subseteq Ids \X Digests /\ IsFiniteSet(f) BY ArchiveAssumption
<1>4. IsFiniteSet(UNION files) BY <1>2, <1>3, FS_UNION
<1> QED BY <1>1, <1>3, <1>4

\* Finalization scans what was staged, which is the whole file, for conflicts.
LEMMA StartFinalizeStep ==
    ASSUME ArchiveInv, NEW r \in ArchiveRuns, NEW u \in Urls, StartFinalize(r, u)
    PROVE  ArchiveInv'
<1>0. ArchiveTypeOK BY DEF ArchiveInv
<1>1. UNCHANGED <<archive, staged, page, event>> BY DEF StartFinalize, Edge
<1>2. finalizing' = [url |-> u, conflicts |-> {i \in Ids : Disagrees(u, i)}]
      /\ archive[u].status = "ATTESTED" /\ staged[u] = DOMAIN FileOf[u]
    BY DEF StartFinalize, BatchSetComplete
<1>3. StagedRows(u) = Rows(u) BY <1>2 DEF StagedRows, Rows
<1>4. ASSUME {i \in Ids : Disagrees(u, i)} = {} PROVE OneDigestEach(u) /\ NotContradicted(u)
    <2>1. ASSUME NEW row \in Rows(u), NEW other \in Rows(u), row[1] = other[1] PROVE row = other
        <3> DEFINE same == {q \in Rows(u) : q[1] = row[1]}
        <3>1. row[1] \in Ids BY RowsAreEvents
        <3>2. ~(Cardinality(same) > 1) BY <1>3, <1>4, <3>1 DEF Disagrees
        <3>3. IsFiniteSet(same) BY RowsAreEvents, FS_Subset
        <3>4. Cardinality(same) \in Nat BY <3>3, FS_CardinalityType
        <3>5. row \in same /\ other \in same BY <2>1
        <3>6. SUFFICES ASSUME row # other PROVE FALSE OBVIOUS
        <3>7. {row, other} \subseteq same BY <3>5
        <3>8. Cardinality({row, other}) <= Cardinality(same) BY <3>3, <3>7, FS_Subset
        <3>9. Cardinality({row, other}) = 2
            <4>1. IsFiniteSet({row}) /\ Cardinality({row}) = 1 BY FS_Singleton
            <4>2. other \notin {row} /\ {row, other} = {row} \cup {other} BY <3>6
            <4>3. Cardinality({row} \cup {other}) = Cardinality({row}) + 1
                BY <4>1, <4>2, FS_AddElement
            <4> QED BY <4>1, <4>2, <4>3
        <3> QED BY <3>2, <3>4, <3>8, <3>9
    <2>2. ASSUME NEW row \in Rows(u)
          PROVE  event[row[1]] = Unwritten \/ event[row[1]].digest = row[2]
        <3>1. row = <<row[1], row[2]>> /\ row[1] \in Ids /\ row[2] \in Digests BY RowsAreEvents
        <3>2. ~Disagrees(u, row[1]) BY <1>4, <3>1
        <3>3. event[row[1]].digest \in {Nothing, row[2]} BY <1>3, <3>1, <3>2 DEF Disagrees
        <3>4. event[row[1]] = Unwritten \/ event[row[1]].digest \in Digests
            BY <1>0, <3>1 DEF ArchiveTypeOK, AnEvent
        <3> QED BY <3>3, <3>4, ArchiveAssumption
    <2> QED BY <2>1, <2>2 DEF OneDigestEach, NotContradicted
<1>5. ArchiveTypeOK' BY <1>0, <1>1, <1>2 DEF ArchiveTypeOK
<1>6. OnlyWaitingExpire' /\ CompletedIsWhole'
    BY <1>1 DEF ArchiveInv, OnlyWaitingExpire, CompletedIsWhole
<1>7. FinalizesWhole'
    <2>1. finalizing'.url = u /\ finalizing'.conflicts = {i \in Ids : Disagrees(u, i)} BY <1>2
    <2>2. NotContradicted(u) => NotContradicted(u)' BY <1>1 DEF NotContradicted
    <2> QED BY <1>1, <1>2, <1>4, <2>1, <2>2 DEF FinalizesWhole, NotContradicted
<1> QED BY <1>5, <1>6, <1>7 DEF ArchiveInv

\* A conflict or a roll-back ends the finalization without storing a row.
LEMMA SettleStep ==
    ASSUME ArchiveInv, FinalizeConflict \/ FinalizeRollsBack
    PROVE  ArchiveInv'
<1>0. ArchiveTypeOK /\ OnlyWaitingExpire /\ FinalizesWhole /\ CompletedIsWhole BY DEF ArchiveInv
<1>1. UNCHANGED <<staged, page, event>> /\ finalizing' = NoFinalize
    BY DEF FinalizeConflict, FinalizeRollsBack, Settle
<1>2. \/ archive' = archive
      \/ /\ finalizing.url \in Urls
         /\ archive' = [archive EXCEPT ![finalizing.url].status = "CONFLICT"]
    BY <1>0 DEF FinalizeConflict, FinalizeRollsBack, Settle, ArchiveTypeOK
<1>3. finalizing'.url = Nothing /\ finalizing' \in [url : Urls \cup {Nothing}, conflicts : SUBSET Ids]
    BY <1>1 DEF NoFinalize
<1>4. FinalizesWhole' BY <1>3 DEF FinalizesWhole
<1>5. CASE archive' = archive
    BY <1>0, <1>1, <1>3, <1>4, <1>5
    DEF ArchiveInv, ArchiveTypeOK, OnlyWaitingExpire, CompletedIsWhole
<1>6. CASE /\ finalizing.url \in Urls
           /\ archive' = [archive EXCEPT ![finalizing.url].status = "CONFLICT"]
    <2> DEFINE u == finalizing.url
    <2>1. archive[u].status = "ATTESTED" /\ archive[u].expired = FALSE
        BY <1>0, <1>6, ArchiveAssumption DEF FinalizesWhole, OnlyWaitingExpire, ArchiveTypeOK
    <2>2. archive'[u] = [archive[u] EXCEPT !.status = "CONFLICT"]
          /\ \A v \in Urls : v # u => archive'[v] = archive[v]
        BY <1>0, <1>6 DEF ArchiveTypeOK
    <2>3. archive'[u].status = "CONFLICT" /\ archive'[u].expired = FALSE
        BY <1>0, <1>6, <2>1, <2>2 DEF ArchiveTypeOK
    <2>4. archive' \in [Urls -> [status : ArchiveStates, run : ArchiveRuns \cup {Nothing},
                                 expired : BOOLEAN]]
        BY <1>0, <1>6 DEF ArchiveTypeOK, ArchiveStates
    <2>5. ArchiveTypeOK' BY <1>0, <1>1, <1>3, <2>4 DEF ArchiveTypeOK
    <2>6. OnlyWaitingExpire'
        <3>1. ASSUME NEW v \in Urls, archive'[v].expired
              PROVE  archive'[v].status \in {"PENDING", "CLAIMED"}
            <4>1. v # finalizing.url BY <2>3, <3>1
            <4> QED BY <1>0, <2>2, <3>1, <4>1 DEF OnlyWaitingExpire
        <3> QED BY <3>1 DEF OnlyWaitingExpire
    <2>7. \A v \in Urls : archive'[v].status = "COMPLETED" <=> archive[v].status = "COMPLETED"
        BY <2>1, <2>2, <2>3
    <2>8. CompletedIsWhole' BY <1>0, <1>1, <2>7 DEF CompletedIsWhole
    <2> QED BY <1>4, <2>5, <2>6, <2>8 DEF ArchiveInv
<1> QED BY <1>2, <1>5, <1>6

\* Finalization stores every row it has compared and completes the job.
LEMMA FinalizeStep ==
    ASSUME ArchiveInv, FinalizeArchive
    PROVE  ArchiveInv'
<1>0. ArchiveTypeOK /\ OnlyWaitingExpire /\ FinalizesWhole /\ CompletedIsWhole BY DEF ArchiveInv
<1>1. PICK u \in Urls : u = finalizing.url /\ finalizing.url # Nothing
    BY <1>0 DEF FinalizeArchive, ArchiveTypeOK
<1>2. /\ archive[u].status = "ATTESTED" /\ archive[u].expired = FALSE
      /\ StagedRows(u) = Rows(u) /\ OneDigestEach(u) /\ NotContradicted(u)
    <2>1. archive[u].status = "ATTESTED" /\ staged[u] = DOMAIN FileOf[u]
          /\ OneDigestEach(u) /\ NotContradicted(u)
        BY <1>0, <1>1 DEF FinalizeArchive, FinalizesWhole
    <2>2. archive[u].expired = FALSE
        BY <1>0, <2>1 DEF OnlyWaitingExpire, ArchiveTypeOK
    <2>3. StagedRows(u) = Rows(u) BY <2>1 DEF StagedRows, Rows
    <2> QED BY <2>1, <2>2, <2>3
<1>3. UNCHANGED <<staged, page>> /\ finalizing' = NoFinalize
      /\ archive' = [archive EXCEPT ![u].status = "COMPLETED"]
    BY <1>1 DEF FinalizeArchive, Settle
<1>4. ASSUME NEW i \in Ids
      PROVE  \/ /\ event'[i] = event[i]
                /\ event[i] = Unwritten => \A row \in Rows(u) : row[1] # i
             \/ /\ event[i] = Unwritten
                /\ event'[i] \in AnEvent /\ event'[i].by = u /\ <<i, event'[i].digest>> \in Rows(u)
    <2>1. event'[i] = IF event[i] = Unwritten /\ \E row \in Rows(u) : row[1] = i
                      THEN Written(CHOOSE d \in Digests : <<i, d>> \in Rows(u), u)
                      ELSE event[i]
        BY <1>1, <1>2 DEF FinalizeArchive
    <2>2. CASE event[i] = Unwritten /\ \E row \in Rows(u) : row[1] = i
        <3>1. PICK row \in Rows(u) : row[1] = i BY <2>2
        <3>2. row[2] \in Digests /\ <<i, row[2]>> \in Rows(u)
            <4>1. row \in Ids \X Digests BY <3>1, RowsAreEvents
            <4>2. row = <<row[1], row[2]>> BY <4>1
            <4> QED BY <3>1, <4>1, <4>2
        <3> DEFINE d == CHOOSE d \in Digests : <<i, d>> \in Rows(u)
        <3>3. d \in Digests /\ <<i, d>> \in Rows(u) BY <3>2
        <3>4. event'[i] = [digest |-> d, by |-> u] BY <2>1, <2>2 DEF Written
        <3> QED BY <2>2, <3>3, <3>4 DEF AnEvent
    <2> QED BY <2>1, <2>2
<1>5. event' = [i \in Ids |-> event'[i]] BY DEF FinalizeArchive
<1>6. finalizing'.url = Nothing
      /\ finalizing' \in [url : Urls \cup {Nothing}, conflicts : SUBSET Ids]
    BY <1>3 DEF NoFinalize
<1>7. archive'[u].status = "COMPLETED" /\ archive'[u].expired = FALSE
      /\ \A v \in Urls : v # u => archive'[v] = archive[v]
    BY <1>0, <1>2, <1>3 DEF ArchiveTypeOK
<1>8. ArchiveTypeOK'
    <2>1. archive' \in [Urls -> [status : ArchiveStates, run : ArchiveRuns \cup {Nothing},
                                 expired : BOOLEAN]]
        BY <1>0, <1>3 DEF ArchiveTypeOK, ArchiveStates
    <2>2. event' \in [Ids -> AnEvent \cup {Unwritten}]
        BY <1>0, <1>4, <1>5 DEF ArchiveTypeOK
    <2> QED BY <1>0, <1>3, <1>6, <2>1, <2>2 DEF ArchiveTypeOK
<1>9. OnlyWaitingExpire'
    <2>1. ASSUME NEW v \in Urls, archive'[v].expired
          PROVE  archive'[v].status \in {"PENDING", "CLAIMED"}
        <3>1. v # u BY <1>7, <2>1
        <3> QED BY <1>0, <1>7, <2>1, <3>1 DEF OnlyWaitingExpire
    <2> QED BY <2>1 DEF OnlyWaitingExpire
<1>10. FinalizesWhole' BY <1>6 DEF FinalizesWhole
<1>11. CompletedIsWhole'
    <2>1. ASSUME NEW v \in Urls, archive'[v].status = "COMPLETED", NEW row \in Rows(v)
          PROVE  event'[row[1]].digest = row[2] \/ event'[row[1]].by = "page"
        <3>1. row \in Ids \X Digests /\ row = <<row[1], row[2]>> /\ row[1] \in Ids
              /\ row[2] \in Digests
            BY RowsAreEvents
        <3>2. CASE v = u
            <4>1. event[row[1]] = Unwritten \/ event[row[1]].digest = row[2]
                  \/ event[row[1]].by = "page"
                BY <1>2, <3>2 DEF NotContradicted
            <4>2. CASE event'[row[1]] = event[row[1]] /\ event[row[1]] # Unwritten
                BY <4>1, <4>2
            <4>3. CASE event'[row[1]].by = u /\ <<row[1], event'[row[1]].digest>> \in Rows(u)
                <5> DEFINE mine == <<row[1], event'[row[1]].digest>>
                <5>1. mine \in Rows(u) /\ mine[1] = row[1] BY <4>3
                <5>2. mine = row BY <1>2, <3>2, <5>1 DEF OneDigestEach
                <5> QED BY <3>1, <5>2
            <4> QED BY <1>4, <3>1, <3>2, <4>2, <4>3
        <3>3. CASE v # u
            <4>1. event[row[1]].digest = row[2] \/ event[row[1]].by = "page"
                BY <1>0, <1>7, <2>1, <3>3 DEF CompletedIsWhole
            <4>2. event[row[1]] # Unwritten
                BY <3>1, <4>1, ArchiveAssumption DEF Unwritten
            <4> QED BY <1>4, <3>1, <4>1, <4>2
        <3> QED BY <3>2, <3>3
    <2>2. ASSUME NEW i \in Ids, event'[i].by \in Urls
          PROVE  /\ archive'[event'[i].by].status = "COMPLETED"
                 /\ <<i, event'[i].digest>> \in Rows(event'[i].by)
        <3>1. CASE event'[i] = event[i]
            <4>1. /\ archive[event[i].by].status = "COMPLETED"
                  /\ <<i, event[i].digest>> \in Rows(event[i].by)
                BY <1>0, <2>2, <3>1 DEF CompletedIsWhole
            <4> QED BY <1>2, <1>7, <2>2, <3>1, <4>1
        <3>2. CASE event'[i].by = u /\ <<i, event'[i].digest>> \in Rows(u)
            BY <1>7, <3>2
        <3> QED BY <1>4, <3>1, <3>2
    <2> QED BY <2>1, <2>2 DEF CompletedIsWhole
<1> QED BY <1>8, <1>9, <1>10, <1>11 DEF ArchiveInv

\* A page of the sync worker stores rows of its own beside the archive.
LEMMA PageStep ==
    ASSUME ArchiveInv,
           \/ \E row \in PageRows : PageScans(row[1], row[2])
           \/ PageWrites
    PROVE  ArchiveInv'
<1>0. ArchiveTypeOK /\ OnlyWaitingExpire /\ FinalizesWhole /\ CompletedIsWhole BY DEF ArchiveInv
<1>1. CASE \E row \in PageRows : PageScans(row[1], row[2])
    <2>1. UNCHANGED <<archive, staged, finalizing, event>> BY <1>1 DEF PageScans
    <2>2. page' \in (Ids \X Digests) \cup {Nothing}
        BY <1>0, <1>1, ArchiveAssumption DEF PageScans, ArchiveTypeOK
    <2>3. ArchiveTypeOK' BY <1>0, <2>1, <2>2 DEF ArchiveTypeOK
    <2>4. OnlyWaitingExpire' /\ CompletedIsWhole'
        BY <1>0, <2>1 DEF OnlyWaitingExpire, CompletedIsWhole
    <2>5. FinalizesWhole' BY <1>0, <2>1 DEF FinalizesWhole, NotContradicted
    <2> QED BY <2>3, <2>4, <2>5 DEF ArchiveInv
<1>2. CASE PageWrites
    <2>1. UNCHANGED <<archive, staged, finalizing>> /\ page' = Nothing
          /\ page[1] \in Ids /\ page[2] \in Digests
        BY <1>0, <1>2 DEF PageWrites, ArchiveTypeOK, Edge
    <2>2. ASSUME NEW i \in Ids
          PROVE  \/ event'[i] = event[i]
                 \/ /\ event[i] = Unwritten
                    /\ event'[i] \in AnEvent /\ event'[i].by = "page"
        BY <1>0, <1>2, <2>1 DEF PageWrites, ArchiveTypeOK, Written, AnEvent
    <2>3. event' = [i \in Ids |-> event'[i]] BY <1>0, <1>2 DEF PageWrites, ArchiveTypeOK
    <2>4. event' \in [Ids -> AnEvent \cup {Unwritten}] BY <1>0, <2>2, <2>3 DEF ArchiveTypeOK
    <2>5. ArchiveTypeOK' BY <1>0, <2>1, <2>4 DEF ArchiveTypeOK
    <2>6. OnlyWaitingExpire' BY <1>0, <2>1 DEF OnlyWaitingExpire
    <2>7. \A u \in Urls : NotContradicted(u) => NotContradicted(u)'
        BY <2>2, RowsAreEvents DEF NotContradicted
    <2>8. FinalizesWhole'
        BY <1>0, <2>1, <2>7 DEF FinalizesWhole, ArchiveTypeOK
    <2>9. CompletedIsWhole'
        <3>1. ASSUME NEW u \in Urls, archive'[u].status = "COMPLETED", NEW row \in Rows(u)
              PROVE  event'[row[1]].digest = row[2] \/ event'[row[1]].by = "page"
            <4>1. row[1] \in Ids BY RowsAreEvents
            <4> QED BY <1>0, <2>1, <2>2, <3>1, <4>1 DEF CompletedIsWhole
        <3>2. ASSUME NEW i \in Ids, event'[i].by \in Urls
              PROVE  /\ archive'[event'[i].by].status = "COMPLETED"
                     /\ <<i, event'[i].digest>> \in Rows(event'[i].by)
            <4>1. event'[i] = event[i] BY <2>2, <3>2, ArchiveAssumption
            <4> QED BY <1>0, <2>1, <3>2, <4>1 DEF CompletedIsWhole
        <3> QED BY <3>1, <3>2 DEF CompletedIsWhole
    <2> QED BY <2>5, <2>6, <2>8, <2>9 DEF ArchiveInv
<1> QED BY <1>1, <1>2

\* What the Edge worker does to its job, and time to a run's claim.
LEMMA EdgeKeepsEvidence ==
    ASSUME \/ \E w \in Workers : \/ ClaimArchiveJob(w) \/ RequestArchive(w) \/ PollArchive(w)
                                 \/ CommitArchiveState(w) \/ FailArchiveJob(w) \/ WorkerStops(w)
           \/ ArchiveLeaseExpires \/ RotateOwner \/ RevokeOwner
           \/ \E r \in ArchiveRuns : RunExpires(r)
    PROVE  UNCHANGED evidenceVars
<1>1. UNCHANGED Downloads => UNCHANGED evidenceVars
    BY DEF Downloads, Evidence, evidenceVars
<1>2. ASSUME NEW w \in Workers,
             \/ ClaimArchiveJob(w) \/ RequestArchive(w) \/ PollArchive(w)
             \/ CommitArchiveState(w) \/ FailArchiveJob(w) \/ WorkerStops(w)
      PROVE  UNCHANGED Downloads
    BY <1>2 DEF ClaimArchiveJob, RequestArchive, PollArchive, Answered, CommitArchiveState,
                FailArchiveJob, WorkerStops
<1>3. ArchiveLeaseExpires \/ RotateOwner \/ RevokeOwner => UNCHANGED Downloads
    BY DEF ArchiveLeaseExpires, RotateOwner, RevokeOwner
<1>4. ASSUME NEW r \in ArchiveRuns, RunExpires(r) PROVE UNCHANGED evidenceVars
    BY <1>4 DEF RunExpires, Evidence, evidenceVars
<1> QED BY <1>1, <1>2, <1>3, <1>4

\* An archive is finalized whole or not at all, for any files, links, runs and
\* pages of the sync worker beside them.
THEOREM ArchivesAreWhole == ArchiveSpec => []CompletedIsWhole
<1>1. ArchiveInit => ArchiveInv
    <2> SUFFICES ASSUME ArchiveInit PROVE ArchiveInv OBVIOUS
    <2>1. ArchiveTypeOK
        BY DEF ArchiveInit, ArchiveTypeOK, NoArchive, NoFinalize, ArchiveStates
    <2>2. OnlyWaitingExpire BY DEF ArchiveInit, OnlyWaitingExpire, NoArchive
    <2>3. FinalizesWhole BY DEF ArchiveInit, FinalizesWhole, NoFinalize
    <2>4. CompletedIsWhole
        BY ArchiveAssumption DEF ArchiveInit, CompletedIsWhole, NoArchive, Unwritten
    <2> QED BY <2>1, <2>2, <2>3, <2>4 DEF ArchiveInv
<1>2. ArchiveInv /\ [ArchiveNext]_archiveVars => ArchiveInv'
    <2> SUFFICES ASSUME ArchiveInv, [ArchiveNext]_archiveVars PROVE ArchiveInv' OBVIOUS
    <2>1. CASE UNCHANGED archiveVars
        BY <2>1, SameEvidence DEF archiveVars, evidenceVars
    <2>2. CASE ArchiveNext
        BY <2>2, EdgeKeepsEvidence, SameEvidence, LinkStep, IngestStep, StartFinalizeStep,
           SettleStep, FinalizeStep, PageStep
        DEF ArchiveNext
    <2> QED BY <2>1, <2>2
<1>3. ArchiveInv => CompletedIsWhole BY DEF ArchiveInv
<1> QED BY <1>1, <1>2, <1>3, PTL DEF ArchiveSpec

----------------------------------------------------------------------------
(* The pages of a dataset *)

\* A set of naturals that is not empty has a least element.
LEMMA LeastNatural ==
  ASSUME NEW S \in SUBSET Nat, S # {}
  PROVE  \E m \in S : \A k \in S : m <= k
<1> DEFINE T == {0..x : x \in S}
<1>1. T \subseteq FiniteSubsetsOf(Nat) /\ T # {}
  <2>1. \A x \in S : IsFiniteSet(0..x) /\ 0..x \in SUBSET Nat
    BY FS_Interval
  <2> QED BY <2>1 DEF FiniteSubsetsOf
<1>2. IsWellFoundedOn(StrictSubsetOrdering(Nat), FiniteSubsetsOf(Nat))
  BY FS_StrictSubsetOrderingWellFounded
<1> HIDE DEF T
<1>3. PICK t \in T : \A u \in T : <<u, t>> \notin StrictSubsetOrdering(Nat)
  BY <1>1, <1>2, WFMin
<1>4. PICK m \in S : t = 0..m
  BY <1>3 DEF T
<1>5. ASSUME NEW k \in S, k < m PROVE FALSE
  <2>1. 0..k \in T
    BY DEF T
  <2>2. /\ 0..k \in SUBSET Nat /\ 0..m \in SUBSET Nat /\ 0..k \subseteq 0..m
        /\ m \in 0..m /\ m \notin 0..k
    BY <1>5
  <2>3. <<0..k, 0..m>> \in StrictSubsetOrdering(Nat)
    BY <2>2 DEF StrictSubsetOrdering
  <2> QED BY <2>1, <2>3, <1>3, <1>4
<1> QED BY <1>5

----------------------------------------------------------------------------
(* Pages of the provider.                                                  *)

CursorKeys == {"fromId", "orderId", "page", "startTime"}
ACursor == {Start} \cup [key : CursorKeys, from : Nat \ {0}]
PageRow == [id : Nat, at : Nat, rev : Nat]
Page == Seq(PageRow)
ProvidedRow == [at : Nat, rev : Nat]

SyncJob == [status : {"QUEUED", "CLAIMED", "SUCCEEDED", "FAILED"}, cursor : ACursor,
            digest : Page \cup {None}, holder : Fetchers \cup {None}, lease : BOOLEAN,
            failures : Nat]
AFetcher == [step : {"idle", "claimed", "fetched", "failed", "invalid"}, cursor : ACursor,
             digest : Page \cup {None}, rows : Page]
ASpan == [from : Nat \cup {None}, upto : Nat, moved : BOOLEAN]

PagesTypeOK ==
    /\ dataset \in Datasets
    /\ provided \in Seq(ProvidedRow) /\ Len(provided) \in 1..MaxRows
    /\ gone \in Nat
    /\ events \in [RowIds -> Nat \cup {None}]
    /\ syncJob \in SyncJob
    /\ fetcher \in [Fetchers -> AFetcher]
    /\ span \in ASpan
    /\ span.upto <= Len(provided)

\* Executions in a millisecond follow each other.
InOrder ==
    dataset = "force_orders" =>
        \A i, k \in 1..Len(provided) : i <= k => provided[i].at <= provided[k].at

\* The rows a cursor has left behind.
PageNumber(cursor) == IF cursor = Start THEN 0 ELSE cursor.from - 1
Behind(i, cursor) ==
    CASE dataset = "income" -> i <= gone + PageLimit * PageNumber(cursor)
      [] dataset = "force_orders" -> provided[i].at < cursor.from
      [] OTHER -> i < cursor.from

Has(i) == events[i] # None \/ Excused(i)

\* A cursor says that something was read, and what is behind it was stored.
NothingBehind ==
    syncJob.status # "SUCCEEDED" =>
        /\ syncJob.cursor = Start <=> span.from = None
        /\ span.from # None =>
             \A i \in 1..Len(provided) : i >= span.from /\ Behind(i, syncJob.cursor) => Has(i)

\* A cursor is not past what existed when it was made.
NothingAhead ==
    syncJob.status # "SUCCEEDED" /\ syncJob.cursor # Start =>
        CASE dataset = "income" ->
                span.moved \/ gone + PageLimit * PageNumber(syncJob.cursor) <= Len(provided)
          [] dataset = "force_orders" ->
                \E k \in 1..Len(provided) : events[k] # None /\ provided[k].at + 1 = syncJob.cursor.from
          [] OTHER -> syncJob.cursor.from <= Len(provided) + 1

\* A job that ended has read everything that existed when it began.
NothingLeft ==
    syncJob.status = "SUCCEEDED" =>
        /\ syncJob.cursor = Start
        /\ span.from # None =>
             \A i \in 1..Len(provided) : i >= span.from /\ i <= span.upto => Has(i)

\* Whoever holds the lease reads from the job's cursor.
HolderIsCurrent ==
    \A f \in Fetchers : LeaseOfFetcher(f) /\ fetcher[f].step \in {"claimed", "fetched"} =>
        fetcher[f].cursor = syncJob.cursor

\* A page: rows that follow each other, from the first that is not behind the
\* cursor; one that is not full ends with the newest row there was.
RowsFollow(rows) ==
    /\ Len(rows) <= PageLimit
    /\ \A k \in 1..Len(rows) :
        /\ rows[k].id = rows[1].id + k - 1
        /\ rows[k].id \in 1..Len(provided)
        /\ dataset = "force_orders" => rows[k].at = provided[rows[k].id].at
PageBegins(rows, cursor) ==
    /\ rows # <<>> =>
        /\ cursor # Start => \A i \in 1..(rows[1].id - 1) : Behind(i, cursor) \/ Excused(i)
        /\ dataset = "income" /\ ~span.moved => rows[1].id = gone + 1 + PageLimit * PageNumber(cursor)
        /\ Len(rows) < PageLimit => rows[Len(rows)].id >= span.upto
    /\ rows = <<>> /\ cursor # Start => \A i \in 1..span.upto : Behind(i, cursor) \/ Excused(i)
PagesAreNext ==
    \A f \in Fetchers : LeaseOfFetcher(f) /\ fetcher[f].step = "fetched" =>
        RowsFollow(fetcher[f].rows) /\ PageBegins(fetcher[f].rows, fetcher[f].cursor)

PagesInv ==
    /\ PagesTypeOK /\ InOrder
    /\ NothingBehind /\ NothingAhead /\ NothingLeft /\ HolderIsCurrent /\ PagesAreNext

\* The rows of one millisecond and those before it are the first ones.
LEMMA CountBefore ==
  ASSUME PagesTypeOK, InOrder, dataset = "force_orders", NEW t \in Nat
  PROVE  LET n == Cardinality({i \in Existing : provided[i].at < t})
         IN  n \in Nat /\ \A i \in 1..Len(provided) : provided[i].at < t <=> i <= n
<1> DEFINE S == {i \in Existing : provided[i].at < t}
           L == Len(provided)
<1>1. Existing = 1..L /\ L \in Nat
  BY DEF PagesTypeOK, Existing
<1>2. \A i, k \in 1..L : i <= k => provided[i].at <= provided[k].at
  BY DEF InOrder
<1>3. \A i \in 1..L : provided[i].at \in Nat
  <2>1. \A i \in 1..L : provided[i] \in ProvidedRow
    BY <1>1 DEF PagesTypeOK
  <2> QED BY <2>1 DEF ProvidedRow
<1>4. PICK m \in 1..(L + 1) : S = 1..(m - 1)
  <2> DEFINE R == {i \in 1..L : ~(provided[i].at < t)}
  <2>1. CASE R = {}
    <3>1. S = 1..((L + 1) - 1)
      BY <1>1, <2>1
    <3> QED BY <3>1, <1>1
  <2>2. CASE R # {}
    <3>0. R \in SUBSET Nat
      BY <1>1
    <3>1. PICK m \in R : \A k \in R : m <= k
      <4> HIDE DEF R
      <4> QED BY <3>0, <2>2, LeastNatural
    <3>2. S = 1..(m - 1)
      BY <1>1, <1>2, <1>3, <3>1
    <3> QED BY <3>1, <3>2, <1>1
  <2> QED BY <2>1, <2>2
<1>5. Cardinality(S) = m - 1
  <2>1. Cardinality(1..(m - 1)) = m - 1
    BY <1>1, <1>4, FS_Interval
  <2> QED BY <2>1, <1>4
<1>6. \A i \in 1..L : provided[i].at < t <=> i <= m - 1
  <2>1. \A i \in 1..L : provided[i].at < t <=> i \in S
    BY <1>1
  <2> HIDE DEF S
  <2> QED BY <2>1, <1>1, <1>4
<1> HIDE DEF S
<1>7. m - 1 \in Nat
  BY <1>1, <1>4
<1>8. Cardinality(S) \in Nat /\ \A i \in 1..L : provided[i].at < t <=> i <= Cardinality(S)
  BY <1>5, <1>6, <1>7
<1> QED BY <1>8 DEF S

\* The first page of a cursor, or a later one, begins where nothing is behind.
LEMMA FirstIdsFollow ==
  ASSUME PagesTypeOK, InOrder, NEW cursor \in ACursor, NEW first \in FirstIds(cursor)
  PROVE  /\ first \in Nat \ {0}
         /\ cursor # Start => \A i \in 1..(first - 1) : i <= Len(provided) => Behind(i, cursor)
         /\ dataset = "income" => first = gone + 1 + PageLimit * PageNumber(cursor)
<1>1. /\ PageLimit \in Nat /\ gone \in Nat /\ Len(provided) \in Nat
      /\ dataset \in {"fills", "orders", "income", "force_orders"}
  BY PagesAssumption DEF PagesTypeOK
<1>2. CASE dataset = "income"
  <2> DEFINE n == PageNumber(cursor)
  <2>1. n \in Nat
    BY DEF PageNumber, ACursor
  <2>2. PageLimit * n \in Nat
    BY <1>1, <2>1
  <2>3. first = gone + 1 + PageLimit * n
    <3>1. FirstIds(cursor) = {gone + 1 + PageLimit * (IF cursor = Start THEN 0 ELSE cursor.from - 1)}
      BY <1>2 DEF FirstIds
    <3> QED BY <3>1 DEF PageNumber
  <2> HIDE DEF n
  <2> QED BY <1>1, <1>2, <2>2, <2>3 DEF Behind, n
<1>3. CASE dataset # "income" /\ cursor = Start
  <2>1. FirstIds(cursor) = 1..(Len(provided) + 1)
    BY <1>3 DEF FirstIds
  <2> QED BY <2>1, <1>1, <1>3
<1>4. CASE dataset = "force_orders" /\ cursor # Start
  <2> DEFINE n == Cardinality({i \in Existing : provided[i].at < cursor.from})
  <2>1. cursor.from \in Nat
    BY <1>4 DEF ACursor
  <2>2. n \in Nat /\ \A i \in 1..Len(provided) : provided[i].at < cursor.from <=> i <= n
    BY <1>4, <2>1, CountBefore
  <2>3. first = n + 1
    BY <1>4 DEF FirstIds
  <2> HIDE DEF n
  <2> QED BY <1>1, <1>4, <2>2, <2>3 DEF Behind
<1>5. CASE dataset \in {"fills", "orders"} /\ cursor # Start
  <2>1. cursor.from \in Nat \ {0} /\ first = cursor.from
    BY <1>5 DEF ACursor, FirstIds
  <2> QED BY <1>1, <1>5, <2>1 DEF Behind
<1> QED BY <1>1, <1>2, <1>3, <1>4, <1>5

\* A page is in order and begins with the first row its cursor asks for.
LEMMA FetchedPage ==
  ASSUME PagesTypeOK, InOrder, NEW cursor \in ACursor, NEW rows \in PagesAt(cursor)
  PROVE  rows \in Page /\ RowsFollow(rows) /\ PageBegins(rows, cursor)
<1>1. PICK first \in FirstIds(cursor) :
        rows = IF first > Len(provided) THEN <<>> ELSE RowsFrom(first)
  BY DEF PagesAt
<1>2. /\ first \in Nat \ {0}
      /\ cursor # Start => \A i \in 1..(first - 1) : i <= Len(provided) => Behind(i, cursor)
      /\ dataset = "income" => first = gone + 1 + PageLimit * PageNumber(cursor)
  BY FirstIdsFollow
<1>3. /\ PageLimit \in Nat \ {0} /\ Len(provided) \in Nat /\ span.upto \in Nat
      /\ span.upto <= Len(provided)
  BY PagesAssumption DEF PagesTypeOK, ASpan
<1>4. CASE first > Len(provided)
  <2>1. rows = <<>>
    BY <1>1, <1>4
  <2>2. rows \in Page /\ RowsFollow(rows)
    BY <2>1, <1>3 DEF Page, RowsFollow
  <2>3. PageBegins(rows, cursor)
    BY <2>1, <1>2, <1>3, <1>4 DEF PageBegins
  <2> QED BY <2>2, <2>3
<1>5. CASE first <= Len(provided)
  <2> DEFINE m == Smaller(PageLimit, Len(provided) - first + 1)
             RowAt(i) == [id |-> first + i - 1, at |-> provided[first + i - 1].at,
                          rev |-> provided[first + i - 1].rev]
  <2>1. rows = [i \in 1..m |-> RowAt(i)]
    BY <1>1, <1>2, <1>3, <1>5 DEF RowsFrom
  <2>2. /\ m \in Nat \ {0} /\ m <= PageLimit /\ first + m - 1 <= Len(provided)
        /\ m < PageLimit => first + m - 1 = Len(provided)
    BY <1>2, <1>3, <1>5 DEF Smaller
  <2> HIDE DEF m
  <2>3. \A i \in 1..m : /\ first + i - 1 \in 1..Len(provided) /\ first + i - 1 \in Nat
                        /\ provided[first + i - 1] \in ProvidedRow
    <3>1. \A i \in 1..m : first + i - 1 \in 1..Len(provided) /\ first + i - 1 \in Nat
      BY <1>2, <1>3, <2>2
    <3> QED BY <3>1 DEF PagesTypeOK
  <2>4. \A i \in 1..m : RowAt(i) \in PageRow
    BY <2>3 DEF PageRow, ProvidedRow
  <2>5. rows \in Page /\ Len(rows) = m /\ rows # <<>>
    <3>1. rows \in [1..m -> PageRow]
      BY <2>1, <2>4
    <3>2. rows \in Seq(PageRow) /\ Len(rows) = m
      BY <3>1, <2>2
    <3> QED BY <3>2, <2>2 DEF Page
  <2>6. \A i \in 1..m : rows[i].id = first + i - 1 /\ rows[i].at = provided[first + i - 1].at
    BY <2>1
  <2>7. RowsFollow(rows)
    <3>1. rows[1].id = first
      BY <2>2, <2>6, <1>2
    <3> QED BY <2>2, <2>3, <2>5, <2>6, <3>1, <1>2 DEF RowsFollow
  <2>8. PageBegins(rows, cursor)
    <3>1. rows[1].id = first /\ rows[m].id = first + m - 1
      BY <2>2, <2>6, <1>2
    <3>2. \A i \in 1..(first - 1) : i <= Len(provided)
      BY <1>2, <1>3, <1>5
    <3> QED BY <3>1, <3>2, <1>2, <1>3, <2>2, <2>5 DEF PageBegins
  <2> QED BY <2>5, <2>7, <2>8
<1> QED BY <1>2, <1>3, <1>4, <1>5

\* Steps that store nothing and leave the provider, the cursor and the span
\* alone: a lease is taken, lost or given back, a page is fetched or dropped.
LEMMA QuietStep ==
  ASSUME PagesInv, UNCHANGED <<dataset, provided, gone, events, span>>,
         syncJob' \in SyncJob, fetcher' \in [Fetchers -> AFetcher],
         syncJob'.cursor = syncJob.cursor,
         \/ syncJob' = syncJob
         \/ syncJob.status # "SUCCEEDED" /\ syncJob'.status # "SUCCEEDED",
         \A g \in Fetchers : LeaseOfFetcher(g)' /\ fetcher'[g].step \in {"claimed", "fetched"} =>
            \/ LeaseOfFetcher(g) /\ fetcher'[g] = fetcher[g]
            \/ /\ fetcher'[g].cursor = syncJob.cursor
               /\ fetcher'[g].step = "fetched" =>
                    RowsFollow(fetcher'[g].rows) /\ PageBegins(fetcher'[g].rows, fetcher'[g].cursor)
  PROVE  PagesInv'
<1>1. PagesTypeOK' /\ InOrder'
  BY DEF PagesInv, PagesTypeOK, InOrder
<1>2. \A i : Has(i)' <=> Has(i)
  BY DEF Has, Excused, Existing
<1>3. \A i, cursor : Behind(i, cursor)' <=> Behind(i, cursor)
  BY DEF Behind
<1>4. NothingBehind'
  <2>1. syncJob'.status # "SUCCEEDED" => syncJob.status # "SUCCEEDED"
    OBVIOUS
  <2> QED BY <1>2, <1>3, <2>1 DEF PagesInv, NothingBehind
<1>5. NothingAhead'
  <2>1. syncJob'.status # "SUCCEEDED" => syncJob.status # "SUCCEEDED"
    OBVIOUS
  <2> QED BY <2>1 DEF PagesInv, NothingAhead
<1>6. NothingLeft'
  <2>1. syncJob'.status = "SUCCEEDED" => syncJob.status = "SUCCEEDED"
    OBVIOUS
  <2> QED BY <1>2, <2>1 DEF PagesInv, NothingLeft
<1>7. HolderIsCurrent'
  BY DEF PagesInv, HolderIsCurrent
<1>8. PagesAreNext'
  <2>1. \A rows, cursor : RowsFollow(rows)' <=> RowsFollow(rows)
    BY DEF RowsFollow
  <2>2. \A rows, cursor : PageBegins(rows, cursor)' <=> PageBegins(rows, cursor)
    BY <1>3 DEF PageBegins, Excused, Existing
  <2> QED BY <2>1, <2>2 DEF PagesInv, PagesAreNext
<1> QED BY <1>1, <1>4, <1>5, <1>6, <1>7, <1>8 DEF PagesInv

\* A claim hands out the cursor the job has reached.
LEMMA ClaimPageStep ==
  ASSUME PagesInv, NEW f \in Fetchers, ClaimSyncJob(f)
  PROVE  PagesInv'
<1>1. syncJob \in SyncJob /\ fetcher \in [Fetchers -> AFetcher]
  BY DEF PagesInv, PagesTypeOK
<1>2. /\ syncJob' \in SyncJob /\ syncJob'.cursor = syncJob.cursor /\ syncJob'.holder = f
      /\ syncJob'.status = "CLAIMED" /\ syncJob.status # "SUCCEEDED"
  BY <1>1 DEF ClaimSyncJob, SyncJob
<1>3. [step |-> "claimed", cursor |-> syncJob.cursor, digest |-> syncJob.digest, rows |-> <<>>]
        \in AFetcher
  BY <1>1 DEF SyncJob, AFetcher, Page
<1>4. fetcher' \in [Fetchers -> AFetcher]
  BY <1>1, <1>3 DEF ClaimSyncJob
<1>5. \A g \in Fetchers : LeaseOfFetcher(g)' =>
        fetcher'[g].cursor = syncJob.cursor /\ fetcher'[g].step = "claimed"
  BY <1>1, <1>2 DEF ClaimSyncJob, LeaseOfFetcher
<1> QED BY <1>2, <1>4, <1>5, QuietStep DEF ClaimSyncJob, Provider

\* An invocation without a page holds no rows.
LEMMA IdleFetcher ==
  /\ NoFetch \in AFetcher /\ NoFetch.step = "idle"
  /\ \A step \in {"failed", "invalid"} : Gone(step) \in AFetcher /\ Gone(step).step = step
<1>1. Start \in ACursor /\ <<>> \in Page
  BY DEF ACursor, Page
<1> QED BY <1>1 DEF NoFetch, Gone, AFetcher

\* The fetcher has nothing of the job any more.
LEMMA DroppedPage ==
  ASSUME PagesInv, UNCHANGED <<dataset, provided, gone, events, span, syncJob>>,
         NEW f \in Fetchers, NEW k \in AFetcher, fetcher' = [fetcher EXCEPT ![f] = k],
         k.step \notin {"claimed", "fetched"}
  PROVE  PagesInv'
<1>1. syncJob \in SyncJob /\ fetcher \in [Fetchers -> AFetcher]
  BY DEF PagesInv, PagesTypeOK
<1>2. \A g \in Fetchers : LeaseOfFetcher(g)' => LeaseOfFetcher(g)
  BY DEF LeaseOfFetcher
<1>3. \A g \in Fetchers : fetcher'[g] = IF g = f THEN k ELSE fetcher[g]
  BY <1>1
<1>4. fetcher' \in [Fetchers -> AFetcher]
  BY <1>1
<1> QED BY <1>1, <1>2, <1>3, <1>4, QuietStep

\* A fetched page follows the cursor it was asked with, and its own cursor its last row.
LEMMA FetchStep ==
  ASSUME PagesInv, NEW f \in Fetchers, FetchBinancePage(f)
  PROVE  PagesInv'
<1>1. syncJob \in SyncJob /\ fetcher \in [Fetchers -> AFetcher] /\ fetcher[f] \in AFetcher
  BY DEF PagesInv, PagesTypeOK
<1> DEFINE cursor == fetcher[f].cursor
<1>2. cursor \in ACursor
  BY <1>1 DEF AFetcher
<1>3. PICK rows \in PagesAt(cursor) :
        fetcher' = [fetcher EXCEPT ![f] =
            IF Acceptable(cursor, fetcher[f].digest, rows)
            THEN [step |-> "fetched", cursor |-> cursor, digest |-> None, rows |-> rows]
            ELSE Gone("invalid")]
  BY <1>1 DEF FetchBinancePage
<1>4. rows \in Page /\ RowsFollow(rows) /\ PageBegins(rows, cursor)
  BY <1>2, FetchedPage DEF PagesInv
<1>5. UNCHANGED <<dataset, provided, gone, events, span, syncJob>>
  BY DEF FetchBinancePage, Provider
<1>6. CASE ~Acceptable(cursor, fetcher[f].digest, rows)
  BY <1>3, <1>5, <1>6, IdleFetcher, DroppedPage
<1>7. CASE Acceptable(cursor, fetcher[f].digest, rows)
  <2> DEFINE k == [step |-> "fetched", cursor |-> cursor, digest |-> None, rows |-> rows]
  <2>1. k \in AFetcher /\ k.cursor = cursor /\ k.rows = rows
    BY <1>2, <1>4 DEF AFetcher
  <2>2. fetcher' = [fetcher EXCEPT ![f] = k]
    BY <1>3, <1>7
  <2>3. \A g \in Fetchers : LeaseOfFetcher(g)' => LeaseOfFetcher(g)
    BY <1>5 DEF LeaseOfFetcher
  <2>4. LeaseOfFetcher(f) => cursor = syncJob.cursor
    BY DEF PagesInv, HolderIsCurrent, FetchBinancePage
  <2> HIDE DEF k, cursor
  <2>5. \A g \in Fetchers : fetcher'[g] = IF g = f THEN k ELSE fetcher[g]
    BY <1>1, <2>2
  <2>6. fetcher' \in [Fetchers -> AFetcher]
    BY <1>1, <2>1, <2>2
  <2> QED BY <1>1, <1>4, <1>5, <2>1, <2>3, <2>4, <2>5, <2>6, QuietStep
<1> QED BY <1>6, <1>7

\* A failure report moves no cursor.
LEMMA FailStep ==
  ASSUME PagesInv, NEW f \in Fetchers, FailSyncJob(f)
  PROVE  PagesInv'
<1>1. syncJob \in SyncJob /\ fetcher \in [Fetchers -> AFetcher]
  BY DEF PagesInv, PagesTypeOK
<1>2. fetcher' = [fetcher EXCEPT ![f] = NoFetch]
      /\ UNCHANGED <<dataset, provided, gone, events, span>>
  BY DEF FailSyncJob, Provider
<1>3. CASE ~LeaseOfFetcher(f)
  <2>1. syncJob' = syncJob
    BY <1>3 DEF FailSyncJob
  <2> QED BY <1>2, <2>1, IdleFetcher, DroppedPage
<1>4. CASE LeaseOfFetcher(f)
  <2> DEFINE status == IF fetcher[f].step = "failed" /\ syncJob.failures < MaxSyncFailures - 1
                       THEN "QUEUED" ELSE "FAILED"
  <2>1. syncJob' = [syncJob EXCEPT !.status = status, !.failures = syncJob.failures + 1,
                                   !.holder = None, !.lease = FALSE]
    BY <1>1, <1>4 DEF FailSyncJob
  <2>2. status \in {"QUEUED", "FAILED"}
    OBVIOUS
  <2> HIDE DEF status
  <2>3. /\ syncJob' \in SyncJob /\ syncJob'.cursor = syncJob.cursor
        /\ syncJob'.status = status
    <3>1. syncJob.failures + 1 \in Nat /\ status \in {"QUEUED", "CLAIMED", "SUCCEEDED", "FAILED"}
      BY <1>1, <2>2 DEF SyncJob
    <3>2. syncJob'.status = status /\ syncJob'.cursor = syncJob.cursor
      BY <1>1, <2>1 DEF SyncJob
    <3> QED BY <1>1, <2>1, <3>1, <3>2 DEF SyncJob
  <2>4. \A g \in Fetchers : ~LeaseOfFetcher(g)'
    BY <2>2, <2>3 DEF LeaseOfFetcher
  <2>5. syncJob.status # "SUCCEEDED"
    BY <1>4 DEF LeaseOfFetcher
  <2>6. fetcher' \in [Fetchers -> AFetcher]
    BY <1>1, <1>2, IdleFetcher
  <2> QED BY <1>2, <2>2, <2>3, <2>4, <2>5, <2>6, QuietStep
<1> QED BY <1>3, <1>4

\* A lost lease moves no cursor.
LEMMA LeaseExpiresStep ==
  ASSUME PagesInv, SyncLeaseExpires
  PROVE  PagesInv'
<1>1. syncJob \in SyncJob /\ fetcher \in [Fetchers -> AFetcher]
  BY DEF PagesInv, PagesTypeOK
<1>2. /\ syncJob' \in SyncJob /\ syncJob'.cursor = syncJob.cursor
      /\ syncJob'.status = "CLAIMED" /\ syncJob.status = "CLAIMED" /\ ~syncJob'.lease
  BY <1>1 DEF SyncLeaseExpires, SyncJob
<1>3. \A g \in Fetchers : ~LeaseOfFetcher(g)'
  BY <1>2 DEF LeaseOfFetcher
<1>4. UNCHANGED <<dataset, provided, gone, events, span, fetcher>>
  BY DEF SyncLeaseExpires, Provider
<1> QED BY <1>1, <1>2, <1>3, <1>4, QuietStep

\* The next job begins behind nothing that is still missing.
LEMMA NextJobStep ==
  ASSUME PagesInv, NextSyncJob
  PROVE  PagesInv'
<1>1. NewSyncJob \in SyncJob /\ NewSyncJob.cursor = Start /\ NewSyncJob.status = "QUEUED"
  BY DEF NewSyncJob, SyncJob, ACursor
<1>2. NewSpan \in ASpan /\ NewSpan.from = None /\ NewSpan.upto = Len(provided)
  BY DEF NewSpan, ASpan, PagesInv, PagesTypeOK
<1>3. /\ syncJob' = NewSyncJob /\ span' = NewSpan
      /\ UNCHANGED <<dataset, provided, gone, events, fetcher>>
  BY DEF NextSyncJob, Provider
<1>4. PagesTypeOK' /\ InOrder'
  BY <1>1, <1>2, <1>3 DEF PagesInv, PagesTypeOK, InOrder
<1>5. \A g \in Fetchers : ~LeaseOfFetcher(g)'
  BY <1>1, <1>3 DEF LeaseOfFetcher
<1> QED BY <1>1, <1>2, <1>3, <1>4, <1>5
        DEF PagesInv, NothingBehind, NothingAhead, NothingLeft, HolderIsCurrent, PagesAreNext

\* A page is stored: what was there stays, and every row of it is there.
LEMMA StoredRows ==
  ASSUME PagesTypeOK, NEW rows \in Page, RowsFollow(rows)
  PROVE  /\ Stored(rows) \in [RowIds -> Nat \cup {None}]
         /\ \A i \in RowIds : events[i] # None => Stored(rows)[i] # None
         /\ \A k \in 1..Len(rows) : rows[k].id \in RowIds /\ Stored(rows)[rows[k].id] # None
<1>1. \A i \in RowIds :
        /\ Stored(rows)[i] \in Nat \cup {None}
        /\ events[i] # None => Stored(rows)[i] # None
        /\ (\E k \in 1..Len(rows) : rows[k].id = i) => Stored(rows)[i] # None
  <2> TAKE i \in RowIds
  <2>1. CASE events[i] = None /\ \E k \in 1..Len(rows) : rows[k].id = i
    <3> DEFINE S == {rows[k] : k \in 1..Len(rows)}
               r == CHOOSE r \in S : r.id = i
    <3>1. r \in S
      BY <2>1
    <3> HIDE DEF r
    <3>2. PICK k \in 1..Len(rows) : r = rows[k]
      BY <3>1
    <3>5. r \in PageRow
      BY <3>2 DEF Page
    <3>3. r.rev \in Nat
      BY <3>5 DEF PageRow
    <3>4. Stored(rows)[i] = r.rev
      BY <2>1 DEF Stored, r
    <3> QED BY <2>1, <3>3, <3>4, PagesAssumption
  <2>2. CASE ~(events[i] = None /\ \E k \in 1..Len(rows) : rows[k].id = i)
    <3>1. Stored(rows)[i] = events[i]
      BY <2>2 DEF Stored
    <3> QED BY <2>2, <3>1 DEF PagesTypeOK
  <2> QED BY <2>1, <2>2
<1>2. \A k \in 1..Len(rows) : rows[k].id \in RowIds
  BY PagesAssumption DEF RowsFollow, RowIds, PagesTypeOK
<1>3. Stored(rows) \in [RowIds -> Nat \cup {None}]
  <2>1. Stored(rows) = [i \in RowIds |-> Stored(rows)[i]]
    BY DEF Stored
  <2> QED BY <1>1, <2>1
<1> QED BY <1>1, <1>2, <1>3

\* The continuation of a full page leaves behind just what was read.
LEMMA Continues ==
  ASSUME PagesTypeOK, InOrder, NEW cursor \in ACursor, NEW rows \in Page, RowsFollow(rows),
         PageBegins(rows, cursor), ~(Len(rows) < PageLimit)
  PROVE  LET next == CursorAfter(cursor, rows)
             last == rows[Len(rows)].id
         IN  /\ rows # <<>> /\ last \in 1..Len(provided)
             /\ next \in ACursor /\ next # Start /\ next # None
             /\ dataset = "income" => PageNumber(next) = PageNumber(cursor) + 1
             /\ dataset = "force_orders" => next.from = provided[last].at + 1
             /\ dataset \in {"fills", "orders"} => next.from = last + 1
             /\ Len(rows) = PageLimit /\ last = rows[1].id + PageLimit - 1
<1> DEFINE last == rows[Len(rows)].id
           next == CursorAfter(cursor, rows)
<1>1. /\ PageLimit \in Nat \ {0} /\ Len(rows) \in Nat /\ Len(provided) \in Nat
      /\ dataset \in {"fills", "orders", "income", "force_orders"}
  BY PagesAssumption DEF PagesTypeOK, Page
<1>2. Len(rows) = PageLimit
  BY <1>1 DEF RowsFollow
<1>3. /\ rows # <<>> /\ last \in 1..Len(provided) /\ last = rows[1].id + PageLimit - 1
      /\ dataset = "force_orders" => rows[Len(rows)].at = provided[last].at
  BY <1>1, <1>2 DEF RowsFollow
<1>4. provided[last].at \in Nat
  <2> HIDE DEF last
  <2>1. provided[last] \in ProvidedRow
    BY <1>3 DEF PagesTypeOK
  <2> QED BY <2>1 DEF ProvidedRow
<1>5. CursorKey[dataset] \in CursorKeys /\ CursorKey[dataset] # "start"
  <2>1. CASE dataset = "fills"
    BY <2>1 DEF CursorKey, CursorKeys
  <2>2. CASE dataset = "orders"
    BY <2>2 DEF CursorKey, CursorKeys
  <2>3. CASE dataset = "income"
    BY <2>3 DEF CursorKey, CursorKeys
  <2>4. CASE dataset = "force_orders"
    BY <2>4 DEF CursorKey, CursorKeys
  <2> QED BY <1>1, <2>1, <2>2, <2>3, <2>4
<1> DEFINE from == CASE dataset = "income" -> (IF cursor = Start THEN 1 ELSE cursor.from) + 1
                     [] dataset = "force_orders" -> rows[Len(rows)].at + 1
                     [] OTHER -> rows[Len(rows)].id + 1
<1>6. next = [key |-> CursorKey[dataset], from |-> from]
  BY <1>1, <1>2 DEF CursorAfter, Cursor
<1>7. /\ dataset = "income" => from = (IF cursor = Start THEN 1 ELSE cursor.from) + 1
      /\ dataset = "force_orders" => from = rows[Len(rows)].at + 1
      /\ dataset \in {"fills", "orders"} => from = last + 1
  OBVIOUS
<1> HIDE DEF from, next, last
<1>8. from \in Nat \ {0}
  <2>1. cursor # Start => cursor.from \in Nat
    BY DEF ACursor
  <2> QED BY <1>1, <1>3, <1>4, <1>7, <2>1, SMTT(40)
<1>9. next \in ACursor /\ next # Start /\ next.from = from
  BY <1>5, <1>6, <1>8 DEF ACursor, Start
<1>11. next # None
  BY <1>5, <1>6, <1>8, PagesAssumption DEF CursorKeys
<1>10. dataset = "income" => PageNumber(next) = PageNumber(cursor) + 1
  <2>1. cursor # Start => cursor.from \in Nat
    BY DEF ACursor
  <2> QED BY <1>7, <1>9, <2>1 DEF PageNumber
<1> QED BY <1>2, <1>3, <1>4, <1>7, <1>9, <1>10, <1>11 DEF next, last

\* What a stored page leaves of a job: everything up to its last row is there.
LEMMA ReadUpTo ==
  ASSUME PagesInv, NEW rows \in Page, NEW cursor, cursor = syncJob.cursor,
         RowsFollow(rows), PageBegins(rows, cursor), syncJob.status # "SUCCEEDED",
         UNCHANGED <<dataset, provided, gone>>, events' = Stored(rows),
         span' = [span EXCEPT !.from = FirstGiven(rows)]
  PROVE  /\ rows # <<>> => \A i \in 1..Len(provided) :
                i >= span'.from /\ i <= rows[Len(rows)].id => Has(i)'
         /\ rows = <<>> /\ span'.from # None => \A i \in 1..Len(provided) :
                i >= span'.from /\ i <= span.upto => Has(i)'
<1>1. PagesTypeOK /\ NothingBehind
  BY DEF PagesInv
<1>2. /\ \A i \in RowIds : events[i] # None => events'[i] # None
      /\ \A k \in 1..Len(rows) : rows[k].id \in RowIds /\ events'[rows[k].id] # None
  BY <1>1, StoredRows
<1>3. span \in ASpan /\ span'.moved = span.moved /\ span'.from = FirstGiven(rows)
  BY <1>1 DEF PagesTypeOK, ASpan
<1>4. \A i \in 1..Len(provided) : i \in RowIds
  BY <1>1, PagesAssumption DEF PagesTypeOK, RowIds
<1>5. \A i \in 1..Len(provided) : Has(i) => Has(i)'
  BY <1>2, <1>3, <1>4 DEF Has, Excused, Existing, PagesTypeOK
<1>6. \A i : Excused(i) => Excused(i)'
  <2>1. Existing = 1..Len(provided)
    BY <1>1 DEF Existing, PagesTypeOK
  <2> QED BY <1>2, <1>3, <1>4, <2>1 DEF Excused, Existing
<1>7. CASE rows # <<>>
  <2>1. /\ Len(rows) \in Nat \ {0} /\ rows[1].id \in 1..Len(provided)
        /\ \A k \in 1..Len(rows) : rows[k].id = rows[1].id + k - 1
    BY <1>7 DEF Page, RowsFollow
  <2>2. ASSUME NEW i \in 1..Len(provided), i >= span'.from, i <= rows[Len(rows)].id
        PROVE  Has(i)'
    <3>1. CASE i >= rows[1].id
      <4>1. rows[Len(rows)].id = rows[1].id + Len(rows) - 1
        BY <2>1
      <4>2. PICK k \in 1..Len(rows) : k = i - rows[1].id + 1
        BY <2>1, <2>2, <3>1, <4>1
      <4>3. rows[k].id = rows[1].id + k - 1
        BY <2>1
      <4>4. rows[k].id = i
        BY <2>1, <4>2, <4>3
      <4> QED BY <4>4, <1>2 DEF Has
    <3>2. CASE i < rows[1].id
      <4>1. span.from # None /\ span'.from = span.from
        BY <1>3, <1>7, <2>1, <2>2, <3>2 DEF FirstGiven
      <4>2. cursor # Start
        BY <1>1, <4>1 DEF NothingBehind
      <4>3. Behind(i, cursor) \/ Excused(i)
        BY <1>7, <2>1, <3>2, <4>2 DEF PageBegins
      <4> QED BY <1>1, <1>5, <1>6, <2>2, <4>1, <4>3 DEF NothingBehind, Has
    <3> QED BY <2>1, <3>1, <3>2
  <2> QED BY <1>7, <2>2
<1>8. CASE rows = <<>> /\ span'.from # None
  <2>1. span.from # None /\ span'.from = span.from
    BY <1>3, <1>8 DEF FirstGiven
  <2>2. cursor # Start
    BY <1>1, <2>1 DEF NothingBehind
  <2>3. ASSUME NEW i \in 1..Len(provided), i >= span'.from, i <= span.upto
        PROVE  Has(i)'
    <3>1. i \in 1..span.upto
      BY <1>3, <2>3 DEF ASpan
    <3>2. Behind(i, cursor) \/ Excused(i)
      BY <1>8, <2>2, <3>1 DEF PageBegins
    <3> QED BY <1>1, <1>5, <1>6, <2>1, <2>3, <3>2 DEF NothingBehind, Has
  <2> QED BY <1>8, <2>3
<1> QED BY <1>7, <1>8

\* A page that is committed stores the rows between the job's cursor and the next one.
LEMMA StoreStep ==
  ASSUME PagesInv, NEW f \in Fetchers, CommitSyncPage(f), events' = Stored(fetcher[f].rows),
         syncJob' = JobAfter(fetcher[f].cursor, fetcher[f].rows),
         span' = [span EXCEPT !.from = FirstGiven(fetcher[f].rows)]
  PROVE  PagesInv'
<1> DEFINE rows == fetcher[f].rows
           cursor == fetcher[f].cursor
           next == CursorAfter(cursor, rows)
           last == rows[Len(rows)].id
<1>1. PagesTypeOK /\ InOrder /\ NothingBehind /\ NothingAhead
  BY DEF PagesInv
<1>2. /\ fetcher[f] \in AFetcher /\ rows \in Page /\ cursor \in ACursor
  BY <1>1 DEF PagesTypeOK, AFetcher
<1>3. /\ cursor = syncJob.cursor /\ RowsFollow(rows) /\ PageBegins(rows, cursor)
      /\ syncJob.status = "CLAIMED"
  BY DEF PagesInv, HolderIsCurrent, PagesAreNext, CommitSyncPage, LeaseOfFetcher
<1>4. UNCHANGED <<dataset, provided, gone>>
  BY DEF CommitSyncPage, Provider
<1>5. /\ syncJob' = [syncJob EXCEPT
            !.status = IF next = None THEN "SUCCEEDED" ELSE "QUEUED",
            !.cursor = IF next = None THEN Start ELSE next,
            !.digest = rows, !.holder = None, !.lease = FALSE]
      /\ span' = [span EXCEPT !.from = FirstGiven(rows)] /\ events' = Stored(rows)
  BY DEF JobAfter
<1>6. fetcher' \in [Fetchers -> AFetcher]
  <2>1. PICK lost \in BOOLEAN :
          fetcher' = [fetcher EXCEPT ![f] = IF lost THEN Gone("failed") ELSE NoFetch]
    BY DEF CommitSyncPage
  <2> QED BY <2>1, <1>1, IdleFetcher DEF PagesTypeOK
<1> HIDE DEF rows, cursor, last
<1>7. /\ rows # <<>> => \A i \in 1..Len(provided) : i >= span'.from /\ i <= last => Has(i)'
      /\ rows = <<>> /\ span'.from # None => \A i \in 1..Len(provided) :
            i >= span'.from /\ i <= span.upto => Has(i)'
  BY <1>2, <1>3, <1>4, <1>5, ReadUpTo DEF last
<1>8. /\ span \in ASpan /\ span'.upto = span.upto /\ span'.moved = span.moved
      /\ span'.from = FirstGiven(rows) /\ span' \in ASpan
      /\ rows # <<>> => span'.from # None
  <2>1. rows # <<>> => rows[1].id \in Nat
    BY <1>2, <1>3 DEF RowsFollow, Page
  <2>2. span \in ASpan
    BY <1>1 DEF PagesTypeOK
  <2>3. FirstGiven(rows) \in Nat \cup {None}
    BY <2>1, <2>2 DEF FirstGiven, ASpan
  <2>4. rows # <<>> => FirstGiven(rows) # None
    BY <2>1, PagesAssumption DEF FirstGiven
  <2> QED BY <1>5, <2>2, <2>3, <2>4 DEF ASpan
<1>9. Stored(rows) \in [RowIds -> Nat \cup {None}]
  BY <1>1, <1>2, <1>3, StoredRows
<1>10. next # None =>
         /\ rows # <<>> /\ last \in 1..Len(provided)
         /\ next \in ACursor /\ next # Start
         /\ dataset = "income" => PageNumber(next) = PageNumber(cursor) + 1
         /\ dataset = "force_orders" => next.from = provided[last].at + 1
         /\ dataset \in {"fills", "orders"} => next.from = last + 1
         /\ Len(rows) = PageLimit /\ last = rows[1].id + PageLimit - 1
  <2>1. next # None => ~(Len(rows) < PageLimit)
    BY DEF CursorAfter
  <2> QED BY <2>1, <1>1, <1>2, <1>3, Continues DEF last
<1>11. next = None => Len(rows) < PageLimit
  BY <1>1, <1>2, <1>3, Continues
<1>12. syncJob' \in SyncJob /\ syncJob'.status = (IF next = None THEN "SUCCEEDED" ELSE "QUEUED")
       /\ syncJob'.cursor = (IF next = None THEN Start ELSE next)
  <2> DEFINE c == IF next = None THEN Start ELSE next
             s == IF next = None THEN "SUCCEEDED" ELSE "QUEUED"
  <2>1. c \in ACursor /\ s \in {"QUEUED", "CLAIMED", "SUCCEEDED", "FAILED"}
    BY <1>10 DEF ACursor
  <2>2. syncJob' = [syncJob EXCEPT !.status = s, !.cursor = c, !.digest = rows,
                                   !.holder = None, !.lease = FALSE]
    BY <1>5
  <2> HIDE DEF c, s
  <2>3. syncJob' \in SyncJob /\ syncJob'.status = s /\ syncJob'.cursor = c
    BY <1>1, <1>2, <2>1, <2>2 DEF PagesTypeOK, SyncJob
  <2> QED BY <2>3 DEF c, s
<1> HIDE DEF next
<1>13. PagesTypeOK' /\ InOrder'
  BY <1>1, <1>4, <1>5, <1>6, <1>8, <1>9, <1>12 DEF PagesTypeOK, InOrder
<1>14. \A c, i : Behind(i, c)' <=> Behind(i, c)
  BY <1>4 DEF Behind
<1>15. NothingBehind'
  <2> SUFFICES ASSUME next # None, NEW i \in 1..Len(provided), i >= span'.from, Behind(i, next)
               PROVE  Has(i)'
    BY <1>4, <1>8, <1>10, <1>12, <1>14 DEF NothingBehind
  <2>1. i \in Nat /\ last \in Nat /\ PageLimit \in Nat /\ gone \in Nat
        /\ dataset \in {"fills", "orders", "income", "force_orders"}
    BY <1>1, <1>10, PagesAssumption DEF PagesTypeOK
  <2>2. CASE i <= last
    BY <1>7, <1>10, <2>2
  <2>3. CASE dataset = "force_orders" /\ i > last
    <3>1. /\ provided[i].at \in Nat /\ provided[last].at \in Nat
          /\ provided[last].at <= provided[i].at
      <4>1. provided[i] \in ProvidedRow /\ provided[last] \in ProvidedRow
        BY <1>1, <1>10 DEF PagesTypeOK
      <4>2. provided[last].at <= provided[i].at
        BY <1>1, <1>10, <2>1, <2>3 DEF InOrder
      <4> QED BY <4>1, <4>2 DEF ProvidedRow
    <3>2. provided[i].at = provided[last].at
      BY <1>10, <2>3, <3>1 DEF Behind
    <3>3. events'[last] # None
      <4>1. last = rows[Len(rows)].id /\ Len(rows) \in 1..Len(rows)
        BY <1>2, <1>10, PagesAssumption DEF last, Page
      <4> QED BY <4>1, <1>1, <1>2, <1>3, <1>5, StoredRows
    <3>4. Existing' = 1..Len(provided)
      BY <1>1, <1>4 DEF Existing, PagesTypeOK
    <3> QED BY <1>4, <1>10, <2>1, <2>3, <3>2, <3>3, <3>4 DEF Has, Excused
  <2>4. CASE dataset \in {"fills", "orders"} /\ i > last
    BY <1>10, <2>1, <2>4 DEF Behind
  <2>5. CASE dataset = "income" /\ i > last
    <3>1. CASE span.moved
      BY <1>4, <1>8, <2>5, <3>1 DEF Has, Excused
    <3>2. CASE ~span.moved
      <4> DEFINE n == PageNumber(cursor)
      <4>1. n \in Nat
        BY <1>2 DEF PageNumber, ACursor
      <4>2. PageLimit * (n + 1) = PageLimit * n + PageLimit /\ PageLimit * n \in Nat
        BY <2>1, <4>1
      <4>3. last = gone + 1 + PageLimit * n + PageLimit - 1
        BY <1>3, <1>10, <2>5, <3>2 DEF PageBegins
      <4>4. i <= gone + PageLimit * (n + 1)
        BY <1>10, <2>5 DEF Behind
      <4> HIDE DEF n
      <4> QED BY <2>1, <2>5, <4>2, <4>3, <4>4
    <3> QED BY <3>1, <3>2
  <2> QED BY <2>1, <2>2, <2>3, <2>4, <2>5
<1>16. NothingAhead'
  <2> SUFFICES ASSUME next # None
               PROVE  CASE dataset = "income" ->
                             span.moved \/ gone + PageLimit * PageNumber(next) <= Len(provided)
                        [] dataset = "force_orders" ->
                             \E k \in 1..Len(provided) :
                                events'[k] # None /\ provided[k].at + 1 = next.from
                        [] OTHER -> next.from <= Len(provided) + 1
    BY <1>4, <1>8, <1>12 DEF NothingAhead
  <2>1. last \in Nat /\ PageLimit \in Nat /\ gone \in Nat /\ Len(provided) \in Nat
        /\ dataset \in {"fills", "orders", "income", "force_orders"}
    BY <1>1, <1>10, PagesAssumption DEF PagesTypeOK
  <2>2. CASE dataset = "force_orders"
    <3>1. last = rows[Len(rows)].id /\ Len(rows) \in 1..Len(rows)
      BY <1>2, <1>10, PagesAssumption DEF last, Page
    <3>2. events'[last] # None
      BY <3>1, <1>1, <1>2, <1>3, <1>5, StoredRows
    <3> QED BY <1>10, <2>2, <3>2
  <2>3. CASE dataset \in {"fills", "orders"}
    BY <1>10, <2>1, <2>3
  <2>4. CASE dataset = "income" /\ ~span.moved
    <3> DEFINE n == PageNumber(cursor)
    <3>1. n \in Nat
      BY <1>2 DEF PageNumber, ACursor
    <3>2. PageLimit * (n + 1) = PageLimit * n + PageLimit /\ PageLimit * n \in Nat
      BY <2>1, <3>1
    <3>3. last = gone + 1 + PageLimit * n + PageLimit - 1
      BY <1>3, <1>10, <2>4 DEF PageBegins
    <3>4. PageNumber(next) = n + 1
      BY <1>10, <2>4
    <3> HIDE DEF n
    <3>5. gone + PageLimit * PageNumber(next) <= Len(provided)
      BY <1>10, <2>1, <3>2, <3>3, <3>4
    <3> QED BY <2>4, <3>5
  <2>5. CASE dataset = "income" /\ span.moved
    BY <2>5
  <2> QED BY <2>1, <2>2, <2>3, <2>4, <2>5
<1>17. NothingLeft'
  <2> SUFFICES ASSUME next = None, span'.from # None,
                      NEW i \in 1..Len(provided), i >= span'.from, i <= span.upto
               PROVE  Has(i)'
    BY <1>4, <1>8, <1>12 DEF NothingLeft
  <2>1. CASE rows = <<>>
    BY <1>7, <2>1
  <2>2. CASE rows # <<>>
    <3>1. last \in Nat /\ last >= span.upto
      BY <1>2, <1>3, <1>11, <2>2 DEF PageBegins, RowsFollow, Page, last
    <3>2. i <= last
      BY <1>8, <3>1 DEF ASpan
    <3> QED BY <1>7, <2>2, <3>2
  <2> QED BY <2>1, <2>2
<1>18. \A g \in Fetchers : ~LeaseOfFetcher(g)'
  BY <1>12 DEF LeaseOfFetcher
<1> QED BY <1>13, <1>15, <1>16, <1>17, <1>18 DEF PagesInv, HolderIsCurrent, PagesAreNext

\* A commit stores such a page under its lease, or is refused without effect.
LEMMA CommitPageStep ==
  ASSUME PagesInv, NEW f \in Fetchers, CommitSyncPage(f)
  PROVE  PagesInv'
<1>1. CASE /\ events' = Stored(fetcher[f].rows)
           /\ syncJob' = JobAfter(fetcher[f].cursor, fetcher[f].rows)
           /\ span' = [span EXCEPT !.from = FirstGiven(fetcher[f].rows)]
  BY <1>1, StoreStep
<1>2. CASE /\ syncJob' = [syncJob EXCEPT !.status = "FAILED", !.holder = None, !.lease = FALSE]
           /\ UNCHANGED <<events, span>>
  <2>1. syncJob \in SyncJob /\ fetcher \in [Fetchers -> AFetcher]
    BY DEF PagesInv, PagesTypeOK
  <2>2. syncJob' \in SyncJob /\ syncJob'.status = "FAILED" /\ syncJob'.cursor = syncJob.cursor
    BY <1>2, <2>1 DEF SyncJob
  <2>3. \A g \in Fetchers : ~LeaseOfFetcher(g)'
    BY <2>2 DEF LeaseOfFetcher
  <2>4. syncJob.status # "SUCCEEDED" /\ UNCHANGED <<dataset, provided, gone>>
    BY DEF CommitSyncPage, LeaseOfFetcher, Provider
  <2>5. fetcher' \in [Fetchers -> AFetcher]
    <3>1. PICK lost \in BOOLEAN :
            fetcher' = [fetcher EXCEPT ![f] = IF lost THEN Gone("failed") ELSE NoFetch]
      BY DEF CommitSyncPage
    <3> QED BY <2>1, <3>1, IdleFetcher
  <2> QED BY <1>2, <2>2, <2>3, <2>4, <2>5, QuietStep
<1> QED BY <1>1, <1>2 DEF CommitSyncPage

\* A row the provider gets is after the cursor, or in the millisecond of a row
\* that was stored.
LEMMA AppearStep ==
  ASSUME PagesInv, RowAppears
  PROVE  PagesInv'
<1> DEFINE L == Len(provided)
<1>1. /\ PagesTypeOK /\ InOrder /\ NothingBehind /\ NothingAhead /\ NothingLeft
      /\ L \in Nat \ {0} /\ L < MaxRows /\ span \in ASpan /\ syncJob \in SyncJob
      /\ PageLimit \in Nat /\ gone \in Nat /\ MaxRows \in Nat
      /\ dataset \in {"fills", "orders", "income", "force_orders"}
  BY PagesAssumption DEF PagesInv, PagesTypeOK, RowAppears
<1>2. \A i \in 1..L : provided[i] \in ProvidedRow /\ provided[i].at \in Nat
  <2>1. \A i \in 1..L : provided[i] \in ProvidedRow
    BY <1>1 DEF PagesTypeOK
  <2> QED BY <2>1 DEF ProvidedRow
<1>3. PICK later \in {0, 1} : provided' = Append(provided, Row(provided[L].at + later, 0))
  BY DEF RowAppears
<1>4. Row(provided[L].at + later, 0) \in ProvidedRow
      /\ Row(provided[L].at + later, 0).at = provided[L].at + later
  BY <1>1, <1>2 DEF Row, ProvidedRow
<1>5. /\ provided' \in Seq(ProvidedRow) /\ Len(provided') = L + 1
      /\ \A i \in 1..L : provided'[i] = provided[i]
      /\ provided'[L + 1].at = provided[L].at + later
  BY <1>1, <1>3, <1>4 DEF PagesTypeOK
<1>6. UNCHANGED <<dataset, gone, events, syncJob, fetcher, span>>
  BY DEF RowAppears, Store
<1> HIDE DEF L
<1>7. PagesTypeOK'
  <2>1. Len(provided') \in 1..MaxRows /\ span.upto <= Len(provided')
    BY <1>1, <1>5 DEF PagesTypeOK, L, ASpan
  <2> QED BY <1>1, <1>5, <1>6, <2>1 DEF PagesTypeOK
<1>8. InOrder'
  <2> SUFFICES ASSUME dataset = "force_orders", NEW i \in 1..(L + 1), NEW k \in 1..(L + 1), i <= k
               PROVE  provided'[i].at <= provided'[k].at
    BY <1>5, <1>6 DEF InOrder
  <2>1. \A a, b \in 1..L : a <= b => provided[a].at <= provided[b].at
    BY <1>1 DEF InOrder, L
  <2>2. CASE k \in 1..L
    BY <1>1, <1>5, <2>1, <2>2
  <2>3. CASE k = L + 1 /\ i \in 1..L
    <3>1. provided[i].at <= provided[L].at /\ provided[i].at \in Nat /\ provided[L].at \in Nat
      BY <1>1, <1>2, <2>1, <2>3
    <3> QED BY <1>5, <2>3, <3>1
  <2>4. CASE k = L + 1 /\ i = L + 1
    <3>1. provided'[i].at \in Nat
      BY <1>1, <1>2, <1>5, <2>4
    <3> QED BY <2>4, <3>1
  <2> QED BY <1>1, <2>2, <2>3, <2>4
<1>9. \A i \in 1..L : /\ Excused(i) => Excused(i)'
                      /\ Has(i) => Has(i)'
                      /\ \A c : Behind(i, c)' <=> Behind(i, c)
  <2>1. Existing = 1..L /\ Existing' = 1..(L + 1)
    BY <1>1, <1>5, <1>7 DEF Existing, PagesTypeOK, L
  <2>2. \A i \in 1..L : Excused(i) => Excused(i)'
    BY <1>1, <1>5, <1>6, <2>1 DEF Excused
  <2> QED BY <1>5, <1>6, <2>2 DEF Has, Behind
<1>10. NothingBehind'
  <2> SUFFICES ASSUME syncJob.status # "SUCCEEDED", span.from # None,
                      NEW i \in 1..(L + 1), i >= span.from, Behind(i, syncJob.cursor)'
               PROVE  Has(i)'
    BY <1>1, <1>5, <1>6 DEF NothingBehind
  <2>1. CASE i \in 1..L
    <3>1. Behind(i, syncJob.cursor)
      BY <1>6, <1>5, <2>1 DEF Behind
    <3>2. Has(i)
      BY <1>1, <2>1, <3>1 DEF NothingBehind, L
    <3> QED BY <1>9, <2>1, <3>2
  <2>2. CASE i = L + 1
    <3>1. syncJob.cursor # Start /\ syncJob.cursor \in ACursor
      BY <1>1 DEF NothingBehind, SyncJob
    <3>2. CASE dataset = "force_orders"
      <4>1. PICK k \in 1..L : events[k] # None /\ provided[k].at + 1 = syncJob.cursor.from
        BY <1>1, <3>1, <3>2 DEF NothingAhead, L
      <4>2. provided'[i].at < syncJob.cursor.from
        BY <1>6, <3>2 DEF Behind
      <4>3. provided[k].at <= provided[L].at
        BY <1>1, <3>2 DEF InOrder, L
      <4>4. provided'[i].at = provided[k].at
        <5>1. provided[k].at \in Nat /\ provided[L].at \in Nat
          BY <1>1, <1>2
        <5> QED BY <1>5, <2>2, <4>1, <4>2, <4>3, <5>1
      <4>5. k \in Existing' /\ k # i /\ provided'[k].at = provided'[i].at
        BY <1>1, <1>5, <1>7, <2>2, <4>4 DEF Existing, PagesTypeOK
      <4> QED BY <1>6, <3>2, <4>1, <4>5 DEF Has, Excused
    <3>3. CASE dataset \in {"fills", "orders"}
      <4>1. syncJob.cursor.from <= L + 1
        BY <1>1, <3>1, <3>3 DEF NothingAhead, L
      <4>2. i < syncJob.cursor.from /\ syncJob.cursor.from \in Nat
        BY <1>6, <3>1, <3>3 DEF Behind, ACursor
      <4> QED BY <1>1, <2>2, <4>1, <4>2
    <3>4. CASE dataset = "income" /\ span.moved
      BY <1>6, <3>4 DEF Has, Excused
    <3>5. CASE dataset = "income" /\ ~span.moved
      <4> DEFINE n == PageNumber(syncJob.cursor)
      <4>0. n \in Nat
        BY <3>1 DEF PageNumber, ACursor
      <4>1. gone + PageLimit * n <= L
        BY <1>1, <3>1, <3>5 DEF NothingAhead, L
      <4>2. i <= gone + PageLimit * n
        BY <1>6, <3>5 DEF Behind
      <4>3. PageLimit * n \in Nat
        BY <1>1, <4>0
      <4> HIDE DEF n
      <4> QED BY <1>1, <2>2, <4>1, <4>2, <4>3
    <3> QED BY <1>1, <3>2, <3>3, <3>4, <3>5
  <2> QED BY <1>1, <2>1, <2>2
<1>11. NothingAhead'
  <2> SUFFICES ASSUME syncJob.status # "SUCCEEDED", syncJob.cursor # Start
               PROVE  CASE dataset = "income" ->
                             span.moved \/ gone + PageLimit * PageNumber(syncJob.cursor) <= L + 1
                        [] dataset = "force_orders" ->
                             \E k \in 1..(L + 1) : events[k] # None
                                /\ provided'[k].at + 1 = syncJob.cursor.from
                        [] OTHER -> syncJob.cursor.from <= L + 2
    BY <1>5, <1>6, <1>1 DEF NothingAhead
  <2>1. syncJob.cursor \in ACursor /\ syncJob.cursor.from \in Nat
    BY <1>1 DEF SyncJob, ACursor
  <2>2. CASE dataset = "force_orders"
    BY <1>1, <1>5, <2>2 DEF NothingAhead, L
  <2>3. CASE dataset \in {"fills", "orders"}
    <3>1. syncJob.cursor.from <= L + 1
      BY <1>1, <2>3 DEF NothingAhead, L
    <3> QED BY <1>1, <2>1, <2>3, <3>1
  <2>4. CASE dataset = "income"
    <3> DEFINE n == PageNumber(syncJob.cursor)
    <3>1. n \in Nat
      BY <2>1 DEF PageNumber, ACursor
    <3>2. span.moved \/ gone + PageLimit * n <= L
      BY <1>1, <2>4 DEF NothingAhead, L
    <3>3. PageLimit * n \in Nat
      BY <1>1, <3>1
    <3> HIDE DEF n
    <3>4. span.moved \/ gone + PageLimit * n <= L + 1
      BY <1>1, <3>2, <3>3
    <3> QED BY <2>4, <3>4 DEF n
  <2> QED BY <1>1, <2>2, <2>3, <2>4
<1>12. NothingLeft'
  <2> SUFFICES ASSUME syncJob.status = "SUCCEEDED", span.from # None,
                      NEW i \in 1..(L + 1), i >= span.from, i <= span.upto
               PROVE  Has(i)'
    BY <1>1, <1>5, <1>6 DEF NothingLeft
  <2>1. i \in 1..L
    BY <1>1 DEF PagesTypeOK, L, ASpan
  <2> QED BY <1>1, <1>9, <2>1 DEF NothingLeft, L
<1>13. HolderIsCurrent'
  BY <1>6 DEF PagesInv, HolderIsCurrent, LeaseOfFetcher
<1>14. PagesAreNext'
  <2> SUFFICES ASSUME NEW f \in Fetchers, LeaseOfFetcher(f), fetcher[f].step = "fetched"
               PROVE  RowsFollow(fetcher[f].rows)' /\ PageBegins(fetcher[f].rows, fetcher[f].cursor)'
    BY <1>6 DEF PagesAreNext, LeaseOfFetcher
  <2> DEFINE rows == fetcher[f].rows
             cursor == fetcher[f].cursor
  <2>1. RowsFollow(rows) /\ PageBegins(rows, cursor) /\ rows \in Page
    BY <1>1 DEF PagesInv, PagesAreNext, PagesTypeOK, AFetcher
  <2>2. UNCHANGED <<rows, cursor>>
    BY <1>6
  <2> HIDE DEF rows, cursor
  <2>3. RowsFollow(rows)'
    <3>1. \A id \in 1..L : id \in 1..(L + 1) /\ provided'[id] = provided[id]
      BY <1>1, <1>5
    <3>2. \A k \in 1..Len(rows) : /\ rows[k].id = rows[1].id + k - 1
                                  /\ rows[k].id \in 1..L
                                  /\ dataset = "force_orders" => rows[k].at = provided[rows[k].id].at
      BY <2>1 DEF RowsFollow, L
    <3>3. \A k \in 1..Len(rows) : /\ rows[k].id \in 1..(L + 1)
                                  /\ provided'[rows[k].id] = provided[rows[k].id]
      BY <3>1, <3>2
    <3>4. Len(provided') = L + 1 /\ dataset' = dataset /\ rows' = rows /\ Len(rows) <= PageLimit
      BY <1>5, <1>6, <2>1, <2>2 DEF RowsFollow
    <3> QED BY <3>2, <3>3, <3>4 DEF RowsFollow
  <2>4. rows # <<>> => rows[1].id - 1 <= L /\ rows[1].id \in Nat
    BY <1>1, <2>1 DEF RowsFollow, Page, L
  <2>5. span.upto \in Nat /\ span.upto <= L
    BY <1>1 DEF PagesTypeOK, L, ASpan
  <2>6. PageBegins(rows, cursor)'
    <3>1. \A i \in 1..L : Behind(i, cursor) \/ Excused(i) => Behind(i, cursor)' \/ Excused(i)'
      BY <1>9, <2>2
    <3>2. rows # <<>> => \A i \in 1..(rows[1].id - 1) : i \in 1..L
      BY <1>1, <2>4
    <3>3. \A i \in 1..span.upto : i \in 1..L
      BY <1>1, <2>5
    <3> QED BY <1>6, <2>1, <2>2, <3>1, <3>2, <3>3 DEF PageBegins
  <2> QED BY <2>2, <2>3, <2>6 DEF rows, cursor
<1> QED BY <1>7, <1>8, <1>10, <1>11, <1>12, <1>13, <1>14 DEF PagesInv

\* A row that changes keeps its place in the order of its dataset.
LEMMA ChangeStep ==
  ASSUME PagesInv, NEW n \in Existing, RowChanges(n)
  PROVE  PagesInv'
<1>1. /\ PagesTypeOK /\ dataset = "orders" /\ Existing = 1..Len(provided)
      /\ UNCHANGED <<dataset, gone, events, syncJob, fetcher, span>>
  BY DEF PagesInv, PagesTypeOK, Existing, RowChanges, Store
<1>2. provided' \in Seq(ProvidedRow) /\ Len(provided') = Len(provided)
  <2>1. provided[n] \in ProvidedRow
    BY <1>1 DEF PagesTypeOK
  <2>2. [provided[n] EXCEPT !.rev = 1] \in ProvidedRow
    BY <2>1 DEF ProvidedRow
  <2>3. provided' = [provided EXCEPT ![n] = [provided[n] EXCEPT !.rev = 1]]
    BY DEF RowChanges
  <2> QED BY <1>1, <2>2, <2>3 DEF PagesTypeOK
<1>3. PagesTypeOK' /\ InOrder'
  BY <1>1, <1>2 DEF PagesTypeOK, InOrder
<1>4. \A i : (Excused(i)' <=> Excused(i)) /\ (Has(i)' <=> Has(i))
  BY <1>1 DEF Has, Excused
<1>5. \A i, c : Behind(i, c)' <=> Behind(i, c)
  BY <1>1 DEF Behind
<1>6. \A rows, c : /\ RowsFollow(rows)' <=> RowsFollow(rows)
                   /\ PageBegins(rows, c)' <=> PageBegins(rows, c)
  BY <1>1, <1>2, <1>4, <1>5 DEF RowsFollow, PageBegins
<1>7. NothingBehind' /\ NothingAhead' /\ NothingLeft'
  BY <1>1, <1>2, <1>4, <1>5 DEF PagesInv, NothingBehind, NothingAhead, NothingLeft
<1>8. HolderIsCurrent' /\ PagesAreNext'
  BY <1>1, <1>6 DEF PagesInv, HolderIsCurrent, PagesAreNext, LeaseOfFetcher
<1> QED BY <1>3, <1>7, <1>8 DEF PagesInv

\* Pages that were counted from a row that left are excused.
LEMMA LeaveStep ==
  ASSUME PagesInv, RowLeaves
  PROVE  PagesInv'
<1>1. /\ PagesTypeOK /\ dataset = "income"
      /\ UNCHANGED <<dataset, provided, events, syncJob, fetcher>>
      /\ gone' = gone + 1 /\ span' = [span EXCEPT !.moved = TRUE]
  BY DEF PagesInv, RowLeaves, Store
<1>2. span \in ASpan /\ span' \in ASpan /\ span'.moved /\ span'.from = span.from /\ span'.upto = span.upto
  BY <1>1 DEF PagesTypeOK, ASpan
<1>3. PagesTypeOK' /\ InOrder'
  BY <1>1, <1>2 DEF PagesTypeOK, InOrder
<1>4. \A i : Excused(i)' /\ Has(i)'
  BY <1>1, <1>2 DEF Has, Excused
<1>5. NothingBehind' /\ NothingAhead' /\ NothingLeft'
  BY <1>1, <1>2, <1>4 DEF PagesInv, NothingBehind, NothingAhead, NothingLeft
<1>6. HolderIsCurrent'
  BY <1>1 DEF PagesInv, HolderIsCurrent, LeaseOfFetcher
<1>7. PagesAreNext'
  <2>1. \A rows : RowsFollow(rows)' <=> RowsFollow(rows)
    BY <1>1 DEF RowsFollow
  <2>2. \A rows, c : PageBegins(rows, c) => PageBegins(rows, c)'
    BY <1>1, <1>2, <1>4 DEF PageBegins
  <2> QED BY <1>1, <2>1, <2>2 DEF PagesInv, PagesAreNext, LeaseOfFetcher
<1> QED BY <1>3, <1>5, <1>6, <1>7 DEF PagesInv

\* Milliseconds that never go back from one row to the next never go back.
LEMMA AscendingRows ==
  ASSUME NEW n \in Nat, NEW at \in [1..n -> Nat], \A i \in 2..n : at[i - 1] <= at[i],
         NEW i \in 1..n, NEW k \in 1..n, i <= k
  PROVE  at[i] <= at[k]
<1> DEFINE S == {m \in 1..n : i <= m /\ ~(at[i] <= at[m])}
<1> SUFFICES ASSUME S # {} PROVE FALSE
  OBVIOUS
<1>1. S \in SUBSET Nat
  OBVIOUS
<1>2. PICK m \in S : \A l \in S : m <= l
  <2> HIDE DEF S
  <2> QED BY <1>1, LeastNatural
<1>3. m # i /\ m - 1 \in 1..n /\ i <= m - 1
  OBVIOUS
<1>4. m - 1 \notin S
  BY <1>2
<1> QED BY <1>3, <1>4

\* At first no row was asked for.
LEMMA PagesInitially == PagesInit => PagesInv
<1> SUFFICES ASSUME PagesInit PROVE PagesInv
  OBVIOUS
<1>1. PICK at \in [1..FirstRows -> 1..FirstRows] :
        /\ \A i \in 2..FirstRows : at[i] \in {at[i - 1], at[i - 1] + 1}
        /\ provided = [i \in 1..FirstRows |-> Row(at[i], 0)]
  BY DEF PagesInit
<1>2. FirstRows \in Nat \ {0} /\ MaxRows \in Nat /\ FirstRows <= MaxRows
  BY PagesAssumption
<1>3. provided \in Seq(ProvidedRow) /\ Len(provided) = FirstRows
      /\ \A i \in 1..FirstRows : provided[i].at = at[i]
  <2>1. \A i \in 1..FirstRows : Row(at[i], 0) \in ProvidedRow /\ Row(at[i], 0).at = at[i]
    BY <1>2 DEF Row, ProvidedRow
  <2>2. provided \in [1..FirstRows -> ProvidedRow]
    BY <1>1, <2>1
  <2> QED BY <1>1, <1>2, <2>1, <2>2
<1>4. InOrder
  <2>1. \A i \in 2..FirstRows : at[i - 1] <= at[i]
    <3> TAKE i \in 2..FirstRows
    <3>1. i - 1 \in 1..FirstRows
      BY <1>2
    <3>2. at[i - 1] \in Nat
      BY <1>1, <1>2, <3>1
    <3>3. at[i] \in {at[i - 1], at[i - 1] + 1}
      BY <1>1
    <3> QED BY <3>2, <3>3
  <2>2. at \in [1..FirstRows -> Nat]
    <3>1. \A i \in 1..FirstRows : at[i] \in 1..FirstRows
      BY <1>1
    <3> QED BY <1>1, <1>2, <3>1
  <2>3. \A i, k \in 1..FirstRows : i <= k => at[i] <= at[k]
    BY <1>2, <2>1, <2>2, AscendingRows
  <2> QED BY <1>3, <2>3 DEF InOrder
<1>5. /\ NewSyncJob \in SyncJob /\ NewSyncJob.cursor = Start /\ NewSyncJob.status = "QUEUED"
      /\ NewSpan \in ASpan /\ NewSpan.from = None /\ NewSpan.upto = Len(provided)
  BY <1>2, <1>3 DEF NewSyncJob, SyncJob, ACursor, NewSpan, ASpan
<1>6. PagesTypeOK
  <2>1. fetcher \in [Fetchers -> AFetcher]
    BY IdleFetcher DEF PagesInit
  <2> QED BY <1>2, <1>3, <1>5, <2>1 DEF PagesInit, PagesTypeOK
<1>7. \A g \in Fetchers : ~LeaseOfFetcher(g)
  BY <1>5 DEF LeaseOfFetcher, PagesInit
<1> QED BY <1>4, <1>5, <1>6, <1>7
        DEF PagesInit, PagesInv, NothingBehind, NothingAhead, NothingLeft, HolderIsCurrent, PagesAreNext

\* Every step of workers, provider and queue keeps the invariant.
LEMMA PagesStep == PagesInv /\ [PagesNext]_pageVars => PagesInv'
<1> SUFFICES ASSUME PagesInv, [PagesNext]_pageVars PROVE PagesInv'
  OBVIOUS
<1>1. CASE UNCHANGED pageVars
  <2>1. \A i : (Excused(i)' <=> Excused(i)) /\ (Has(i)' <=> Has(i))
    BY <1>1 DEF pageVars, Has, Excused, Existing
  <2>2. \A i, c : Behind(i, c)' <=> Behind(i, c)
    BY <1>1 DEF pageVars, Behind
  <2>3. PagesTypeOK' /\ InOrder'
    BY <1>1 DEF pageVars, PagesInv, PagesTypeOK, InOrder
  <2>4. NothingBehind' /\ NothingAhead' /\ NothingLeft' /\ HolderIsCurrent'
    BY <1>1, <2>1, <2>2
    DEF pageVars, PagesInv, NothingBehind, NothingAhead, NothingLeft, HolderIsCurrent, LeaseOfFetcher
  <2>5. PagesAreNext'
    BY <1>1, <2>1, <2>2
    DEF pageVars, PagesInv, PagesAreNext, LeaseOfFetcher, RowsFollow, PageBegins
  <2> QED BY <2>3, <2>4, <2>5 DEF PagesInv
<1>2. CASE RowAppears
  BY <1>2, AppearStep
<1>3. ASSUME NEW i \in Existing, RowChanges(i) PROVE PagesInv'
  BY <1>3, ChangeStep
<1>4. CASE RowLeaves
  BY <1>4, LeaveStep
<1>5. CASE NextSyncJob
  BY <1>5, NextJobStep
<1>6. ASSUME NEW f \in Fetchers, ClaimSyncJob(f) PROVE PagesInv'
  BY <1>6, ClaimPageStep
<1>7. ASSUME NEW f \in Fetchers, FetchBinancePage(f) PROVE PagesInv'
  BY <1>7, FetchStep
<1>8. ASSUME NEW f \in Fetchers, FetchFails(f) \/ CommitFails(f) \/ FetcherStops(f) PROVE PagesInv'
  <2>1. UNCHANGED <<dataset, provided, gone, events, span, syncJob>>
    BY <1>8 DEF FetchFails, CommitFails, FetcherStops, Provider
  <2>2. \E k \in AFetcher : /\ k.step \notin {"claimed", "fetched"}
                            /\ fetcher' = [fetcher EXCEPT ![f] = k]
    BY <1>8, IdleFetcher
    DEF FetchFails, CommitFails, FetcherStops, CallFaults, TextFaults, RowFaults
  <2> QED BY <2>1, <2>2, DroppedPage
<1>9. ASSUME NEW f \in Fetchers, CommitSyncPage(f) PROVE PagesInv'
  BY <1>9, CommitPageStep
<1>10. ASSUME NEW f \in Fetchers, FailSyncJob(f) PROVE PagesInv'
  BY <1>10, FailStep
<1>11. CASE SyncLeaseExpires
  BY <1>11, LeaseExpiresStep
<1> QED BY <1>1, <1>2, <1>3, <1>4, <1>5, <1>6, <1>7, <1>8, <1>9, <1>10, <1>11 DEF PagesNext

\* For any number of invocations, rows, jobs and pages, whatever stops, repeats
\* or comes late, no row between the first a job was given and its cursor is
\* missing, and a job that ended has all that existed when it began, but for
\* the two gaps the code leaves (runtime.mjs: the continuation after a full
\* page; the pages of income).
THEOREM NoRowIsSkipped == PagesSpec => []NothingIsSkipped
<1>1. PagesInv => NothingIsSkipped
  <2> SUFFICES ASSUME PagesInv, NEW i \in Existing, span.from # None, span.from <= i,
                      events[i] = None, ~Excused(i)
               PROVE  /\ syncJob.status = "SUCCEEDED" => i > span.upto
                      /\ dataset \in {"fills", "orders"} /\ syncJob.cursor # Start =>
                            i >= syncJob.cursor.from
    BY DEF NothingIsSkipped
  <2>1. /\ PagesTypeOK /\ i \in 1..Len(provided) /\ i \in Nat /\ span.upto \in Nat
        /\ span.from \in Nat /\ syncJob.cursor \in ACursor /\ ~Has(i)
    BY DEF PagesInv, PagesTypeOK, Existing, ASpan, SyncJob, Has
  <2>2. syncJob.status = "SUCCEEDED" => i > span.upto
    BY <2>1 DEF PagesInv, NothingLeft
  <2>3. ASSUME dataset \in {"fills", "orders"}, syncJob.cursor # Start
        PROVE  i >= syncJob.cursor.from
    <3>1. syncJob.cursor.from \in Nat
      BY <2>1, <2>3 DEF ACursor
    <3>2. syncJob.status # "SUCCEEDED"
      BY <2>3 DEF PagesInv, NothingLeft
    <3> QED BY <2>1, <2>3, <3>1, <3>2 DEF PagesInv, NothingBehind, Behind
  <2> QED BY <2>2, <2>3
<1> QED BY <1>1, PagesInitially, PagesStep, PTL DEF PagesSpec
================================================================================
