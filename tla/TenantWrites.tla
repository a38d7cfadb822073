------------------------------ MODULE TenantWrites ------------------------------
(***************************************************************************)
(* What a tenant asks of the public Edge handler: to store, replace or     *)
(* destroy a credential, to sync, and to write reviews, actions, journal   *)
(* entries, risk rules and reports.  Requests carry the version their      *)
(* author saw and an idempotency key, may arrive twice and late, and their *)
(* answers may be lost.                                                    *)
(***************************************************************************)
EXTENDS Integers, Sequences, FiniteSets

CONSTANTS
    Wishes,       \* requests the user may make, each under a key of its own
    KindOf,       \* the route of each
    TextOf,       \* the lesson of a review, the text of an action
    Chosen,       \* the sets of wishes whose interleavings are explored
    Senders,      \* requests in flight
    MaxSends,     \* times one request arrives
    MaxGenerations,
    NoValue

Records == {"review", "action", "journal", "risk", "report"}
Credentials == {"create", "rotate"}
Versioned == {"rotate", "disconnect"}
Kinds == Records \cup Credentials \cup {"disconnect", "sync"}

ASSUME WritesAssumption ==
    /\ KindOf \in [Wishes -> Kinds] /\ DOMAIN TextOf = Wishes
    /\ Chosen \subseteq SUBSET Wishes
    /\ MaxSends \in Nat \ {0} /\ MaxGenerations \in Nat \ {0}
    /\ NoValue \notin Nat /\ NoValue \notin [version : Nat, sealed : Nat]
    /\ NoValue \notin {"ok", "refused", "rejected"}
    \* One connection.
    /\ \A asked \in Chosen : \A v, w \in asked :
            KindOf[v] = "create" /\ KindOf[w] = "create" => v = w

VARIABLES
    wish,        \* what each request says and what its author was told
    request,     \* requests in the handler
    connection,  \* its status and credential version
    envelopes,   \* under its key: the version a credential's envelope is for, and sealed for
    records,     \* version and text of each record
    receipts,    \* under its key: what a record's request said and brought about
    syncs,       \* the job of each sync request
    generation,  \* the published generation
    story        \* who wrote each record, one entry per write, with what its author had seen

writeVars == <<wish, request, connection, envelopes, records, receipts, syncs, generation, story>>

----------------------------------------------------------------------------
(* Requests *)

NoRequest == [wish |-> NoValue, step |-> "none", version |-> NoValue]
NoWish == [step |-> "unasked", sends |-> 0, expected |-> NoValue, generation |-> NoValue,
           seen |-> NoValue, told |-> NoValue]
NoRecord == [version |-> 0, text |-> NoValue]

KindIn(s) == KindOf[request[s].wish]
\* A request's place is free again; what its author is told, unless the answer
\* is lost, they were told before, or it says nothing (503).
Answer(s, answer) ==
    /\ request' = [request EXCEPT ![s] = NoRequest]
    /\ \E lost \in BOOLEAN :
        wish' = IF lost \/ answer = "unclear" \/ wish[request[s].wish].told # NoValue THEN wish
                ELSE [wish EXCEPT ![request[s].wish].told = answer]

\* What an SQLSTATE becomes on its way to the browser: an answer that says the
\* request was not applied, or one that says nothing.
Outcome(state) ==
    CASE state \in {"P0002", "40001", "P0006", "23505"} -> "refused"
      [] state \in {"22023", "55000"} -> "unclear"

WritesInit ==
    /\ \E asked \in Chosen :
        /\ wish = [w \in Wishes |-> IF w \in asked THEN NoWish
                                    ELSE [NoWish EXCEPT !.step = "never"]]
        /\ connection = IF \E w \in asked : KindOf[w] = "create"
                        THEN [status |-> "NONE", version |-> 0]
                        ELSE [status |-> "ACTIVE", version |-> 1]
    /\ request = [s \in Senders |-> NoRequest]
    /\ envelopes = [w \in Wishes |-> NoValue]
    /\ records = [r \in Records |-> NoRecord]
    /\ receipts = [w \in Wishes |-> NoValue]
    /\ syncs = [w \in Wishes |-> NoValue]
    /\ generation = 1
    /\ story = [r \in Records |-> <<>>]

Data == <<connection, envelopes, records, receipts, syncs, story>>

\* A user edits what they see, and what they see says which version it is.
\* An action is edited when its review exists.
Ask(w) ==
    /\ wish[w].step = "unasked"
    /\ KindOf[w] = "action" => records["review"].version > 0
    /\ KindOf[w] # "create" => connection.status # "NONE"
    /\ wish' = [wish EXCEPT ![w] =
            IF KindOf[w] \in Records
            THEN [@ EXCEPT !.step = "asked", !.expected = records[KindOf[w]].version,
                           !.seen = Len(story[KindOf[w]]),
                           !.generation = IF KindOf[w] = "report" THEN generation ELSE NoValue]
            ELSE [@ EXCEPT !.step = "asked"]]
    /\ UNCHANGED <<request, generation, Data>>

\* The request arrives, again when its author repeats it or the network does.
Arrive(w, s) ==
    /\ wish[w].step = "asked" /\ wish[w].told = NoValue /\ wish[w].sends < MaxSends
    /\ request[s] = NoRequest
    /\ request' = [request EXCEPT ![s] =
            [NoRequest EXCEPT !.wish = w, !.step = IF KindOf[w] \in Versioned THEN "arrived" ELSE "read"]]
    /\ wish' = [wish EXCEPT ![w].sends = @ + 1]
    /\ UNCHANGED <<generation, Data>>

\* The handler ends before the write: its ten seconds are over, the session is
\* not live, or a call fails.  A key Binance rejects is refused as such.
HandlerFails(s) ==
    /\ request[s].step \in {"arrived", "read"}
    /\ \E answer \in IF KindIn(s) \in Credentials THEN {"unclear", "rejected"} ELSE {"unclear"} :
        Answer(s, answer)
    /\ UNCHANGED <<generation, Data>>

\* A rotation and a disconnection take the version the tenant's list has; the
\* other requests find their connection there, whatever its status.
ReadConnection(s) ==
    /\ request[s].step = "arrived"
    /\ request' = [request EXCEPT ![s].step = "read", ![s].version = connection.version]
    /\ UNCHANGED <<wish, generation, Data>>

----------------------------------------------------------------------------
(* Credentials and syncs *)

Rest == <<records, receipts, story, generation>>

\* The handler seals a credential for the version after the one it found.
Sealed(found) == found + 1
\* A worker opens it for the version its row and its job have.
Opens(envelope) == envelope.sealed = envelope.version
Envelope(found) == [version |-> connection.version + 1, sealed |-> Sealed(found)]

\* One connection here, so the identifier derived from the key is left out.
CreateConnection(s) ==
    LET w == request[s].wish
    IN  /\ request[s].step = "read" /\ KindIn(s) = "create"
        /\ IF envelopes[w] # NoValue THEN UNCHANGED <<connection, envelopes>>
           ELSE /\ connection' = [status |-> "ACTIVE", version |-> 1]
                /\ envelopes' = [envelopes EXCEPT ![w] = Envelope(0)]
        /\ Answer(s, "ok")
        /\ UNCHANGED <<syncs, Rest>>

\* Mutant: the version that was read is not compared again.
AnyCredential(s) == TRUE
SameVersion(s) == connection.version = request[s].version
\* The request's fingerprint contains the version the handler found: a request
\* that is repeated after it was applied is another one under the same key.
RotateConnection(s) ==
    LET w == request[s].wish  version == request[s].version
    IN  /\ request[s].step = "read" /\ KindIn(s) = "rotate"
        /\ \/ /\ envelopes[w] # NoValue
              /\ Answer(s, IF envelopes[w].sealed = Sealed(version) THEN "ok" ELSE Outcome("P0006"))
              /\ UNCHANGED <<connection, envelopes>>
           \/ /\ envelopes[w] = NoValue /\ ~SameVersion(s)
              /\ Answer(s, Outcome("40001"))
              /\ UNCHANGED <<connection, envelopes>>
           \/ /\ envelopes[w] = NoValue /\ SameVersion(s)
              /\ connection' = [status |-> "ACTIVE", version |-> connection.version + 1]
              /\ envelopes' = [envelopes EXCEPT ![w] = Envelope(version)]
              /\ Answer(s, "ok")
        /\ UNCHANGED <<syncs, Rest>>

DisconnectConnection(s) ==
    /\ request[s].step = "read" /\ KindIn(s) = "disconnect"
    /\ IF SameVersion(s)
       THEN connection' = [connection EXCEPT !.status = "REVOKED"] /\ Answer(s, "ok")
       ELSE Answer(s, Outcome("40001")) /\ UNCHANGED connection
    /\ UNCHANGED <<envelopes, syncs, Rest>>

JobMissing(w) == syncs[w] = NoValue
\* One job per key; a repeated request is only acknowledged while it is queued.
EnqueueSync(s) ==
    LET w == request[s].wish
    IN  /\ request[s].step = "read" /\ KindIn(s) = "sync"
        /\ \/ /\ connection.status # "ACTIVE"
              /\ Answer(s, Outcome("P0002")) /\ UNCHANGED syncs
           \/ /\ connection.status = "ACTIVE" /\ JobMissing(w)
              /\ syncs' = [syncs EXCEPT ![w] = "QUEUED"] /\ Answer(s, "ok")
           \/ /\ connection.status = "ACTIVE" /\ ~JobMissing(w)
              /\ Answer(s, IF syncs[w] = "QUEUED" THEN "ok" ELSE "unclear") /\ UNCHANGED syncs
        /\ UNCHANGED <<connection, envelopes, Rest>>

\* A worker claims the job.
SyncStarts(w) ==
    /\ syncs[w] = "QUEUED"
    /\ syncs' = [syncs EXCEPT ![w] = "STARTED"]
    /\ UNCHANGED <<wish, request, connection, envelopes, Rest>>

\* What the handler or the browser accepts of a record's answer: the review's
\* carries the review's identifier, which the handler does not expect.
Acknowledged(kind) == IF kind = "review" THEN "unclear" ELSE "ok"

----------------------------------------------------------------------------
(* Records *)

\* Mutant: the receipt is stored and never looked up.
NeverKnown(w) == FALSE
Known(w) == receipts[w] # NoValue

\* The version the author saw is the record's; a record that is not there has none.
Current(w) == wish[w].expected = records[KindOf[w]].version

\* A review needs its trade in the published generation, where it stays here; a
\* report the generation it was made from.
Available(w) == KindOf[w] = "report" => wish[w].generation = generation

NextVersion(record, text) == [version |-> record.version + 1, text |-> text]
Entry(w) == [by |-> w, seen |-> wish[w].seen, text |-> TextOf[w]]

\* Mutant: the lesson replaces the text of an action and leaves its version.
LessonUnversioned(rows, w) ==
    IF TextOf[w] = NoValue \/ rows["action"].text = TextOf[w] THEN rows
    ELSE IF rows["action"].version = 0
         THEN [rows EXCEPT !["action"] = NextVersion(@, TextOf[w])]
         ELSE [rows EXCEPT !["action"].text = TextOf[w]]
\* A review's lesson makes the action, or replaces its text when it is another.
LessonWritten(rows, w) ==
    IF TextOf[w] = NoValue \/ rows["action"].text = TextOf[w] THEN rows
    ELSE [rows EXCEPT !["action"] = NextVersion(@, TextOf[w])]

AfterWrite(w) ==
    LET rows == [records EXCEPT ![KindOf[w]] = NextVersion(@, TextOf[w])]
    IN  IF KindOf[w] = "review" THEN LessonWritten(rows, w) ELSE rows

\* The same for who wrote what: a lesson's author has not seen the action.
StoryAfter(w) ==
    [r \in Records |->
        IF r = KindOf[w] THEN Append(story[r], Entry(w))
        ELSE IF KindOf[w] = "review" /\ r = "action" /\ AfterWrite(w)[r] # records[r]
             THEN Append(story[r], [Entry(w) EXCEPT !.seen = NoValue])
             ELSE story[r]]

\* One transaction: the receipt of the key, or the write and its receipt.
WriteRecord(s) ==
    LET w == request[s].wish
    IN  /\ request[s].step = "read" /\ KindIn(s) \in Records
        /\ \/ /\ Known(w)
              /\ Answer(s, Acknowledged(KindIn(s)))
              /\ UNCHANGED <<records, receipts, story>>
           \/ /\ ~Known(w) /\ ~(Available(w) /\ Current(w))
              /\ Answer(s, IF Available(w) THEN Outcome("40001") ELSE Outcome("P0002"))
              /\ UNCHANGED <<records, receipts, story>>
           \/ /\ ~Known(w) /\ Available(w) /\ Current(w)
              /\ records' = AfterWrite(w)
              /\ story' = StoryAfter(w)
              /\ receipts' = [receipts EXCEPT ![w] = AfterWrite(w)[KindOf[w]].version]
              /\ Answer(s, Acknowledged(KindIn(s)))
        /\ UNCHANGED <<connection, envelopes, syncs, generation>>

\* Told by reports only.
PublishGeneration ==
    /\ generation < MaxGenerations /\ \E w \in Wishes : KindOf[w] = "report" /\ wish[w].step # "never"
    /\ generation' = generation + 1
    /\ UNCHANGED <<wish, request, Data>>

WritesNext ==
    \/ \E w \in Wishes : Ask(w)
    \/ \E w \in Wishes, s \in Senders : Arrive(w, s)
    \/ \E s \in Senders : HandlerFails(s)
    \/ \E s \in Senders : ReadConnection(s)
    \/ \E s \in Senders : CreateConnection(s)
    \/ \E s \in Senders : RotateConnection(s)
    \/ \E s \in Senders : DisconnectConnection(s)
    \/ \E s \in Senders : EnqueueSync(s)
    \/ \E w \in Wishes : SyncStarts(w)
    \/ \E s \in Senders : WriteRecord(s)
    \/ PublishGeneration

WritesSpec == WritesInit /\ [][WritesNext]_writeVars

----------------------------------------------------------------------------
(* Properties *)

Applied(w) == \E n \in 1..Len(story[KindOf[w]]) : story[KindOf[w]][n].by = w

\* What the author of a record was told is so: an acknowledged write is the one
\* version after the one its author saw, once and whatever arrived twice or
\* late; a refused one is not applied, then or when its copy arrives later.
AnswersAreTrue ==
    \A w \in Wishes : KindOf[w] \in Records =>
        /\ wish[w].told = "ok" =>
            /\ Cardinality({n \in 1..Len(story[KindOf[w]]) : story[KindOf[w]][n].by = w}) = 1
            /\ receipts[w] = wish[w].expected + 1
        /\ wish[w].told = "refused" => ~Applied(w)

\* No text is replaced by an author who has not seen it: between what the
\* author of a review, an action, a journal entry, a rule or a report saw and
\* what they wrote there is no other write, also none that another record's
\* transaction made.  A review's lesson alone replaces an action unseen.
NothingReplacedUnseen ==
    \A r \in Records : \A n \in 1..Len(story[r]) : story[r][n].seen \in {n - 1, NoValue}

\* Every credential that was stored can be opened by the worker that is given
\* it, and each has a version of its own, the latest the connection's: whichever
\* requests arrived twice, together, late or after a disconnection, and whatever
\* version the handler had read and sealed them for.
CredentialsOpen ==
    LET stored == {w \in Wishes : envelopes[w] # NoValue}
        versions == {envelopes[w].version : w \in stored}
    IN  /\ \A w \in stored : Opens(envelopes[w])
        /\ Cardinality(versions) = Cardinality(stored)
        /\ stored # {} => connection.version \in versions

\* Said of the code (data-plane migration, above the lesson's update): "only a
\* changed lesson updates the action text".
OnlyChangedLessons ==
    \A n \in 2..Len(story["review"]) :
        story["review"][n].text = story["review"][n - 1].text =>
            \A k \in 1..Len(story["action"]) : story["action"][k].by # story["review"][n].by

================================================================================
