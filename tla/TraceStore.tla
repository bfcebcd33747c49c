------------------------------ MODULE TraceStore ------------------------------
(***************************************************************************)
(* The bounded store of spans that an agent exports while it is probed     *)
(* (OtlpObservationSource of sdk/src/ul/otlp_observation.py), and the      *)
(* receiver in front of it (OtlpJsonHttpReceiver).                         *)
(*                                                                         *)
(* Every POST has a thread of its own, as long as there is a slot.  An     *)
(* observation polls until the spans of its request have settled or its    *)
(* time is over, leaves the lock, and takes what it matched out under the  *)
(* lock again: spans and updates may arrive in between.  What was refused  *)
(* is remembered by trace and by correlation, within limits.               *)
(*                                                                         *)
(* A span is a record of its trace, its identity in it, its correlation,   *)
(* whether it is a root for its request, whether it ended, and its size;   *)
(* readable says that it has identifiers at all.                           *)
(***************************************************************************)
EXTENDS Naturals, FiniteSets, SequencesExt, Sizes

CONSTANTS
    Payloads,       \* what may be posted: sequences of spans
    Requests,       \* Requests[r]: the trace, if it is given, and the correlation
    MaxSpans, MaxBufferBytes,       \* maximum_spans, maximum_buffer_bytes
    MaxPerObservation, Budget,      \* maximum_spans_per_observation, a third of
                                    \* maximum_observation_bytes
    Settle, Timeout, Retention,     \* the three durations, in ticks
    MaxHandlers,    \* maximum_concurrent_requests
    MaxPosts,       \* bound: posts of one behaviour
    MaxTime         \* bound: the clock

NoTrace == "none"
NoCorrelation == "none"

ASSUME ReceiverLimits ==
    /\ {MaxSpans, MaxBufferBytes, MaxPerObservation, Budget, Settle, Timeout, Retention,
         MaxHandlers, MaxPosts, MaxTime} \subseteq Nat
    /\ MaxPerObservation >= 1
ASSUME WindowsFit == Settle <= Timeout
ASSUME PayloadsAreSpans ==
    \A payload \in Payloads :
        /\ payload \in Seq(Range(payload))
        /\ \A span \in Range(payload) : span.size \in Nat /\ span.trace # NoTrace
ASSUME RequestsAreNamed == \A r \in DOMAIN Requests : Requests[r].correlation # NoCorrelation

VARIABLES
    now,            \* time.monotonic()
    spans, indexes, \* _spans, _span_indexes
    refusedTraces, refusedCorrelations,     \* _rejected_trace_ids, _rejected_correlations
    slots,          \* _request_slots
    handlers,       \* the thread of each post
    watch,          \* watch[r]: where the observation of request r stands
    log             \* (history) what the store accepted and refused, in order

store == <<spans, indexes, refusedTraces, refusedCorrelations, log>>
traceVars == <<now, store, slots, handlers, watch>>

Request == DOMAIN Requests
Identity(span) == <<span.trace, span.id>>
Identities(all) == {Identity(span) : span \in Range(all)}

\* What is in keep, in its order.
AppendIf(part, element, keep) ==
    IF element \in keep THEN Append(part, element) ELSE part

Only(all, keep) ==
    LET upTo[n \in 0 .. Len(all)] ==
            IF n = 0 THEN <<>> ELSE AppendIf(upTo[n - 1], all[n], keep)
    IN upTo[Len(all)]

Waiting == [at |-> "idle"]
Closed == [at |-> "closed"]

TraceInit ==
    /\ now = 0
    /\ spans = <<>> /\ indexes = <<>>
    /\ refusedTraces = <<>> /\ refusedCorrelations = <<>>
    /\ slots = MaxHandlers /\ handlers = <<>>
    /\ watch = [r \in Request |-> Waiting]
    /\ log = <<>>

Contents == [spans |-> spans, indexes |-> indexes,
             traces |-> refusedTraces, correlations |-> refusedCorrelations,
             log |-> log]

Becomes(s) ==
    /\ spans' = s.spans /\ indexes' = s.indexes
    /\ refusedTraces' = s.traces /\ refusedCorrelations' = s.correlations
    /\ log' = s.log

(***************************************************************************)
(* Pruning and the marks of what was refused.                              *)
(***************************************************************************)
\* _set_spans
IndexesOf(all) ==
    [identity \in Identities(all) |->
        CHOOSE i \in DOMAIN all : Identity(all[i]) = identity]

Old(entry, time) == entry.at + Retention < time

\* _prune_rejections: the marks before the first that is young enough.
MarksAfter(marks, time) ==
    LET young == {i \in DOMAIN marks : ~Old(marks[i], time)} IN
    IF young = {} THEN <<>> ELSE SubSeq(marks, Min(young), Len(marks))

\* _prune
Pruned(s, time) ==
    LET kept == Only(s.spans, {span \in Range(s.spans) : ~Old(span, time)}) IN
    [s EXCEPT !.spans = kept, !.indexes = IndexesOf(kept),
              !.traces = MarksAfter(s.traces, time),
              !.correlations = MarksAfter(s.correlations, time)]

Forgotten(marks, names) == Only(marks, {m \in Range(marks) : m.name \notin names})

\* _remember_rejection: the mark moves to the end, the first ones go.
Remembered(marks, name, time) ==
    LET all == Append(Forgotten(marks, {name}), [name |-> name, at |-> time])
        surplus == IF Len(all) > MaxSpans THEN Len(all) - MaxSpans ELSE 0
    IN SubSeq(all, surplus + 1, Len(all))

\* _record_rejection
Refused(s, span, time) ==
    [s EXCEPT !.traces = Remembered(@, span.trace, time),
              !.correlations = IF span.correlation = NoCorrelation THEN @
                               ELSE Remembered(@, span.correlation, time)]

(***************************************************************************)
(* export                                                                  *)
(***************************************************************************)
PlaceOf(s, span) ==
    IF span.readable /\ Identity(span) \in DOMAIN s.indexes
    THEN s.indexes[Identity(span)] ELSE 0

SizeAt(s, place) == IF place = 0 THEN 0 ELSE s.spans[place].size

TooMuch(s, span, place) ==
    \/ place = 0 /\ Len(s.spans) >= MaxSpans
    \/ SumOfSizes(s.spans) - SizeAt(s, place) + span.size > MaxBufferBytes
    \/ span.size > Budget

Buffered(span, time) ==
    [at |-> time, trace |-> span.trace, id |-> span.id, correlation |-> span.correlation,
     root |-> span.root, ended |-> span.ended, size |-> span.size,
     readable |-> span.readable]

Added(s, span, time) ==
    [s EXCEPT !.spans = Append(s.spans, Buffered(span, time)),
              !.indexes = [identity \in DOMAIN s.indexes \cup {Identity(span)} |->
                              IF identity = Identity(span) THEN Len(s.spans) + 1
                              ELSE s.indexes[identity]]]

\* Mutant: an update is appended next to the version it replaces.
KeptTwice(s, span, place, time) == Added(s, span, time)

Kept(s, span, place, time) ==
    IF place = 0 THEN Added(s, span, time)
    ELSE [s EXCEPT !.spans = [s.spans EXCEPT ![place] = Buffered(span, time)]]

Logged(s, span, time, accepted) ==
    [s EXCEPT !.log = Append(s.log, [span |-> span, at |-> time, accepted |-> accepted])]

\* What the loop over the exported spans does with one of them.
Exported(s, span, time) ==
    LET place == PlaceOf(s, span) IN
    IF ~span.readable THEN s
    ELSE IF TooMuch(s, span, place) THEN Logged(Refused(s, span, time), span, time, FALSE)
    ELSE Logged(Kept(s, span, place, time), span, time, TRUE)

AllExported(s, payload, time) ==
    LET upTo[n \in 0 .. Len(payload)] ==
            IF n = 0 THEN s ELSE Exported(upTo[n - 1], payload[n], time)
    IN upTo[Len(payload)]

\* process_request: without a slot the connection is shut down.
Post ==
    /\ Len(handlers) < MaxPosts
    /\ IF slots > 0
       THEN slots' = slots - 1 /\ handlers' = Append(handlers, [at |-> "reading"])
       ELSE UNCHANGED slots /\ handlers' = Append(handlers, Closed)
    /\ UNCHANGED <<now, store, watch>>

\* do_POST: the clock is read before the lock is taken.
ReadClock(h) ==
    /\ handlers[h].at = "reading"
    /\ handlers' = [handlers EXCEPT ![h] = [at |-> "exporting", time |-> now]]
    /\ UNCHANGED <<now, store, slots, watch>>

\* _release_request_slot
Release(h) == handlers' = [handlers EXCEPT ![h] = Closed] /\ slots' = slots + 1

Export(h) ==
    /\ handlers[h].at = "exporting"
    /\ \E payload \in Payloads :
        LET time == handlers[h].time
        IN Becomes(AllExported(Pruned(Contents, time), payload, time))
    /\ Release(h)
    /\ UNCHANGED <<now, watch>>

\* The request was none: wrong, too long, cut off, or silent until the socket's
\* timeout; or its payload exceeds maximum_payload_bytes.
Discard(h) ==
    /\ handlers[h].at = "reading"
    /\ Release(h)
    /\ UNCHANGED <<now, store, watch>>

(***************************************************************************)
(* observe                                                                 *)
(***************************************************************************)
Begin(r) ==
    /\ watch[r].at = "idle" /\ now + Timeout <= MaxTime
    /\ watch' = [watch EXCEPT ![r] = [at |-> "polling", deadline |-> now + Timeout]]
    /\ UNCHANGED <<now, store, slots, handlers>>

\* _matching_spans: the trace, if it is given, and only then the correlation.
Matches(span, request) ==
    IF request.trace # NoTrace THEN span.trace = request.trace
    ELSE span.correlation = request.correlation

Matching(all, request) == Only(all, {span \in Range(all) : Matches(span, request)})

Settled(matched) == \A span \in Range(matched) : span.at + Settle <= now

\* The loop ends; nothing but the deadline ends it for a trace that never comes.
LoopEnds(r, matched) ==
    (matched # <<>> /\ Settled(matched)) \/ now >= watch[r].deadline

\* One turn of the loop; the sleep between two turns is bounded by the deadline.
Poll(r) ==
    LET pruned == Pruned(Contents, now)
        matched == Matching(pruned.spans, Requests[r])
    IN /\ watch[r].at = "polling"
       /\ LoopEnds(r, matched)
       /\ Becomes(pruned)
       /\ watch' = [watch EXCEPT ![r] =
                       IF matched = <<>> THEN [at |-> "observed", status |-> "missing"]
                       ELSE [at |-> "matched", matched |-> matched,
                             time |-> now, seen |-> Len(log)]]
       /\ UNCHANGED <<now, slots, handlers>>

PollAgain(r) ==
    LET pruned == Pruned(Contents, now) IN
       /\ watch[r].at = "polling"
       /\ ~LoopEnds(r, Matching(pruned.spans, Requests[r]))
       /\ Becomes(pruned)
       /\ UNCHANGED <<now, slots, handlers, watch>>

\* _bounded_selection: the longest beginning within both limits.
Selected(matched) ==
    LET Fits(n) == n <= MaxPerObservation /\ SumOfSizes(SubSeq(matched, 1, n)) <= Budget
        n == Max({k \in 0 .. Len(matched) : \A i \in 1 .. k : Fits(i)})
    IN SubSeq(matched, 1, n)

\* Mutant: the trajectory is cut to its limits before it is judged.
NothingSelectedIsMissing(matched, selected, refused) ==
    /\ \E span \in Range(selected) : span.root
    /\ \A span \in Range(selected) : span.ended
    /\ ~refused

\* What a complete observation may not have left out.
NothingIsMissing(matched, selected, refused) ==
    /\ \E span \in Range(selected) : span.root
    /\ \A span \in Range(selected) : span.ended
    /\ Len(selected) = Len(matched)
    /\ ~refused

\* Under the lock again: what was matched goes, by identity, and so do the marks.
Take(r) ==
    LET matched == watch[r].matched
        selected == Selected(matched)
        traces == {span.trace : span \in Range(selected)}
        refused == \/ \E m \in Range(refusedCorrelations) :
                          m.name = Requests[r].correlation
                   \/ \E m \in Range(refusedTraces) : m.name \in traces
        rest == Only(spans, {span \in Range(spans) : Identity(span) \notin Identities(matched)})
    IN /\ watch[r].at = "matched"
       /\ Becomes([spans |-> rest, indexes |-> IndexesOf(rest),
                   traces |-> Forgotten(refusedTraces, traces),
                   correlations |-> Forgotten(refusedCorrelations,
                                              {Requests[r].correlation}),
                   log |-> log])
       /\ watch' = [watch EXCEPT ![r] =
              [at |-> "observed",
               status |-> IF NothingIsMissing(matched, selected, refused)
                          THEN "complete" ELSE "incomplete",
               got |-> selected, took |-> Identities(matched), traces |-> traces,
               time |-> @.time, seen |-> @.seen, taken |-> Len(log), ended |-> now]]
       /\ UNCHANGED <<now, slots, handlers>>

Tick == now < MaxTime /\ now' = now + 1 /\ UNCHANGED <<store, slots, handlers, watch>>

Handler == \E h \in DOMAIN handlers : ReadClock(h) \/ Export(h) \/ Discard(h)
TraceNext == Post \/ Handler \/ Tick
        \/ \E r \in Request : Begin(r) \/ Poll(r) \/ PollAgain(r) \/ Take(r)

TraceSpec == TraceInit /\ [][TraceNext]_traceVars

(***************************************************************************)
(* Properties.                                                             *)
(***************************************************************************)
Steps == {"idle", "polling", "matched", "observed"}

TraceTypeOK ==
    /\ now \in 0 .. MaxTime /\ slots \in 0 .. MaxHandlers
    /\ \A span \in Range(spans) : span.at \in 0 .. now /\ span.readable
    /\ \A m \in Range(refusedTraces) \cup Range(refusedCorrelations) : m.at \in 0 .. now
    /\ \A r \in Request : watch[r].at \in Steps
    /\ \A h \in DOMAIN handlers :
           handlers[h].at \in {"reading", "exporting", "closed"}

\* The index says where a span is, and of every span there is one version.
IndexIsExact ==
    /\ DOMAIN indexes = Identities(spans)
    /\ \A i \in DOMAIN spans : indexes[Identity(spans[i])] = i

LimitsHold ==
    /\ Len(spans) <= MaxSpans /\ SumOfSizes(spans) <= MaxBufferBytes
    /\ \A marks \in {refusedTraces, refusedCorrelations} :
           /\ Len(marks) <= MaxSpans
           /\ \A i, j \in DOMAIN marks : marks[i].name = marks[j].name => i = j

\* A trajectory is built from the first selected span.
SelectionsAreUsable ==
    \A r \in Request : watch[r].at = "matched" => Selected(watch[r].matched) # <<>>

\* A request that was read to its end, refused or cut off gives its slot back.
SlotsAreTheHandlers ==
    slots + Cardinality({h \in DOMAIN handlers : handlers[h].at # "closed"}) = MaxHandlers

(* However exports, updates, observations and pruning interleave, the      *)
(* index, the limits and the slots of the receiver agree with what is      *)
(* stored and with who is served.                                          *)
StoreIsExact ==
    TraceTypeOK /\ IndexIsExact /\ LimitsHold /\ SelectionsAreUsable /\ SlotsAreTheHandlers

\* The last version of a span that the store accepted before position n.
LastAccepted(entries, i, n) ==
    /\ entries[i].accepted
    /\ \A j \in i + 1 .. n :
           entries[j].accepted => Identity(entries[j].span) # Identity(entries[i].span)

\* The observations that took something; w says where each one stands.
Observed(w) == {r \in Request : w[r].at = "observed" /\ w[r].status # "missing"}

TookIt(w, q, entries, i) == Identity(entries[i].span) \in w[q].took /\ w[q].taken >= i

NameIn(entry, field) ==
    IF field = "trace" THEN entry.span.trace ELSE entry.span.correlation

\* The refusals that a name in that field met, up to position n.
Refusals(entries, field, name, n) ==
    {i \in 1 .. n : ~entries[i].accepted /\ NameIn(entries[i], field) = name}

NamesRefused(entries, field, i, n) ==
    {NameIn(entries[j], field) : j \in {k \in i + 1 .. n : ~entries[k].accepted}}

\* A refusal whose mark one of these observations took, or time or later
\* refusals removed.
MayBeForgotten(entries, field, i, n, time, w, observations) ==
    LET name == NameIn(entries[i], field) IN
    \/ \E q \in observations : /\ name \in w[q].traces \cup {Requests[q].correlation}
                               /\ w[q].taken >= i
    \/ \E j \in Refusals(entries, field, name, n) : j >= i /\ entries[j].at + Retention < time
    \/ Cardinality(NamesRefused(entries, field, i, n) \ {name, NoCorrelation}) >= MaxSpans

\* Of every last version up to position n: it is among these spans, or too old,
\* or one of these observations took it.
NothingIsLost(request, all, entries, n, time, w, observations) ==
    \A i \in 1 .. n :
        Matches(entries[i].span, request) /\ LastAccepted(entries, i, n) =>
            \/ Buffered(entries[i].span, entries[i].at) \in Range(all)
            \/ entries[i].at + Retention < time
            \/ \E q \in observations : TookIt(w, q, entries, i)

(* An observation that is called complete holds, of every span the store   *)
(* accepted for its request before it was matched, the last version,       *)
(* unless an earlier observation took it or its retention was over; and    *)
(* nothing of its trace or its correlation was refused since, as far as    *)
(* the bounded marks can remember.                                         *)
CompleteIsWhole ==
    \A r \in Observed(watch) : watch[r].status = "complete" =>
        LET o == watch[r]
            others == Observed(watch) \ {r}
            IsForgotten(field, name) ==
                \A i \in Refusals(log, field, name, o.taken) :
                    MayBeForgotten(log, field, i, o.taken, o.ended, watch, others)
        IN
        /\ NothingIsLost(Requests[r], o.got, log, o.seen, o.time, watch, others)
        /\ \A t \in o.traces : IsForgotten("trace", t)
        /\ IsForgotten("correlation", Requests[r].correlation)
=============================================================================
