------------------------------ MODULE EventLog ------------------------------
(***************************************************************************)
(* The event stream a decider's commands read and append to, as pure       *)
(* operators over its contents (trogon-decider-nats: store.rs and          *)
(* stream_store.rs; trogon-decider-runtime: replay_bounds.rs).             *)
(*                                                                         *)
(* One physical JetStream stream carries the subjects of many logical      *)
(* streams, so the positions of one subject are increasing but not dense.  *)
(* A log is the sequence of everything the physical stream stores; a       *)
(* position is an index of it. An entry is one of                          *)
(*   "event"   on this subject, of the decider's own event set             *)
(*   "alien"   on this subject, but outside the decider's event set: it    *)
(*             moves the subject's position and is skipped by the fold     *)
(*   "foreign" on another subject of the same physical stream              *)
(* What an event says is a function of the history its command was decided *)
(* on, so `seen', that history, stands for its content. `guard' is the     *)
(* expected-last-subject-sequence its batch was published with.            *)
(***************************************************************************)
EXTENDS Integers, Sequences, FiniteSets, FiniteSetsExt

\* Option<StreamPosition>: positions start at 1, so 0 stands for None.
NoPosition == 0

\* A limit, a chunk size or a bound that is not configured.
Unset == 0

\* No expected-last-subject-sequence header: the broker checks nothing.
NoGuard == -1

Positions(log) == 1..Len(log)

OnSubject(log) == {p \in Positions(log) : log[p].kind # "foreign"}

\* The positions whose events the fold applies.
Decodable(log) == {p \in Positions(log) : log[p].kind = "event"}

UpTo(S, p) == {q \in S : q <= p}

Before(S, p) == {q \in S : q < p}

After(S, p) == {q \in S : q > p}

LastOf(S) == IF S = {} THEN NoPosition ELSE Max(S)

\* What a decider that has folded the stream up to p has folded.
History(log, p) == UpTo(Decodable(log), p)

\* subject_current_position: the last position of the subject, None if it has
\* no message.
CurrentPosition(log) == LastOf(OnSubject(log))

\* The n first elements of S, all of S when n is Unset: what a replay that
\* stops at its max_events-th message has delivered.
FirstOf(S, n) ==
    IF n = Unset THEN S ELSE {p \in S : Cardinality(UpTo(S, p)) <= n}

\* read_stream / read_stream_bounded: the first `bound' messages of the
\* subject after `position'. The range ends at the position resolved just
\* before it is replayed, and stored messages never change, so the two
\* requests together read the log as it was at the first.
ReadAfter(log, position, bound) ==
    FirstOf(After(OnSubject(log), position), bound)

\* ReplayBounds::read_bound: one more than the limit still allows, so that
\* the extra event proves the limit was exceeded, and no more than a chunk.
ReadBound(limit, chunk, replayed) ==
    LET allowance == (IF replayed > limit THEN 0 ELSE limit - replayed) + 1
    IN  IF limit = Unset THEN chunk
        ELSE IF chunk = Unset \/ allowance < chunk THEN allowance ELSE chunk

\* Mutant of WriteGuards: the revision is checked but the guard published is
\* the observed position.
WriteGuardsObserved(declared, revision, observed) ==
    IF revision = NoPosition
    THEN CASE declared = "StreamUnchanged" -> {observed}
           [] declared = "NoStream"        -> {0}
           [] OTHER                        -> {NoGuard}
    ELSE IF declared = "NoStream" \/ revision > observed THEN {} ELSE {observed}

\* resolve_write_precondition, then resolve_expected_last_subject_sequence:
\* the guards a publish may carry. The empty set is PreconditionConflictError.
\* StreamExists carries no guard: the adapter checks existence itself.
WriteGuards(declared, revision, observed) ==
    IF revision = NoPosition
    THEN CASE declared = "StreamUnchanged" -> {observed}
           [] declared = "NoStream"        -> {0}
           [] OTHER                        -> {NoGuard}
    ELSE IF declared = "NoStream" \/ revision > observed
         THEN {}
         ELSE {revision}

\* One published event: its id, its place in its batch, the history it was
\* decided on and the guard of its batch.
Event(id, index, seen, guard) ==
    [kind |-> "event", id |-> id, index |-> index, seen |-> seen, guard |-> guard]

\* The atomic batch one decision publishes.
Batch(ids, seen, guard) ==
    [i \in 1..Len(ids) |-> Event(ids[i], i, seen, guard)]

\* Entries other writers of the physical stream leave behind.
Other(kind) ==
    [kind |-> kind, id |-> <<>>, index |-> 1, seen |-> {}, guard |-> NoGuard]

Ids(log) == {log[p].id : p \in Decodable(log)}

=============================================================================
