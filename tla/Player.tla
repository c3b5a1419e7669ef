-------------------------------- MODULE Player --------------------------------
(***************************************************************************)
(* The player of recorded sessions: pausing, seeking and changing the      *)
(* speed of a replay, as operators on its state.  The terminal interface   *)
(* applies them, and owns the clock.                                       *)
(*                                                                         *)
(* A player is a record: the events sorted by time, the index of the next  *)
(* one, the wall-clock ms since replay_started_at, the speed in tenths,    *)
(* paused, finished and pausedAt.  shown is the session it plays into:     *)
(* the events applied since the session was made or its statistics reset,  *)
(* and from is the index at that reset (a history variable).               *)
(***************************************************************************)
EXTENDS Integers, Sequences, FiniteSets, SequencesExt

Lower(a, b) == IF a < b THEN a ELSE b
Higher(a, b) == IF a < b THEN b ELSE a

\* A stable sort: events recorded in the same millisecond keep their order.
SortedByTime(events) ==
    FoldLeft(LAMBDA s, e : InsertAt(s, Cardinality({i \in 1..Len(s) : s[i].at <= e.at}) + 1, e),
             <<>>, events)

NewPlayer(events, speed) ==
    [events |-> SortedByTime(events), index |-> 0, elapsed |-> 0, speed |-> speed,
     paused |-> FALSE, finished |-> FALSE, pausedAt |-> 0, shown |-> <<>>, from |-> 0]

Duration(p) == IF p.events = <<>> THEN 0 ELSE Last(p.events).at

\* Where the replay is, in ms of its own time.
Position(p) ==
    IF p.paused THEN p.pausedAt
    ELSE IF p.finished THEN Duration(p)
    ELSE (p.elapsed * p.speed) \div 10

\* The clock is moved so that Position gives ms again, to a wall-clock ms.
Rebase(p, ms) == [p EXCEPT !.elapsed = (ms * 10) \div p.speed]

\* Time 0 is before the first event, even one recorded at 0.
IndexAt(p, ms) ==
    IF ms = 0 THEN 0 ELSE Cardinality({i \in 1..Len(p.events) : p.events[i].at <= ms})

\* Applies the events from the index up to, and including, the one at i.
PlayTo(p, i) ==
    [p EXCEPT !.index = i, !.shown = @ \o SubSeq(p.events, p.index + 1, i)]

\* Mutant: the session is not made anew.
RebuildOnto(p, i) == [p EXCEPT !.index = i, !.shown = @ \o SubSeq(p.events, 1, i)]

\* Backwards there is no way but to start over.
Rebuild(p, i) == [p EXCEPT !.index = i, !.shown = SubSeq(p.events, 1, i), !.from = 0]
-----------------------------------------------------------------------------
(* What the loop of the interface does each time round. *)

PlayedBy(p) ==
    Higher(p.index, Cardinality({i \in 1..Len(p.events) : p.events[i].at <= Position(p)}))

Tick(p) ==
    IF p.paused \/ p.finished THEN p
    ELSE LET q == PlayTo(p, PlayedBy(p)) IN [q EXCEPT !.finished = q.index >= Len(q.events)]

(* What the keys do. *)

TogglePlayer(p) ==
    IF p.paused THEN [Rebase(p, p.pausedAt) EXCEPT !.paused = FALSE]
    ELSE [p EXCEPT !.pausedAt = Position(p), !.paused = TRUE]

StoppedAt(p, ms) ==
    [p EXCEPT !.paused = TRUE, !.pausedAt = ms, !.finished = p.index >= Len(p.events)]

SeekTo(p, to) ==
    LET ms == Lower(to, Duration(p))
        i  == IndexAt(p, ms)
    IN  StoppedAt(IF i = p.index THEN p ELSE IF i < p.index THEN Rebuild(p, i) ELSE PlayTo(p, i), ms)

SeekBy(p, delta) == SeekTo(p, Higher(Position(p) + delta, 0))
SeekToEnd(p) ==
    [PlayTo(p, Len(p.events)) EXCEPT !.paused = TRUE, !.pausedAt = Duration(p), !.finished = TRUE]

AdjustSpeed(p, delta) ==
    LET q == [p EXCEPT !.speed = Lower(Higher(@ + delta, 1), 10000)]
    IN  IF p.paused THEN q ELSE Rebase(q, Position(p))

\* The statistics reset, of the session the player plays into.
ResetShown(p) == [p EXCEPT !.shown = <<>>, !.from = p.index]
=============================================================================
