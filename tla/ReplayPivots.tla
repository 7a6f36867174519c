---------------------------- MODULE ReplayPivots ----------------------------
(***************************************************************************)
(* Pivots of a replay (ReplayPivotProvider, aggregate_period and            *)
(* detect_confirmed_pivots of backtest_engine.py).  Minutes are put together *)
(* to bars of a longer period; a bar is a pivot when it stands out from as   *)
(* many bars on either side as the strength asks for.  Minutes may be        *)
(* missing, and so may bars.  Highs only: the lows are their mirror.         *)
(***************************************************************************)
EXTENDS Integers, Sequences, FiniteSets, FiniteSetsExt

CONSTANTS
    Highs,      \* highs of a minute
    Period,     \* minutes of a bar
    Strength,   \* bars on either side
    Start,      \* first minute of the test; the minutes before warm it up
    MaxSkip,    \* bound: minutes missing in a row
    MaxMinute   \* bound: length of the stream

VARIABLES
    seen,      \* minutes so far: [t, h]
    pivots     \* _pivots: [bucket, high, at]
vars == <<seen, pivots>>

Init == seen = <<>> /\ pivots = {}

(* aggregate_period: the bars in order of time; the last may be unfinished.  *)
Bucket(minute) == minute.t \div Period
Buckets(minutes) == {Bucket(minutes[i]) : i \in DOMAIN minutes}
HighOf(minutes, b) == Max({minutes[i].h : i \in {j \in DOMAIN minutes : Bucket(minutes[j]) = b}})
(* The n-th bar to the left or to the right of one.                          *)
Left(bs, b) == {c \in bs : c < b /\ Cardinality({d \in bs : c <= d /\ d < b}) <= Strength}
Right(bs, b) == {c \in bs : c > b /\ Cardinality({d \in bs : b < d /\ d <= c}) <= Strength}
StandsOut(minutes, bs, b) ==
    /\ Cardinality(Left(bs, b)) = Strength /\ Cardinality(Right(bs, b)) = Strength
    /\ \A c \in Left(bs, b) \union Right(bs, b) : HighOf(minutes, c) < HighOf(minutes, b)

\* Mutant: the unfinished bar counts as well.
ClosedAny(minutes, time) == Buckets(minutes)
Closed(minutes, time) == {b \in Buckets(minutes) : (b + 1) * Period <= time}

(* update: of the bars that are closed by now, the one that has just got its
   last bar on the right; at the end of every minute of the test.           *)
Update(minutes, time) ==
    LET closed == Closed(minutes, time)
        found == {b \in closed : /\ Cardinality({c \in closed : c > b}) = Strength
                                 /\ StandsOut(minutes, closed, b)}
    IN  {p \in pivots : p.bucket \notin found}
            \union {[bucket |-> b, high |-> HighOf(minutes, b), at |-> time] : b \in found}

Minute(h, skip) ==
    LET t == (IF seen = <<>> THEN 0 ELSE seen[Len(seen)].t + 1) + skip
        minutes == Append(seen, [t |-> t, h |-> h])
    IN  /\ t <= MaxMinute
        /\ seen' = minutes
        /\ pivots' = IF t < Start THEN pivots ELSE Update(minutes, t + 1)

Next == \E h \in Highs, skip \in 0..MaxSkip : Minute(h, skip)
Spec == Init /\ [][Next]_vars

(* detect_confirmed_pivots over everything aggregated, as the pivot signal of
   the replay calls it.                                                      *)
Detected(minutes) ==
    {b \in Buckets(minutes) : StandsOut(minutes, Buckets(minutes), b)}
----------------------------------------------------------------------------
(* What the position rules see of pivots was confirmed when they saw it, and no
   later bar changes it: a pivot stands out from the bars beside it as they are
   known at the end, all of them closed when it was confirmed.              *)
PivotsAreFinal ==
    \A p \in pivots :
        LET all == Buckets(seen)
        IN  /\ p.high = HighOf(seen, p.bucket) /\ StandsOut(seen, all, p.bucket)
            /\ \A c \in Right(all, p.bucket) : (c + 1) * Period <= p.at

(* And none is missed that was confirmed in the test, when no minute is.     *)
Whole == \A i \in DOMAIN seen : seen[i].t = i - 1
ConfirmedAt(closed, b) == (Max(Right(closed, b)) + 1) * Period
PivotsAreFound ==
    Whole => LET closed == Closed(seen, Len(seen))
             IN  \A b \in closed :
                    StandsOut(seen, closed, b) /\ ConfirmedAt(closed, b) > Start
                        => \E p \in pivots : p.bucket = b

(* "A pivot appears only after `strength` right-hand bars have closed."      *)
AppearsWhenClosed ==
    seen # <<>> => \A b \in Detected(seen) :
        \A c \in Right(Buckets(seen), b) : (c + 1) * Period <= seen[Len(seen)].t + 1
=============================================================================
