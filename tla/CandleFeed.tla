----------------------------- MODULE CandleFeed -----------------------------
(***************************************************************************)
(* SymbolFeed of market_data/engine.py with its GapDetector and its rows   *)
(* in the candles table: one symbol and timeframe, one polling task.  A    *)
(* bar is its number; the newest bar of the exchange is still forming.     *)
(* What Redis and the table do not deliver, the feed goes on without.      *)
(***************************************************************************)
EXTENDS Integers, FiniteSets, SequencesExt, FiniteSetsExt

CONSTANTS
  MaxBar,      \* bound on the exchange's clock
  MaxBuffer,   \* _max_buffer
  PollLimit,   \* limit of an update's request
  FillSlack,   \* bars asked for beyond a gap
  FeedFaults,  \* bound on bans, failures, withheld bars and crashes
  SinceIsEnd   \* does the adapter read "since" as the end of the range?

ASSUME FeedConstants ==
  /\ {MaxBar, MaxBuffer, PollLimit} \subseteq Nat \ {0}
  /\ {FillSlack, FeedFaults} \subseteq Nat
  /\ SinceIsEnd \in BOOLEAN

VARIABLES
  newest,      \* the exchange's forming bar
  buffer,      \* _candle_buffer: bars, with whether they were closed when read
  lastBar,     \* _last_processed_ts, 0: the feed is not initialized
  candles,     \* the candles table, bar by bar the same
  banned,      \* the ban in Redis
  announced,   \* bar of the last CandleEvent, and if one came back (history)
  unsaved,     \* bars of the buffer that may have no row (history)
  refused,     \* bars not delivered when asked for, or lost unsaved (history)
  refilled,    \* a gap was filled since the feed was initialized (history)
  feedFaults   \* faults so far

feedVars == <<newest, buffer, lastBar, candles, banned, announced, unsaved,
              refused, refilled, feedFaults>>

FeedInit ==
  /\ newest = 1
  /\ buffer = <<>>
  /\ lastBar = 0
  /\ candles = {}
  /\ banned = FALSE
  /\ announced = [bar |-> 0, repeated |-> FALSE]
  /\ unsaved = {}
  /\ refused = {}
  /\ refilled = FALSE
  /\ feedFaults = 0

FeedFault ==
  /\ feedFaults < FeedFaults
  /\ feedFaults' = feedFaults + 1

\* Time passes at the exchange.
NextBar ==
  /\ newest < MaxBar
  /\ newest' = newest + 1
  /\ UNCHANGED <<buffer, lastBar, candles, banned, announced, unsaved,
                 refused, refilled, feedFaults>>

BarsOf(c) == {k.bar : k \in c}
AsCandle(b) == [bar |-> b, closed |-> b < newest]
InOrder(c) ==
  [i \in 1..Cardinality(c) |->
     CHOOSE k \in c : Cardinality({j \in c : j.bar < k.bar}) = i - 1]
Lowest(n, S) == {b \in S : Cardinality({c \in S : c <= b}) <= n}
Highest(n, S) == {b \in S : Cardinality({c \in S : c >= b}) <= n}
LastN(n, s) == SubSeq(s, Len(s) - n + 1, Len(s))

\* Deviation: one bar too many is kept.
Cut_Deviation(s) == IF Len(s) > MaxBuffer + 1 THEN LastN(MaxBuffer, s) ELSE s

Cut(s) == IF Len(s) > MaxBuffer THEN LastN(MaxBuffer, s) ELSE s

\* Deviation: since ends the range.
Fetch_Deviation(since, n, withheld) ==
  Highest(n, (1..IF since = 0 THEN newest ELSE since) \ withheld)

\* get_ohlcv of the adapters: at most n bars, from since on; the adapter of
\* Pionex passes since as the end of the range.
Fetch(since, n, withheld) ==
  IF SinceIsEnd /\ since > 0
  THEN Highest(n, (1..since) \ withheld)
  ELSE IF since = 0 THEN Highest(n, (1..newest) \ withheld)
  ELSE Lowest(n, (since..newest) \ withheld)

\* The exchange answers, or leaves out closed bars.
Withholds(w) == IF w = {} THEN UNCHANGED feedFaults ELSE FeedFault

\* Rows are inserted, and a bar that has one keeps it.
Persisted(c) == candles \cup {k \in c : k.bar \notin BarsOf(candles)}

\* The rows initialize reads: from one buffer before the last row on, the
\* oldest ones first.
Stored ==
  LET top == Max(BarsOf(candles))
      hit == Lowest(MaxBuffer, {b \in BarsOf(candles) : b >= top - MaxBuffer})
  IN IF candles = {} THEN {} ELSE {k \in candles : k.bar \in hit}

\* initialize: the table's rows, then what the exchange has after them; a
\* table that cannot be read or written is left out.  With rows that end a
\* whole buffer ago the feed starts in the past, and announces it again.
Initialize(w, readable, writable) ==
  /\ lastBar = 0
  /\ ~banned
  /\ IF w = {} /\ readable /\ writable THEN UNCHANGED feedFaults ELSE FeedFault
  /\ LET rows  == IF readable THEN Stored ELSE {}
         since == IF rows = {} THEN 0 ELSE Max(BarsOf(rows))
         fresh == {AsCandle(b) :
                     b \in {f \in Fetch(since, MaxBuffer, w) : f > since}}
         all   == InOrder(rows \cup fresh)
     IN /\ rows \cup fresh # {}
        /\ buffer' = Cut(all)
        /\ lastBar' = Last(all).bar
        /\ candles' = IF writable THEN Persisted(rows \cup fresh) ELSE candles
        /\ unsaved' = IF writable THEN {} ELSE BarsOf(fresh)
        /\ refused' = refused \cup
             (IF readable THEN w ELSE (1..newest) \ BarsOf(fresh))
        /\ announced' = IF Last(all).bar = newest THEN announced
                        ELSE [announced EXCEPT !.bar = 0]
  /\ refilled' = FALSE
  /\ UNCHANGED <<newest, banned>>

\* Deviation: a poll takes the bars from the last one on.
News_Deviation(w) == {b \in Fetch(lastBar, PollLimit, w) : b >= lastBar}

\* What a poll finds after the bar processed last.
News(w) == {b \in Fetch(lastBar, PollLimit, w) : b > lastBar}

\* Deviation: the fill starts after the first missing bar.
Fill_Deviation(new, w) ==
  Fetch(Last(buffer).bar + 2, Min(new) - Last(buffer).bar - 1 + FillSlack, w)

\* _handle_gaps asks for the missing bars, and some more.
Fill(new, w) ==
  Fetch(Last(buffer).bar + 1, Min(new) - Last(buffer).bar - 1 + FillSlack, w)

\* Gap detection looks at the end of the buffer and the first new bar.
Gap(new) == Min(new) > Last(buffer).bar + 1

\* The last value the buffer holds of each of its bars.
LastValues ==
  {buffer[i] : i \in {j \in DOMAIN buffer :
     \A l \in DOMAIN buffer : l > j => buffer[l].bar # buffer[j].bar}}

\* The buffer with the fill sorted in; the newest value of a bar stays.
Merged(fill) ==
  InOrder({AsCandle(b) : b \in fill}
          \cup {k \in LastValues : k.bar \notin fill})

\* How update ends once the bars are processed: everything works; the rows
\* cannot be written; features or event fail, and nobody hears of the bars.
Outcomes == {"done", "not_persisted", "not_announced"}

\* update: one poll.  The bars of a filled gap go into the buffer only.
Update(w, w2, filled, outcome) ==
  LET new    == News(w)
      gap    == Gap(new)
      missed == Last(buffer).bar + 1..Min(new) - 1
      base   == IF gap /\ filled THEN Merged(Fill(new, w2)) ELSE buffer
  IN /\ lastBar > 0
     /\ ~banned
     /\ new # {}
     /\ ~gap => w2 = {} /\ filled
     /\ IF w = {} /\ w2 = {} /\ filled /\ outcome = "done"
        THEN UNCHANGED feedFaults ELSE FeedFault
     /\ buffer' = Cut(base \o InOrder({AsCandle(b) : b \in new}))
     /\ lastBar' = Max(new)
     /\ refused' = refused \cup
          ((w \cap 1..Max(new)) \ (IF gap /\ filled THEN missed \ w2 ELSE {}))
     /\ unsaved' = unsaved \cup missed
          \cup (IF outcome = "not_persisted" THEN new ELSE {})
     /\ refilled' = (refilled \/ (gap /\ filled))
     /\ candles' = IF outcome = "not_persisted" THEN candles
                   ELSE Persisted({AsCandle(b) : b \in new})
     /\ announced' =
          IF outcome = "not_announced" THEN announced
          ELSE [bar |-> Max(new),
                repeated |-> announced.repeated \/ Max(new) <= announced.bar]
     /\ UNCHANGED <<newest, banned>>

\* A request is answered with a ban; it is in Redis for all feeds of the
\* exchange, until it runs out.
Banned ==
  /\ ~banned
  /\ FeedFault
  /\ banned' = TRUE
  /\ UNCHANGED <<newest, buffer, lastBar, candles, announced, unsaved,
                 refused, refilled>>

BanEnds ==
  /\ banned
  /\ banned' = FALSE
  /\ UNCHANGED <<newest, buffer, lastBar, candles, announced, unsaved,
                 refused, refilled, feedFaults>>

\* The worker restarts, or the feed is removed and added again.
DropFeed ==
  /\ lastBar > 0
  /\ FeedFault
  /\ buffer' = <<>>
  /\ lastBar' = 0
  /\ unsaved' = {}
  /\ refused' = refused \cup unsaved
  /\ UNCHANGED <<newest, candles, banned, announced, refilled>>

\* Bars an answer may leave out: one or two neighbours, never the newest.
Withheld ==
  {{}} \cup {{b} : b \in lastBar + 1..newest - 1}
       \cup {{b, b + 1} : b \in lastBar + 1..newest - 2}

Poll ==
  \E w \in Withheld, ok \in BOOLEAN :
    \/ \E written \in BOOLEAN : Initialize(w, ok, written)
    \/ \E w2 \in {{}, w}, outcome \in Outcomes : Update(w, w2, ok, outcome)

\* A poll in which nothing fails.
CalmPoll == Initialize({}, TRUE, TRUE) \/ Update({}, {}, TRUE, "done")

FeedNext == NextBar \/ Poll \/ Banned \/ BanEnds \/ DropFeed

\* A poll would find something.
PollDue == ~banned /\ (lastBar = 0 \/ News({}) # {})

\* Weak fairness of a poll in which nothing fails, PollDue being when it is
\* enabled, and of the end of a ban.
FeedFairness ==
  /\ <>[]PollDue => []<><<CalmPoll>>_feedVars
  /\ WF_feedVars(BanEnds)

FeedSpec == FeedInit /\ [][FeedNext]_feedVars

FairFeedSpec == FeedSpec /\ FeedFairness

-----------------------------------------------------------------------------
FeedTypeOK ==
  /\ newest \in 1..MaxBar
  /\ BarsOf(ToSet(buffer)) \subseteq 1..MaxBar
  /\ Len(buffer) <= MaxBuffer
  /\ lastBar \in 0..MaxBar
  /\ BarsOf(candles) \subseteq 1..newest
  /\ {banned, refilled} \subseteq BOOLEAN
  /\ announced \in [bar : 0..MaxBar, repeated : BOOLEAN]
  /\ unsaved \cup refused \subseteq 1..MaxBar
  /\ feedFaults \in 0..FeedFaults

(* Indicators are computed over the buffer: it runs from its first bar to its
   last without a missing one, except for bars the exchange did not deliver
   when they were asked for, and bars that had no row when the worker
   restarted: those a fill brings never reach the table. *)
NoSilentGap ==
  buffer # <<>> =>
    LET have == BarsOf(ToSet(buffer))
    IN Min(have)..Max(have) \subseteq have \cup refused

(* Bars stand in the buffer in the order of time and once, as long as no gap
   was filled: a fill that overlaps the new bars enters them twice. *)
OrderedUnlessRefilled ==
  refilled \/ \A i \in 1..Len(buffer) - 1 : buffer[i].bar < buffer[i + 1].bar

(* A trading cycle is started once per bar: no CandleEvent repeats a bar or
   goes back, across restarts, failed inserts and refilled gaps, unless the
   feed was initialized from rows that end a whole buffer ago. *)
EachBarAnnouncedOnce == ~announced.repeated

(* "since: fetch from this timestamp": a feed that keeps polling comes to the
   newest bar. *)
FeedCatchesUp == []<>(lastBar = newest)
=============================================================================
