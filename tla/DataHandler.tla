---- MODULE DataHandler ----
(***************************************************************************)
(* The data handler of one metric of one device (core/src/data_logic):     *)
(* what a store of a new sample does, and what a reader of the statistics  *)
(* of a session gets.                                                      *)
(*                                                                         *)
(* storeMeasurementData is several critical sections of DataHandler::mutex *)
(* with nothing held in between: the sample becomes p_latestData, then the *)
(* class of the handler looks for a counter that went back, computes the   *)
(* current value from p_preData, and adds it to the statistics of every    *)
(* session.  Readers get the shared object of the sample itself.           *)
(*                                                                         *)
(* The kinds of handler: "stats" (StatsDataHandler), "counter"             *)
(* (CounterDataHandler), "rate" (TimeWeightedAverageDataHandler), "util"   *)
(* (GPUUtilizationDataHandler, EngineGroupUtilizationDataHandler).  A      *)
(* sample has a value of the device and of one tile.  The average and the  *)
(* start and end times of the statistics are left out.                     *)
(***************************************************************************)
EXTENDS Integers, FiniteSets, FiniteSetsExt

CONSTANTS Writers,     \* the monitor tasks that may be storing
          Session,     \* 0 .. MAX_STATISTICS_SESSION_NUM - 1
          MaxValue,    \* bound of the values a driver reports
          Readings,    \* <<device value or Top, tile value or None>>
          Wrap,        \* 2^64 of the unsigned arithmetic
          Cap,         \* 100% of a utilisation
          MaxSamples,  \* bound of the number of samples
          None         \* null, or absent from a map

Top == Wrap - 1        \* numeric_limits<uint64_t>::max(): no data on the device
Kinds == {"stats", "counter", "rate", "util"}
Slot == 1 .. Cardinality(Writers) + 2

ASSUME DataAssumption ==
  /\ MaxValue \in Nat /\ Cap \in Nat /\ MaxSamples \in Nat
  /\ Wrap \in Nat /\ Wrap > MaxValue + MaxSamples + 1 /\ Cap < Top
  /\ Readings \subseteq ((0 .. MaxValue) \cup {Top}) \X ((0 .. MaxValue) \cup {None})

VARIABLES
  kind,        \* the class of the handler
  obj,         \* the samples (SharedData) that someone still points to
  p_latestData, p_preData,
  run,         \* per writer: where its store is, and the sample it stores
  stats,       \* multi_sessions_data, per session: the entry of the device
  samples,     \* samples taken so far
  clock,       \* the time stamp of the driver's counters
  report,      \* what the last step, a read while no store was going on, returned
  unread,      \* what was stored since the session was last read (ghost)
  overlap      \* most stores that began while another one was going on (ghost)

handlerVars == <<kind, obj, p_latestData, p_preData, run, stats, samples, clock,
                 report, unread, overlap>>

Blank == [dev |-> Top, tile |-> None, ts |-> 0, cur |-> Top, tcur |-> None,
          first |-> FALSE]
Idle == [pc |-> "idle", p |-> None, others |-> 0]

Init ==
  /\ kind \in Kinds
  /\ obj = [i \in Slot |-> Blank]
  /\ p_latestData = None /\ p_preData = None
  /\ run = [w \in Writers |-> Idle]
  /\ stats = [s \in Session |-> None]
  /\ samples = 0 /\ clock = 0 /\ report = None
  /\ unread = [s \in Session |-> [dev |-> {}, tile |-> {}]]
  /\ overlap = 0

Computed == kind \in {"rate", "util"}   \* the value comes from two samples
Storing == {w \in Writers : run[w].pc \in {"handle", "detect", "calc", "stat"}}

\* The samples that nobody points to are freed.
Used(latest, pre, r) == {latest, pre} \cup {r[w].p : w \in Writers}
Freed(o, latest, pre, r) == [i \in Slot |-> IF i \in Used(latest, pre, r) THEN o[i] ELSE Blank]

\* The object of writer w, and the step of w to pc.
Mine(w) == obj[run[w].p]
Goto(w, pc) == [run EXCEPT ![w].pc = pc]

----
\* MonitorTask: the driver is asked for the device's data.  Values may be
\* missing, and a counter may be smaller than it was (a reset, an overflow); the
\* driver's time stamp may be the one of the sample before.
Sample(w) ==
  /\ run[w].pc = "begun" /\ samples < MaxSamples
  /\ LET i == CHOOSE i \in Slot : i \notin Used(p_latestData, p_preData, run) IN
     \E v \in Readings, t \in IF Computed THEN {clock, clock + 1} ELSE {clock} :
       /\ obj' = [obj EXCEPT ![i] =
            [Blank EXCEPT !.dev = v[1], !.tile = v[2], !.ts = t,
                          !.cur = IF Computed THEN Top ELSE v[1],
                          !.tcur = IF Computed THEN None ELSE v[2]]]
       /\ run' = [run EXCEPT ![w].pc = "update", ![w].p = i]
       /\ clock' = t
  /\ samples' = samples + 1
  /\ UNCHANGED <<kind, p_latestData, p_preData, stats, unread, overlap>>

\* updateDataInHandler.
updateDataInHandler(w) ==
  /\ run[w].pc = "update"
  /\ LET rest == [x \in Writers |-> [run[x] EXCEPT !.others = IF x \in Storing THEN @ + 1 ELSE 0]]
         after == [rest EXCEPT ![w].pc = IF kind = "stats" THEN "stat" ELSE "handle"]
         o == [obj EXCEPT ![run[w].p].first = p_latestData = None]
     IN /\ run' = after
        /\ obj' = Freed(o, run[w].p, p_latestData, after)
        /\ overlap' = Max({overlap} \cup {after[x].others : x \in Writers})
  /\ p_preData' = p_latestData
  /\ p_latestData' = run[w].p
  /\ UNCHANGED <<kind, stats, samples, clock, unread>>

\* The end of a store.  Every value but the one of the very first sample, from
\* which a counter or a rate cannot be told, is owed to every session.
End(w) ==
  LET after == [run EXCEPT ![w] = Idle]
      owed(v, absent) == IF v \in absent \/ (Mine(w).first /\ kind # "stats") THEN {} ELSE {v}
  IN /\ run' = after
     /\ obj' = Freed(obj, p_latestData, p_preData, after)
     /\ unread' = [s \in Session |->
          [dev |-> unread[s].dev \cup owed(Mine(w).cur, {Top}),
           tile |-> unread[s].tile \cup owed(Mine(w).tcur, {None, Top})]]

\* handleData: p_preData is tested without the mutex.
handleData(w) ==
  /\ run[w].pc = "handle"
  /\ IF p_preData = None THEN End(w)
     ELSE /\ run' = Goto(w, IF kind = "util" THEN "calc" ELSE "detect")
          /\ UNCHANGED <<obj, unread>>
  /\ UNCHANGED <<kind, p_latestData, p_preData, stats, samples, clock, overlap>>

----
\* counterOverflowDetection: a device counter that went back makes p_preData
\* null; a tile counter that went back is erased from it.
WentBack(w) ==
  LET pre == obj[p_preData] IN
  IF kind = "counter" THEN Mine(w).cur # Top /\ pre.cur > Mine(w).cur
  ELSE Mine(w).dev # Top /\ pre.dev # Top /\ pre.dev > Mine(w).dev

TileWentBack(w) ==
  LET pre == obj[p_preData] IN
  IF kind = "counter"
  THEN {Mine(w).tcur, pre.tcur} \cap {None, Top} = {} /\ pre.tcur > Mine(w).tcur
  ELSE None \notin {Mine(w).tile, pre.tile} /\ pre.tile > Mine(w).tile

counterNotDetected(w) ==
  /\ run[w].pc = "detect"
  /\ run' = Goto(w, IF kind = "rate" THEN "calc" ELSE "stat")
  /\ UNCHANGED <<kind, obj, p_preData, p_latestData, stats, samples, clock, unread, overlap>>

counterOverflowDetection(w) ==
  /\ run[w].pc = "detect"
  /\ LET after == Goto(w, IF kind = "rate" THEN "calc" ELSE "stat") IN
     /\ run' = after
     /\ CASE p_preData = None -> UNCHANGED <<obj, p_preData>>
          [] p_preData # None /\ WentBack(w) ->
               p_preData' = None /\ obj' = Freed(obj, p_latestData, None, after)
          [] p_preData # None /\ ~WentBack(w) ->
               /\ obj' = IF ~TileWentBack(w) THEN obj
                         ELSE IF kind = "counter" THEN [obj EXCEPT ![p_preData].tcur = None]
                         ELSE [obj EXCEPT ![p_preData].tile = None]
               /\ UNCHANGED p_preData
  /\ UNCHANGED <<kind, p_latestData, stats, samples, clock, unread, overlap>>

\* calculateData: the difference of the counters over the difference of the time
\* stamps, both unsigned.  A utilisation is cut at 100% instead of looking for a
\* counter that went back.
Quotient(new, pre, dt) ==
  LET q == ((new - pre) % Wrap) \div (dt % Wrap) IN IF kind = "util" /\ q > Cap THEN Cap ELSE q

calculateData(w) ==
  /\ run[w].pc = "calc"
  /\ run' = Goto(w, "stat")
  /\ LET pre == obj[p_preData]
         dt == Mine(w).ts - pre.ts
     IN obj' =
          IF p_preData = None \/ dt = 0 THEN obj
          ELSE [obj EXCEPT ![run[w].p] = [@ EXCEPT
                 !.cur = IF Top \in {Mine(w).dev, pre.dev} THEN @ ELSE Quotient(Mine(w).dev, pre.dev, dt),
                 !.tcur = IF None \in {Mine(w).tile, pre.tile} THEN @
                          ELSE Quotient(Mine(w).tile, pre.tile, dt)]]
  /\ UNCHANGED <<kind, p_latestData, p_preData, stats, samples, clock, unread, overlap>>

----
\* updateStatistics, for one session: the device's value, then the tile's.  A tile
\* that comes first makes an entry whose device bounds are 0.
WidenUp(e, v) == [e EXCEPT !.max = Max({e.max, v})]
Widen(e, v) == [min |-> Min({e.min, v}), max |-> Max({e.max, v})]
Point(v) == [min |-> v, max |-> v]

WithDevice(e, v) ==
  IF v = Top THEN e
  ELSE IF e = None THEN [dev |-> Point(v), tile |-> None] ELSE [e EXCEPT !.dev = Widen(@, v)]

WithTile(e, v) ==
  CASE v = None -> e
    [] v # None /\ e = None -> [dev |-> Point(0), tile |-> Point(v)]
    [] v # None /\ e # None ->
         IF v = Top THEN e
         ELSE [e EXCEPT !.tile = IF @ = None THEN Point(v) ELSE Widen(@, v)]

updateStatisticsFirst(w) ==
  /\ run[w].pc = "stat"
  /\ stats' = [s \in Session |->
       IF s = (CHOOSE x \in Session : TRUE) THEN WithTile(WithDevice(stats[s], Mine(w).cur), Mine(w).tcur) ELSE stats[s]]
  /\ End(w)
  /\ UNCHANGED <<kind, p_latestData, p_preData, samples, clock, overlap>>

updateStatistics(w) ==
  /\ run[w].pc = "stat"
  /\ stats' = [s \in Session |-> WithTile(WithDevice(stats[s], Mine(w).cur), Mine(w).tcur)]
  /\ End(w)
  /\ UNCHANGED <<kind, p_latestData, p_preData, samples, clock, overlap>>

\* getMetricsStatistics: what is made of the object.  A counter is reported as the
\* unsigned difference of its current value and its minimum.
Reported(cur, b) == [cur |-> cur, min |-> b.min, max |-> b.max, diff |-> (cur - b.min) % Wrap]

\* getLatestStatistics: the bounds of the session, or the current value if it has
\* none, are written into the latest sample, whose object every reader shares, and
\* the session starts again.  A reader rewrites all of the bounds, so that none of
\* them outlives its call; a tile of the statistics that the sample lacks is added
\* to it.
getLatestStatistics(s) ==
  /\ p_latestData # None
  /\ LET o == obj[p_latestData]
         e == stats[s]
         hasTile == e # None /\ e.tile # None
     IN /\ obj' = [obj EXCEPT ![p_latestData].tcur = IF hasTile /\ @ = None THEN Top ELSE @]
        /\ report' = IF Storing # {} THEN None
             ELSE [dev |-> IF o.cur = Top THEN None
                           ELSE Reported(o.cur, IF e = None THEN Point(o.cur) ELSE e.dev),
                   tile |-> IF o.tcur \in {None, Top} THEN None
                            ELSE Reported(o.tcur, IF hasTile THEN e.tile ELSE Point(o.tcur))]
  /\ stats' = [stats EXCEPT ![s] = None]
  /\ unread' = [unread EXCEPT ![s] = [dev |-> {}, tile |-> {}]]
  /\ UNCHANGED <<kind, p_latestData, p_preData, run, samples, clock, overlap>>

StoreStep(w) ==
  /\ \/ Sample(w) \/ updateDataInHandler(w) \/ handleData(w)
     \/ counterOverflowDetection(w) \/ calculateData(w) \/ updateStatistics(w)
  /\ report' = None

----
\* No sample is lost: whatever was stored since a session was last read is within
\* the bounds that the session holds ("The min value since last call", "The max
\* value since last call", xpum_structs.h).  The handlers that test p_preData
\* without the mutex promise it only when stores do not overlap.
NoSampleLost ==
  overlap = 0 \/ kind = "stats" => \A s \in Session :
    /\ \A v \in unread[s].dev : stats[s] # None /\ stats[s].dev.min <= v /\ v <= stats[s].dev.max
    /\ \A v \in unread[s].tile :
         stats[s].tile # None /\ stats[s].tile.min <= v /\ v <= stats[s].tile.max

\* What a reader gets while no store is going on makes
\* sense, if stores never overlapped: the current value is within the bounds, so that the difference
\* getMetricsStatistics reports for a counter does not wrap around.
QuietReport ==
  overlap = 0 /\ report # None =>
    \A r \in {report.dev, report.tile} \ {None} :
      r.min <= r.cur /\ r.cur <= r.max /\ r.diff <= r.cur

\* A rate or a utilisation is never the wrapped-around difference of a counter
\* that went back, nor of two samples that were stored in the wrong order.
NoWrappedRate ==
  overlap <= 1 => \A i \in Slot :
    /\ obj[i].cur <= MaxValue \/ obj[i].cur \in {Top, Cap}
    /\ obj[i].tcur \in {None, Top, Cap} \/ obj[i].tcur <= MaxValue

====
