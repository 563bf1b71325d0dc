--------------------------- MODULE TerminalProofs ---------------------------
(***************************************************************************)
(* Proofs about what reaches a user's terminal and what the client makes   *)
(* of it, for any limits, any lines, any clock, any number of clients, any *)
(* tee, any screen, any tasks, repositories and keys.  The capture: a      *)
(* limit that is marked as breached was announced, the rate in the window  *)
(* that is still open; the sums over the ring follow a push and what it    *)
(* evicts.  The scrollback store: a fold over chunks or over a batch is    *)
(* the last of a row of values, each made from the one before, so that     *)
(* what holds of them holds of the fold (Stores, TookIn); a page of two    *)
(* pieces is taken from one, then the other (TakenOK).  The attach loops:  *)
(* what is on a client's wire is a whole number of frames and maybe half   *)
(* of one, or starts with a body; and everything that is buffered between  *)
(* the provider and a client is strictly increasing, front to back.  The   *)
(* sidebar: a click finds what is drawn under it.  The screen of the       *)
(* client: what its lists are made of, then, operation by operation, what  *)
(* its model keeps (Coherent) and where it puts panes; a turn of the event *)
(* loop touches the panes of one task at most, in the groups it was in     *)
(* before and after, which is what keeps a task that did not change group  *)
(* to one pane with a session behind it (Placed).  The lines cut from the  *)
(* output: the cuts are where a reader of every character breaks a line    *)
(* (AtPlace), and a reader who starts where the last line broke reads what *)
(* one who started from nothing does (ReadAlong).                          *)
(***************************************************************************)
EXTENDS OutputCapture, LineSplitter, ScrollbackStore, AttachStream, SidebarLayout, TuiClient, FoldLemmas, SequenceTheorems

(* The governor.                                                           *)

Governors ==
  [windowStart : Nat, linesThisWindow : Nat, linesSinceSample : Nat,
   artifactBytes : Nat, rateActive : BOOLEAN, quotaBreached : BOOLEAN]
Breaches == {"RateSampling", "ArtifactQuota"} \X Nat

QuotaAnnounced(g, es) == g.quotaBreached => \E i \in DOMAIN es : es[i][1] = "ArtifactQuota"
RateAnnounced(g, es)  == g.rateActive => \E i \in DOMAIN es : es[i] = <<"RateSampling", g.windowStart>>

GovernorOK == governor \in Governors /\ events \in Seq(Breaches) /\ totalIngested \in Nat
GovernorInv ==
  /\ GovernorOK /\ QuotaIsKept
  /\ QuotaAnnounced(governor, events) /\ RateAnnounced(governor, events)

-----------------------------------------------------------------------------
LEMMA GovernorInitOK == CaptureInit => GovernorInv
<1>. SUFFICES ASSUME CaptureInit PROVE GovernorInv
  OBVIOUS
<1>1. governor = [windowStart |-> 0, linesThisWindow |-> 0, linesSinceSample |-> 0,
                  artifactBytes |-> 0, rateActive |-> FALSE, quotaBreached |-> FALSE]
  BY DEF CaptureInit
<1>2. governor \in Governors /\ ~governor.rateActive /\ ~governor.quotaBreached /\ governor.artifactBytes = 0
  BY <1>1 DEF Governors
<1>3. events \in Seq(Breaches) /\ totalIngested \in Nat
  BY DEF CaptureInit
<1>4. QuotaIsKept
  BY <1>2, CaptureCapsAssumption DEF QuotaIsKept
<1>. QED
  BY <1>2, <1>3, <1>4 DEF GovernorInv, GovernorOK, QuotaAnnounced, RateAnnounced

(* Counting a line leaves the quota alone, and an active rate limit means  *)
(* that its window is still open.                                          *)
LEMMA CountedOK ==
  ASSUME GovernorOK, NEW now \in ClockReadings
  PROVE  /\ Counted(now) \in Governors
         /\ Counted(now).quotaBreached = governor.quotaBreached
         /\ Counted(now).artifactBytes = governor.artifactBytes
         /\ Counted(now).rateActive =>
              governor.rateActive /\ Counted(now).windowStart = governor.windowStart
<1>1. now \in Nat
  BY CaptureInputAssumption
<1>. DEFINE s == Slide(governor, now)
<1>2. /\ s \in Governors
      /\ s.quotaBreached = governor.quotaBreached /\ s.artifactBytes = governor.artifactBytes
      /\ s.rateActive => governor.rateActive /\ s.windowStart = governor.windowStart
  <2>1. CASE now - governor.windowStart >= RateWindow
    <3>1. s = [governor EXCEPT !.windowStart = now, !.linesThisWindow = 0, !.rateActive = FALSE]
      BY <2>1 DEF Slide
    <3>2. governor \in Governors
      BY DEF GovernorOK
    <3>3. [governor EXCEPT !.windowStart = now, !.linesThisWindow = 0, !.rateActive = FALSE] \in Governors
      BY <1>1, <3>2 DEF Governors
    <3>4. s.quotaBreached = governor.quotaBreached /\ s.artifactBytes = governor.artifactBytes /\ ~s.rateActive
      BY <3>1, <3>2 DEF Governors
    <3>. QED
      BY <3>1, <3>3, <3>4
  <2>2. CASE ~(now - governor.windowStart >= RateWindow)
    <3>1. s = governor
      BY <2>2 DEF Slide
    <3>. QED
      BY <3>1 DEF GovernorOK, Governors
  <2>. QED
    BY <2>1, <2>2
<1>3. Counted(now) = [s EXCEPT !.linesThisWindow = @ + 1]
  BY DEF Counted
<1>. HIDE DEF s
<1>. QED
  BY <1>2, <1>3 DEF Governors

(* What has been announced stays announced.                                *)
LEMMA AppendKeeps ==
  ASSUME NEW es \in Seq(Breaches), NEW e \in Breaches
  PROVE  /\ Append(es, e) \in Seq(Breaches)
         /\ Len(es) + 1 \in DOMAIN Append(es, e) /\ Append(es, e)[Len(es) + 1] = e
         /\ \A i \in DOMAIN es : i \in DOMAIN Append(es, e) /\ Append(es, e)[i] = es[i]
OBVIOUS

LEMMA QuotaIsAnnounced ==
  ASSUME GovernorInv, NEW now \in ClockReadings, AnnounceQuota(Counted(now))
  PROVE  /\ events' \in Seq(Breaches)
         /\ \E i \in DOMAIN events' : events'[i][1] = "ArtifactQuota"
         /\ \A i \in DOMAIN events : i \in DOMAIN events' /\ events'[i] = events[i]
<1>. DEFINE g == Counted(now)
            e == <<"ArtifactQuota", g.windowStart>>
<1>1. g \in Governors /\ g.quotaBreached = governor.quotaBreached /\ e \in Breaches
  BY CountedOK DEF GovernorInv, Governors, Breaches
<1>2. events \in Seq(Breaches)
  BY DEF GovernorInv, GovernorOK
<1>3. CASE g.quotaBreached
  BY <1>1, <1>2, <1>3 DEF AnnounceQuota, GovernorInv, QuotaAnnounced
<1>4. CASE ~g.quotaBreached
  <2>1. events' = Append(events, e)
    BY <1>4 DEF AnnounceQuota
  <2>2. e[1] = "ArtifactQuota"
    OBVIOUS
  <2>. HIDE DEF e
  <2>. QED
    BY <1>1, <1>2, <2>1, <2>2, AppendKeeps
<1>. QED
  BY <1>3, <1>4

LEMMA RateIsAnnounced ==
  ASSUME GovernorInv, NEW now \in ClockReadings, AnnounceRate(Counted(now))
  PROVE  /\ events' \in Seq(Breaches)
         /\ \E i \in DOMAIN events' : events'[i] = <<"RateSampling", Counted(now).windowStart>>
         /\ \A i \in DOMAIN events : i \in DOMAIN events' /\ events'[i] = events[i]
<1>. DEFINE g == Counted(now)
            e == <<"RateSampling", g.windowStart>>
<1>1. g \in Governors /\ e \in Breaches
  BY CountedOK DEF GovernorInv, Governors, Breaches
<1>2. events \in Seq(Breaches)
  BY DEF GovernorInv, GovernorOK
<1>3. CASE g.rateActive
  <2>1. governor.rateActive /\ g.windowStart = governor.windowStart
    BY <1>3, CountedOK DEF GovernorInv
  <2>2. events' = events
    BY <1>3 DEF AnnounceRate
  <2>. QED
    BY <1>2, <2>1, <2>2 DEF GovernorInv, RateAnnounced
<1>4. CASE ~g.rateActive
  <2>1. events' = Append(events, e)
    BY <1>4 DEF AnnounceRate
  <2>. HIDE DEF e
  <2>2. \E i \in DOMAIN events' : events'[i] = e
    BY <1>1, <1>2, <2>1, AppendKeeps
  <2>3. /\ events' \in Seq(Breaches)
        /\ \A i \in DOMAIN events : i \in DOMAIN events' /\ events'[i] = events[i]
    BY <1>1, <1>2, <2>1, AppendKeeps
  <2>. QED
    BY <2>2, <2>3 DEF e
<1>. QED
  BY <1>3, <1>4

-----------------------------------------------------------------------------
LEMMA PushCounts ==
  ASSUME NEW line \in OutputLines, TruncateAndPush(line)
  PROVE  totalIngested' = totalIngested + 1
BY DEF TruncateAndPush, Push

LEMMA DropOK ==
  ASSUME GovernorInv, NEW line \in OutputLines, NEW now \in ClockReadings, DropOverQuota(line, now)
  PROVE  GovernorInv' /\ \E i \in DOMAIN events' : events'[i][1] = "ArtifactQuota"
<1>. DEFINE g == Counted(now)
<1>1. /\ g \in Governors
      /\ g.artifactBytes = governor.artifactBytes
      /\ g.rateActive => governor.rateActive /\ g.windowStart = governor.windowStart
  BY CountedOK DEF GovernorInv
<1>2. governor' = [g EXCEPT !.quotaBreached = TRUE] /\ AnnounceQuota(g) /\ totalIngested' = totalIngested
  BY DEF DropOverQuota
<1>3. /\ events' \in Seq(Breaches)
      /\ \E i \in DOMAIN events' : events'[i][1] = "ArtifactQuota"
      /\ \A i \in DOMAIN events : i \in DOMAIN events' /\ events'[i] = events[i]
  BY <1>2, QuotaIsAnnounced
<1>. HIDE DEF g
<1>4. /\ governor' \in Governors /\ governor'.artifactBytes = governor.artifactBytes
      /\ governor'.rateActive => governor.rateActive /\ governor'.windowStart = governor.windowStart
  BY <1>1, <1>2 DEF Governors
<1>5. GovernorOK' /\ QuotaIsKept'
  BY <1>2, <1>3, <1>4 DEF GovernorInv, GovernorOK, QuotaIsKept
<1>6. RateAnnounced(governor, events)'
  BY <1>3, <1>4 DEF GovernorInv, RateAnnounced
<1>7. QuotaAnnounced(governor, events)'
  BY <1>3 DEF QuotaAnnounced
<1>. QED
  BY <1>3, <1>5, <1>6, <1>7 DEF GovernorInv

(* The governor once a line was beyond the rate.                           *)
LEMMA MarkedOK ==
  ASSUME NEW g \in Governors, NEW n \in Nat
  PROVE  /\ [g EXCEPT !.linesSinceSample = @ + 1, !.rateActive = TRUE] \in Governors
         /\ [g EXCEPT !.linesSinceSample = @ + 1, !.rateActive = TRUE].windowStart = g.windowStart
         /\ [g EXCEPT !.linesSinceSample = @ + 1, !.rateActive = TRUE].quotaBreached = g.quotaBreached
         /\ [g EXCEPT !.linesSinceSample = @ + 1, !.rateActive = TRUE].artifactBytes = g.artifactBytes
         /\ [g EXCEPT !.linesSinceSample = @ + 1, !.rateActive = TRUE, !.artifactBytes = n] \in Governors
         /\ [g EXCEPT !.linesSinceSample = @ + 1, !.rateActive = TRUE, !.artifactBytes = n].windowStart = g.windowStart
         /\ [g EXCEPT !.linesSinceSample = @ + 1, !.rateActive = TRUE, !.artifactBytes = n].quotaBreached = g.quotaBreached
         /\ [g EXCEPT !.linesSinceSample = @ + 1, !.rateActive = TRUE, !.artifactBytes = n].artifactBytes = n
<1>. DEFINE m == g.linesSinceSample + 1
<1>1. m \in Nat
  BY DEF Governors
<1>. HIDE DEF m
<1>2. /\ [g EXCEPT !.linesSinceSample = m, !.rateActive = TRUE] \in Governors
      /\ [g EXCEPT !.linesSinceSample = m, !.rateActive = TRUE, !.artifactBytes = n] \in Governors
  BY <1>1 DEF Governors
<1>. QED
  BY <1>2 DEF m, Governors

(* A line beyond the rate, sampled out or kept.                            *)
LEMMA SampledOK ==
  ASSUME GovernorInv, NEW line \in OutputLines, NEW now \in ClockReadings,
         SampleOut(line, now) \/ StoreSampled(line, now)
  PROVE  GovernorInv' /\ \E i \in DOMAIN events' : events'[i] = <<"RateSampling", governor'.windowStart>>
<1>. DEFINE g == Counted(now)
<1>1. /\ g \in Governors
      /\ g.quotaBreached = governor.quotaBreached /\ g.artifactBytes = governor.artifactBytes
  BY CountedOK DEF GovernorInv
<1>2. AnnounceRate(g) /\ totalIngested' \in Nat
  <2>1. totalIngested' = totalIngested \/ totalIngested' = totalIngested + 1
    BY PushCounts DEF SampleOut, StoreSampled
  <2>. QED
    BY <2>1 DEF SampleOut, StoreSampled, GovernorInv, GovernorOK
<1>3. /\ events' \in Seq(Breaches)
      /\ \E i \in DOMAIN events' : events'[i] = <<"RateSampling", g.windowStart>>
      /\ \A i \in DOMAIN events : i \in DOMAIN events' /\ events'[i] = events[i]
  BY <1>2, RateIsAnnounced
<1>4. /\ governor' \in Governors /\ governor'.windowStart = g.windowStart
      /\ governor'.quotaBreached = governor.quotaBreached
      /\ governor'.artifactBytes <= ArtifactQuota
  <2>1. ASSUME SampleOut(line, now)
        PROVE  /\ governor' = [g EXCEPT !.linesSinceSample = @ + 1, !.rateActive = TRUE]
               /\ g.artifactBytes <= ArtifactQuota
    BY <1>1, <2>1 DEF SampleOut, GovernorInv, QuotaIsKept
  <2>2. ASSUME StoreSampled(line, now)
        PROVE  /\ governor' = [g EXCEPT !.linesSinceSample = @ + 1, !.rateActive = TRUE,
                                        !.artifactBytes = g.artifactBytes + line.bytes]
               /\ ~(g.artifactBytes + line.bytes > ArtifactQuota) /\ line.bytes \in Nat
    BY <2>2, CaptureInputAssumption DEF StoreSampled, OverQuota
  <2>. HIDE DEF g
  <2>3. CASE SampleOut(line, now)
    BY <1>1, <2>1, <2>3, MarkedOK
  <2>4. CASE StoreSampled(line, now)
    <3>1. g.artifactBytes + line.bytes \in Nat /\ g.artifactBytes + line.bytes <= ArtifactQuota
      BY <1>1, <2>2, <2>4, CaptureCapsAssumption DEF Governors
    <3>. DEFINE n == g.artifactBytes + line.bytes
    <3>2. governor' = [g EXCEPT !.linesSinceSample = @ + 1, !.rateActive = TRUE, !.artifactBytes = n]
      BY <2>2, <2>4
    <3>. HIDE DEF n
    <3>3. n \in Nat /\ n <= ArtifactQuota
      BY <3>1 DEF n
    <3>. QED
      BY <1>1, <3>2, <3>3, MarkedOK
  <2>. QED
    BY <2>3, <2>4
<1>5. GovernorOK' /\ QuotaIsKept'
  BY <1>2, <1>3, <1>4 DEF GovernorOK, QuotaIsKept
<1>6. RateAnnounced(governor, events)' /\ QuotaAnnounced(governor, events)'
  BY <1>3, <1>4 DEF GovernorInv, RateAnnounced, QuotaAnnounced
<1>. QED
  BY <1>3, <1>4, <1>5, <1>6 DEF GovernorInv

LEMMA StoreOK ==
  ASSUME GovernorInv, NEW line \in OutputLines, NEW now \in ClockReadings, Store(line, now)
  PROVE  GovernorInv' /\ totalIngested' # totalIngested
<1>. DEFINE g == Counted(now)
<1>1. /\ g \in Governors /\ g.quotaBreached = governor.quotaBreached
      /\ g.rateActive => governor.rateActive /\ g.windowStart = governor.windowStart
  BY CountedOK DEF GovernorInv
<1>2. /\ governor' = [g EXCEPT !.artifactBytes = @ + line.bytes]
      /\ ~(g.artifactBytes + line.bytes > ArtifactQuota) /\ line.bytes \in Nat /\ events' = events
  BY CaptureInputAssumption DEF Store, OverQuota
<1>3. totalIngested' = totalIngested + 1 /\ totalIngested \in Nat
  BY PushCounts DEF Store, GovernorInv, GovernorOK
<1>. HIDE DEF g
<1>4. /\ governor' \in Governors /\ governor'.artifactBytes <= ArtifactQuota
      /\ governor'.quotaBreached = governor.quotaBreached
      /\ governor'.rateActive => governor.rateActive /\ governor'.windowStart = governor.windowStart
  BY <1>1, <1>2, CaptureCapsAssumption DEF Governors
<1>. QED
  BY <1>2, <1>3, <1>4 DEF GovernorInv, GovernorOK, QuotaIsKept, QuotaAnnounced, RateAnnounced

LEMMA GovernorStepOK ==
  GovernorInv /\ [CaptureNext]_captureVars =>
    /\ GovernorInv'
    /\ (ingested' # ingested /\ totalIngested' = totalIngested) =>
         \E i \in DOMAIN events' :
            events'[i][1] = "ArtifactQuota" \/ events'[i] = <<"RateSampling", governor'.windowStart>>
<1>. SUFFICES ASSUME GovernorInv, [CaptureNext]_captureVars
              PROVE  /\ GovernorInv'
                     /\ (ingested' # ingested /\ totalIngested' = totalIngested) =>
                          \E i \in DOMAIN events' :
                             events'[i][1] = "ArtifactQuota" \/ events'[i] = <<"RateSampling", governor'.windowStart>>
  OBVIOUS
<1>1. ASSUME NEW line \in OutputLines, NEW now \in ClockReadings, IngestLine(line, now)
      PROVE  /\ GovernorInv'
             /\ totalIngested' = totalIngested =>
                  \E i \in DOMAIN events' :
                     events'[i][1] = "ArtifactQuota" \/ events'[i] = <<"RateSampling", governor'.windowStart>>
  <2>1. CASE DropOverQuota(line, now)
    BY <2>1, DropOK
  <2>2. CASE SampleOut(line, now) \/ StoreSampled(line, now)
    BY <2>2, SampledOK
  <2>3. CASE Store(line, now)
    BY <2>3, StoreOK
  <2>. QED
    BY <1>1, <2>1, <2>2, <2>3 DEF IngestLine
<1>2. CASE TakeEvicted
  BY <1>2 DEF TakeEvicted, GovernorInv, GovernorOK, QuotaIsKept, QuotaAnnounced, RateAnnounced
<1>3. CASE UNCHANGED captureVars
  BY <1>3 DEF captureVars, GovernorInv, GovernorOK, QuotaIsKept, QuotaAnnounced, RateAnnounced
<1>. QED
  BY <1>1, <1>2, <1>3 DEF CaptureNext

(* What is persisted of a provider's output never exceeds the quota        *)
(* (governance.rs:95), whatever it prints.                                 *)
THEOREM QuotaHolds == CaptureSpec => []QuotaIsKept
<1>1. GovernorInv => QuotaIsKept
  BY DEF GovernorInv
<1>. QED
  BY GovernorInitOK, GovernorStepOK, <1>1, PTL DEF CaptureSpec

(* No line is dropped in silence (governance.rs:95): for any limits, any   *)
(* lines, and a clock that may step back.                                  *)
THEOREM NoSilentDrop == CaptureSpec => DropsAreAnnounced
<1>1. GovernorInv /\ [CaptureNext]_captureVars =>
        [(ingested' # ingested /\ totalIngested' = totalIngested) =>
           \E i \in DOMAIN events' :
              \/ events'[i][1] = "ArtifactQuota"
              \/ events'[i] = <<"RateSampling", governor'.windowStart>>]_captureVars
  BY GovernorStepOK
<1>. QED
  BY GovernorInitOK, GovernorStepOK, <1>1, PTL DEF CaptureSpec, DropsAreAnnounced

-----------------------------------------------------------------------------
(* Sums over the ring: a fold is the last of its partial sums.             *)

LEMMA BytesAdd ==
  ASSUME NEW s, NEW n \in Nat, DOMAIN s = 1..n, \A k \in 1..n : s[k].bytes \in Nat
  PROVE  \E w \in [0..n -> Nat] :
           w[0] = 0 /\ (\A k \in 1..n : w[k] = w[k - 1] + s[k].bytes) /\ SumBytes(s) = w[n]
<1>. DEFINE step == [k \in 1..n |-> [v \in Nat |-> v + s[k].bytes]]
            Unrolled(h, S) == IF S = {} THEN 0 ELSE h[S \ {Max(S)}] + s[Max(S)].bytes
            iter[S \in SUBSET (1..n)] ==
              IF S = {} THEN 0 ELSE iter[S \ {Max(S)}] + s[Max(S)].bytes
<1>1. PICK g \in [SUBSET (1..n) -> Nat] : FromTheEnd(g, n, 0, step)
  <2>1. step \in [1..n -> [Nat -> Nat]] /\ 0 \in Nat
    OBVIOUS
  <2>. HIDE DEF step
  <2>. QED
    BY <2>1, FromTheEndExists
<1>2. SumBytes(s) = iter[1..n]
  BY DEF SumBytes, FoldLeft, MapThenFoldSet
<1>3. \A S \in SUBSET (1..n) : g[S] = Unrolled(g, S)
  BY <1>1 DEF FromTheEnd
<1>4. g = [S \in SUBSET (1..n) |-> Unrolled(g, S)]
  BY <1>3
<1>5. iter = [S \in SUBSET (1..n) |-> Unrolled(iter, S)]
  <2>. HIDE DEF Unrolled
  <2>. QED
    BY <1>4, Zenon DEF Unrolled
<1>. HIDE DEF iter
<1>6. \A S \in SUBSET (1..n) : iter[S] = Unrolled(iter, S)
  <2>. HIDE DEF Unrolled
  <2>. QED
    BY <1>5, Zenon
<1>7. ASSUME NEW k \in 1..n
      PROVE  g[1..k] = g[1..(k - 1)] + s[k].bytes /\ iter[1..k] = iter[1..(k - 1)] + s[k].bytes
  <2>1. /\ 1..k \in SUBSET (1..n) /\ 1..k # {}
        /\ Max(1..k) = k /\ (1..k) \ {k} = 1..(k - 1)
    BY FirstPlaces
  <2>2. g[1..k] = Unrolled(g, 1..k) /\ iter[1..k] = Unrolled(iter, 1..k)
    BY <1>3, <1>6, <2>1
  <2>. QED
    BY <2>1, <2>2
<1>. HIDE DEF Unrolled, step
<1>8. iter[1..n] = g[1..n]
  <2>1. iter[{}] = g[{}]
    BY <1>3, <1>6 DEF Unrolled
  <2>2. \A k \in 1..n : iter[1..(k - 1)] = g[1..(k - 1)] => iter[1..k] = g[1..k]
    BY <1>7
  <2>. QED
    BY ONLY <2>1, <2>2, n \in Nat, SameFold
<1>. DEFINE w == [k \in 0..n |-> g[1..k]]
<1>9. w[0] = 0
  <2>1. 1..0 = {} /\ {} \in SUBSET (1..n) /\ 0 \in 0..n
    OBVIOUS
  <2>. QED
    BY <1>3, <2>1 DEF Unrolled
<1>10. ASSUME NEW k \in 1..n PROVE w[k] = w[k - 1] + s[k].bytes
  <2>1. k \in 0..n /\ k - 1 \in 0..n
    OBVIOUS
  <2>. QED
    BY <1>7, <2>1
<1>11. w \in [0..n -> Nat] /\ SumBytes(s) = w[n]
  <2>1. \A k \in 0..n : 1..k \in SUBSET (1..n)
    OBVIOUS
  <2>. QED
    BY <1>2, <1>8, <2>1
<1>. QED
  BY <1>9, <1>10, <1>11

LEMMA RowsAdd ==
  ASSUME NEW s, NEW n \in Nat, DOMAIN s = 1..n, \A k \in 1..n : s[k].rows \in Nat
  PROVE  \E w \in [0..n -> Nat] :
           w[0] = 0 /\ (\A k \in 1..n : w[k] = w[k - 1] + s[k].rows) /\ SumRows(s) = w[n]
<1>. DEFINE step == [k \in 1..n |-> [v \in Nat |-> v + s[k].rows]]
            Unrolled(h, S) == IF S = {} THEN 0 ELSE h[S \ {Max(S)}] + s[Max(S)].rows
            iter[S \in SUBSET (1..n)] ==
              IF S = {} THEN 0 ELSE iter[S \ {Max(S)}] + s[Max(S)].rows
<1>1. PICK g \in [SUBSET (1..n) -> Nat] : FromTheEnd(g, n, 0, step)
  <2>1. step \in [1..n -> [Nat -> Nat]] /\ 0 \in Nat
    OBVIOUS
  <2>. HIDE DEF step
  <2>. QED
    BY <2>1, FromTheEndExists
<1>2. SumRows(s) = iter[1..n]
  BY DEF SumRows, FoldLeft, MapThenFoldSet
<1>3. \A S \in SUBSET (1..n) : g[S] = Unrolled(g, S)
  BY <1>1 DEF FromTheEnd
<1>4. g = [S \in SUBSET (1..n) |-> Unrolled(g, S)]
  BY <1>3
<1>5. iter = [S \in SUBSET (1..n) |-> Unrolled(iter, S)]
  <2>. HIDE DEF Unrolled
  <2>. QED
    BY <1>4, Zenon DEF Unrolled
<1>. HIDE DEF iter
<1>6. \A S \in SUBSET (1..n) : iter[S] = Unrolled(iter, S)
  <2>. HIDE DEF Unrolled
  <2>. QED
    BY <1>5, Zenon
<1>7. ASSUME NEW k \in 1..n
      PROVE  g[1..k] = g[1..(k - 1)] + s[k].rows /\ iter[1..k] = iter[1..(k - 1)] + s[k].rows
  <2>1. /\ 1..k \in SUBSET (1..n) /\ 1..k # {}
        /\ Max(1..k) = k /\ (1..k) \ {k} = 1..(k - 1)
    BY FirstPlaces
  <2>2. g[1..k] = Unrolled(g, 1..k) /\ iter[1..k] = Unrolled(iter, 1..k)
    BY <1>3, <1>6, <2>1
  <2>. QED
    BY <2>1, <2>2
<1>. HIDE DEF Unrolled, step
<1>8. iter[1..n] = g[1..n]
  <2>1. iter[{}] = g[{}]
    BY <1>3, <1>6 DEF Unrolled
  <2>2. \A k \in 1..n : iter[1..(k - 1)] = g[1..(k - 1)] => iter[1..k] = g[1..k]
    BY <1>7
  <2>. QED
    BY ONLY <2>1, <2>2, n \in Nat, SameFold
<1>. DEFINE w == [k \in 0..n |-> g[1..k]]
<1>9. w[0] = 0
  <2>1. 1..0 = {} /\ {} \in SUBSET (1..n) /\ 0 \in 0..n
    OBVIOUS
  <2>. QED
    BY <1>3, <2>1 DEF Unrolled
<1>10. ASSUME NEW k \in 1..n PROVE w[k] = w[k - 1] + s[k].rows
  <2>1. k \in 0..n /\ k - 1 \in 0..n
    OBVIOUS
  <2>. QED
    BY <1>7, <2>1
<1>11. w \in [0..n -> Nat] /\ SumRows(s) = w[n]
  <2>1. \A k \in 0..n : 1..k \in SUBSET (1..n)
    OBVIOUS
  <2>. QED
    BY <1>2, <1>8, <2>1
<1>. QED
  BY <1>9, <1>10, <1>11

-----------------------------------------------------------------------------
(* Sums over the entries of the ring.                                      *)

(* A running sum of f over n places.                                       *)
Adds(w, n, f) == w \in [0..n -> Nat] /\ f \in [1..n -> Nat] /\ w[0] = 0 /\ \A k \in 1..n : w[k] = w[k - 1] + f[k]

(* h is f on the first n places and g on the m places behind them.         *)
InARow(h, f, n, g, m) == (\A k \in 1..n : h[k] = f[k]) /\ \A k \in 1..m : h[n + k] = g[k]

(* The sum over one run of places after another is the sum of their sums.  *)
LEMMA AddsJoin ==
  ASSUME NEW n \in Nat, NEW m \in Nat, NEW l, l = n + m,
         NEW f, NEW g, NEW h, NEW w, NEW v, NEW u,
         Adds(w, n, f), Adds(v, m, g), Adds(u, l, h),
         InARow(h, f, n, g, m)
  PROVE  u[l] = w[n] + v[m]
<1>. DEFINE P == {k \in 0..n : u[k] = w[k]}
            Q == {k \in 0..m : u[n + k] = w[n] + v[k]}
<1>1. /\ w[0] = 0 /\ v[0] = 0 /\ u[0] = 0
      /\ \A k \in 1..n : w[k] = w[k - 1] + f[k]
      /\ \A k \in 1..m : v[k] = v[k - 1] + g[k]
      /\ \A k \in 1..(n + m) : u[k] = u[k - 1] + h[k]
      /\ (\A k \in 1..n : h[k] = f[k]) /\ \A k \in 1..m : h[n + k] = g[k]
  BY DEF Adds, InARow
<1>2. w[n] \in Nat /\ (\A k \in 0..m : v[k] \in Nat) /\ \A k \in 1..m : g[k] \in Nat
  <2>1. w \in [0..n -> Nat] /\ v \in [0..m -> Nat] /\ g \in [1..m -> Nat]
    BY DEF Adds
  <2>2. n \in 0..n
    OBVIOUS
  <2>. QED
    BY <2>1, <2>2
<1>3. \A k \in 0..(n - 1) : k \in P => k + 1 \in P
  <2>. SUFFICES ASSUME NEW k \in 0..(n - 1), u[k] = w[k] PROVE u[k + 1] = w[k + 1]
    OBVIOUS
  <2>1. k + 1 \in 1..n /\ k + 1 \in 1..(n + m) /\ (k + 1) - 1 = k
    OBVIOUS
  <2>. QED
    BY <1>1, <2>1
<1>4. 0 \in P
  BY <1>1
<1>5. n \in P
  <2>. HIDE DEF P
  <2>1. \A k \in 0..n : k \in P
    BY ONLY <1>3, <1>4, n \in Nat, UpTo
  <2>. QED
    BY <2>1
<1>6. \A k \in 0..(m - 1) : k \in Q => k + 1 \in Q
  <2>. SUFFICES ASSUME NEW k \in 0..(m - 1), u[n + k] = w[n] + v[k] PROVE u[n + (k + 1)] = w[n] + v[k + 1]
    OBVIOUS
  <2>1. k + 1 \in 1..m /\ n + (k + 1) \in 1..(n + m) /\ (k + 1) - 1 = k /\ (n + (k + 1)) - 1 = n + k /\ k \in 0..m
    OBVIOUS
  <2>2. v[k + 1] = v[k] + g[k + 1] /\ u[n + (k + 1)] = u[n + k] + g[k + 1]
    BY <1>1, <2>1
  <2>3. v[k] \in Nat /\ w[n] \in Nat /\ g[k + 1] \in Nat
    BY <1>2, <2>1
  <2>4. (w[n] + v[k]) + g[k + 1] = w[n] + (v[k] + g[k + 1])
    BY <2>3
  <2>. QED
    BY <2>2, <2>4, Zenon
<1>7. 0 \in Q
  <2>1. n + 0 = n /\ u[n] = w[n] /\ w[n] \in Nat /\ v[0] = 0
    BY <1>1, <1>2, <1>5
  <2>2. 0 \in 0..m /\ u[n + 0] = w[n] + v[0]
    BY <2>1
  <2>. QED
    BY <2>2
<1>8. m \in Q
  <2>. HIDE DEF Q
  <2>1. \A k \in 0..m : k \in Q
    BY ONLY <1>6, <1>7, m \in Nat, UpTo
  <2>. QED
    BY <2>1
<1>. QED
  BY <1>8

LEMMA BytesJoin ==
  ASSUME NEW S, \A e \in S : e.bytes \in Nat, NEW a \in Seq(S), NEW b \in Seq(S)
  PROVE  /\ SumBytes(a) \in Nat /\ SumBytes(a \o b) = SumBytes(a) + SumBytes(b)
         /\ SumBytes(<<>>) = 0 /\ \A e \in S : SumBytes(<<e>>) = e.bytes
<1>. DEFINE Of(s) == [k \in 1..Len(s) |-> s[k].bytes]
<1>1. ASSUME NEW s \in Seq(S) PROVE \E w : Adds(w, Len(s), Of(s)) /\ SumBytes(s) = w[Len(s)]
  <2>1. Len(s) \in Nat /\ DOMAIN s = 1..Len(s) /\ \A k \in 1..Len(s) : s[k].bytes \in Nat
    OBVIOUS
  <2>2. PICK w \in [0..Len(s) -> Nat] :
          w[0] = 0 /\ (\A k \in 1..Len(s) : w[k] = w[k - 1] + s[k].bytes) /\ SumBytes(s) = w[Len(s)]
    BY <2>1, BytesAdd
  <2>3. Adds(w, Len(s), Of(s))
    BY <2>2 DEF Adds
  <2>. QED
    BY <2>2, <2>3
<1>2. SumBytes(a) \in Nat
  <2>1. Len(a) \in Nat /\ Len(a) \in 0..Len(a)
    OBVIOUS
  <2>. HIDE DEF Of
  <2>2. PICK w : Adds(w, Len(a), Of(a)) /\ SumBytes(a) = w[Len(a)]
    BY <1>1
  <2>3. w \in [0..Len(a) -> Nat]
    BY <2>2 DEF Adds
  <2>. QED
    BY <2>1, <2>2, <2>3
<1>3. SumBytes(a \o b) = SumBytes(a) + SumBytes(b)
  <2>1. a \o b \in Seq(S) /\ Len(a \o b) = Len(a) + Len(b)
    OBVIOUS
  <2>9. Len(a) \in Nat /\ Len(b) \in Nat
    OBVIOUS
  <2>2. InARow(Of(a \o b), Of(a), Len(a), Of(b), Len(b))
    BY DEF InARow
  <2>. HIDE DEF Of
  <2>3. PICK w : Adds(w, Len(a), Of(a)) /\ SumBytes(a) = w[Len(a)]
    BY <1>1
  <2>4. PICK v : Adds(v, Len(b), Of(b)) /\ SumBytes(b) = v[Len(b)]
    BY <1>1
  <2>5. PICK u : Adds(u, Len(a \o b), Of(a \o b)) /\ SumBytes(a \o b) = u[Len(a \o b)]
    BY <1>1, <2>1
  <2>6. u[Len(a \o b)] = w[Len(a)] + v[Len(b)]
    BY ONLY <2>1, <2>2, <2>3, <2>4, <2>5, <2>9, AddsJoin
  <2>. QED
    BY <2>3, <2>4, <2>5, <2>6
<1>4. ASSUME NEW e \in S PROVE SumBytes(<<e>>) = e.bytes
  <2>1. <<e>> \in Seq(S) /\ Len(<<e>>) = 1 /\ Of(<<e>>)[1] = e.bytes /\ e.bytes \in Nat
    OBVIOUS
  <2>. HIDE DEF Of
  <2>2. PICK w : Adds(w, 1, Of(<<e>>)) /\ SumBytes(<<e>>) = w[1]
    BY <1>1, <2>1
  <2>. QED
    BY <2>1, <2>2 DEF Adds
<1>5. SumBytes(<<>>) = 0
  <2>1. <<>> \in Seq(S) /\ Len(<<>>) = 0
    OBVIOUS
  <2>2. PICK w : Adds(w, 0, Of(<<>>)) /\ SumBytes(<<>>) = w[0]
    BY <1>1, <2>1
  <2>. QED
    BY <2>2 DEF Adds
<1>. QED
  BY <1>2, <1>3, <1>4, <1>5

LEMMA RowsJoin ==
  ASSUME NEW S, \A e \in S : e.rows \in Nat, NEW a \in Seq(S), NEW b \in Seq(S)
  PROVE  /\ SumRows(a) \in Nat /\ SumRows(a \o b) = SumRows(a) + SumRows(b)
         /\ SumRows(<<>>) = 0 /\ \A e \in S : SumRows(<<e>>) = e.rows
<1>. DEFINE Of(s) == [k \in 1..Len(s) |-> s[k].rows]
<1>1. ASSUME NEW s \in Seq(S) PROVE \E w : Adds(w, Len(s), Of(s)) /\ SumRows(s) = w[Len(s)]
  <2>1. Len(s) \in Nat /\ DOMAIN s = 1..Len(s) /\ \A k \in 1..Len(s) : s[k].rows \in Nat
    OBVIOUS
  <2>2. PICK w \in [0..Len(s) -> Nat] :
          w[0] = 0 /\ (\A k \in 1..Len(s) : w[k] = w[k - 1] + s[k].rows) /\ SumRows(s) = w[Len(s)]
    BY <2>1, RowsAdd
  <2>3. Adds(w, Len(s), Of(s))
    BY <2>2 DEF Adds
  <2>. QED
    BY <2>2, <2>3
<1>2. SumRows(a) \in Nat
  <2>1. Len(a) \in Nat /\ Len(a) \in 0..Len(a)
    OBVIOUS
  <2>. HIDE DEF Of
  <2>2. PICK w : Adds(w, Len(a), Of(a)) /\ SumRows(a) = w[Len(a)]
    BY <1>1
  <2>3. w \in [0..Len(a) -> Nat]
    BY <2>2 DEF Adds
  <2>. QED
    BY <2>1, <2>2, <2>3
<1>3. SumRows(a \o b) = SumRows(a) + SumRows(b)
  <2>1. a \o b \in Seq(S) /\ Len(a \o b) = Len(a) + Len(b)
    OBVIOUS
  <2>9. Len(a) \in Nat /\ Len(b) \in Nat
    OBVIOUS
  <2>2. InARow(Of(a \o b), Of(a), Len(a), Of(b), Len(b))
    BY DEF InARow
  <2>. HIDE DEF Of
  <2>3. PICK w : Adds(w, Len(a), Of(a)) /\ SumRows(a) = w[Len(a)]
    BY <1>1
  <2>4. PICK v : Adds(v, Len(b), Of(b)) /\ SumRows(b) = v[Len(b)]
    BY <1>1
  <2>5. PICK u : Adds(u, Len(a \o b), Of(a \o b)) /\ SumRows(a \o b) = u[Len(a \o b)]
    BY <1>1, <2>1
  <2>6. u[Len(a \o b)] = w[Len(a)] + v[Len(b)]
    BY ONLY <2>1, <2>2, <2>3, <2>4, <2>5, <2>9, AddsJoin
  <2>. QED
    BY <2>3, <2>4, <2>5, <2>6
<1>4. ASSUME NEW e \in S PROVE SumRows(<<e>>) = e.rows
  <2>1. <<e>> \in Seq(S) /\ Len(<<e>>) = 1 /\ Of(<<e>>)[1] = e.rows /\ e.rows \in Nat
    OBVIOUS
  <2>. HIDE DEF Of
  <2>2. PICK w : Adds(w, 1, Of(<<e>>)) /\ SumRows(<<e>>) = w[1]
    BY <1>1, <2>1
  <2>. QED
    BY <2>1, <2>2 DEF Adds
<1>5. SumRows(<<>>) = 0
  <2>1. <<>> \in Seq(S) /\ Len(<<>>) = 0
    OBVIOUS
  <2>2. PICK w : Adds(w, 0, Of(<<>>)) /\ SumRows(<<>>) = w[0]
    BY <1>1, <2>1
  <2>. QED
    BY <2>2 DEF Adds
<1>. QED
  BY <1>2, <1>3, <1>4, <1>5

-----------------------------------------------------------------------------
(* The ring.                                                               *)

EntryKinds == {"Text", "Repeated", "Truncated"}
LineTexts  == {l.text : l \in OutputLines}

RingEntries == [kind : EntryKinds, text : LineTexts, rows : Nat, bytes : Nat]

RingInv ==
  /\ lines \in Seq(RingEntries) /\ evicted \in Seq(RingEntries)
  /\ totalIngested \in Nat /\ spilled \in Nat
  /\ residentBytes = SumBytes(lines)
  /\ CapsHold /\ RowsAreConserved

LEMMA RingSums ==
  /\ \A a \in Seq(RingEntries), b \in Seq(RingEntries) :
       /\ SumBytes(a) \in Nat /\ SumRows(a) \in Nat
       /\ SumBytes(a \o b) = SumBytes(a) + SumBytes(b)
       /\ SumRows(a \o b) = SumRows(a) + SumRows(b)
  /\ SumBytes(<<>>) = 0 /\ SumRows(<<>>) = 0
  /\ \A e \in RingEntries : SumBytes(<<e>>) = e.bytes /\ SumRows(<<e>>) = e.rows
<1>1. \A e \in RingEntries : e.bytes \in Nat /\ e.rows \in Nat
  BY DEF RingEntries
<1>2. <<>> \in Seq(RingEntries)
  OBVIOUS
<1>3. ASSUME NEW a \in Seq(RingEntries), NEW b \in Seq(RingEntries)
      PROVE  /\ SumBytes(a) \in Nat /\ SumBytes(a \o b) = SumBytes(a) + SumBytes(b)
             /\ SumBytes(<<>>) = 0 /\ \A e \in RingEntries : SumBytes(<<e>>) = e.bytes
  BY ONLY <1>1, <1>3, BytesJoin
<1>4. ASSUME NEW a \in Seq(RingEntries), NEW b \in Seq(RingEntries)
      PROVE  /\ SumRows(a) \in Nat /\ SumRows(a \o b) = SumRows(a) + SumRows(b)
             /\ SumRows(<<>>) = 0 /\ \A e \in RingEntries : SumRows(<<e>>) = e.rows
  BY ONLY <1>1, <1>4, RowsJoin
<1>. QED
  BY <1>2, <1>3, <1>4

(* The least number of entries whose eviction satisfies both caps.         *)
LEMMA EvictOK ==
  ASSUME NEW es \in Seq(RingEntries), evicted \in Seq(RingEntries), NEW b, b = SumBytes(es),
         EnforceCaps(es, b)
  PROVE  /\ lines' \in Seq(RingEntries) /\ evicted' \in Seq(RingEntries)
         /\ residentBytes' = SumBytes(lines') /\ CapsHold'
         /\ SumRows(lines') + SumRows(evicted') = SumRows(es) + SumRows(evicted)
<1>1. Len(es) \in Nat /\ MaxLines \in Nat /\ MaxBytes \in Nat
  BY CaptureCapsAssumption
<1>. DEFINE Fit == {k \in 0..Len(es) : Evictable(es, b, k)}
            k == CHOOSE k \in 0..Len(es) :
                   Evictable(es, b, k) /\ \A j \in 0..(k - 1) : ~Evictable(es, b, j)
            out == SubSeq(es, 1, k)
<1>2. \E n \in 0..Len(es) : Evictable(es, b, n) /\ \A j \in 0..(n - 1) : ~Evictable(es, b, j)
  <2>1. Len(es) \in Fit
    BY <1>1 DEF Evictable
  <2>2. Fit \subseteq Nat /\ Fit # {}
    BY <1>1, <2>1
  <2>. HIDE DEF Fit
  <2>3. PICK n \in Fit : \A m \in Fit : n <= m
    BY <2>2, LeastNat
  <2>4. \A j \in 0..(n - 1) : j \notin Fit
    BY <2>2, <2>3
  <2>. QED
    BY <1>1, <2>3, <2>4 DEF Fit
<1>3. k \in 0..Len(es) /\ Evictable(es, b, k)
  BY <1>2
<1>4. lines' = SubSeq(es, k + 1, Len(es)) /\ residentBytes' = b - SumBytes(out) /\ evicted' = evicted \o out
  BY DEF EnforceCaps
<1>. HIDE DEF k
<1>5. out \in Seq(RingEntries) /\ lines' \in Seq(RingEntries) /\ Len(lines') = Len(es) - k
  BY <1>1, <1>3, <1>4
<1>6. es = out \o lines'
  <2>1. /\ 1 \in 1..(Len(es) + 1) /\ k \in (1 - 1)..Len(es) /\ Len(es) \in k..Len(es)
    BY <1>1, <1>3
  <2>2. out \o SubSeq(es, k + 1, Len(es)) = SubSeq(es, 1, Len(es))
    BY <2>1, ConcatAdjacentSubSeq
  <2>3. SubSeq(es, 1, Len(es)) = es
    BY SubSeqFull
  <2>. QED
    BY <1>4, <2>2, <2>3
<1>7. /\ Len(es) - k <= MaxLines
      /\ b - SumBytes(out) <= MaxBytes \/ Len(es) - k <= 1
  BY <1>3 DEF Evictable
<1>. HIDE DEF out
<1>8. /\ SumBytes(es) = SumBytes(out) + SumBytes(lines') /\ SumRows(es) = SumRows(out) + SumRows(lines')
      /\ SumBytes(out) \in Nat /\ SumBytes(lines') \in Nat /\ SumRows(out) \in Nat /\ SumRows(lines') \in Nat
      /\ SumRows(evicted) \in Nat /\ SumRows(evicted') = SumRows(evicted) + SumRows(out)
      /\ evicted' \in Seq(RingEntries)
  <2>1. \A a \in Seq(RingEntries), c \in Seq(RingEntries) :
           /\ SumBytes(a) \in Nat /\ SumRows(a) \in Nat
           /\ SumBytes(a \o c) = SumBytes(a) + SumBytes(c)
           /\ SumRows(a \o c) = SumRows(a) + SumRows(c)
    BY RingSums
  <2>. HIDE DEF out
  <2>2. evicted' \in Seq(RingEntries)
    BY <1>4, <1>5
  <2>3. SumBytes(out \o lines') = SumBytes(out) + SumBytes(lines') /\ SumRows(out \o lines') = SumRows(out) + SumRows(lines')
        /\ SumBytes(out) \in Nat /\ SumRows(out) \in Nat
    BY ONLY <1>5, <2>1, Zenon
  <2>4. SumBytes(lines') \in Nat /\ SumRows(lines') \in Nat
    BY ONLY <1>5, <2>1, Zenon
  <2>5. SumRows(evicted) \in Nat /\ SumRows(evicted \o out) = SumRows(evicted) + SumRows(out)
    BY <1>5, <2>1, Zenon
  <2>. QED
    BY <1>4, <1>6, <2>2, <2>3, <2>4, <2>5, Zenon
<1>9. residentBytes' = SumBytes(lines')
  BY <1>4, <1>8
<1>10. SumRows(lines') + SumRows(evicted') = SumRows(es) + SumRows(evicted)
  BY <1>8
<1>11. CapsHold'
  BY <1>4, <1>5, <1>7, <1>9 DEF CapsHold
<1>. QED
  BY <1>5, <1>8, <1>9, <1>10, <1>11

LEMMA AppendedAt ==
  ASSUME NEW S, NEW n \in Nat, NEW a \in Seq(S), NEW b \in Seq(S), Len(a) = n, Len(b) = n + 1,
         NEW e \in S, b[n + 1] = e, \A i \in 1..n : b[i] = a[i]
  PROVE  b = a \o <<e>>
<1>1. a \o <<e>> \in Seq(S) /\ Len(a \o <<e>>) = n + 1
  OBVIOUS
<1>2. (a \o <<e>>)[n + 1] = e /\ \A i \in 1..n : (a \o <<e>>)[i] = a[i]
  OBVIOUS
<1>3. \A i \in 1..(n + 1) : b[i] = (a \o <<e>>)[i]
  BY <1>2
<1>. QED
  BY <1>1, <1>3, SeqEqual

(* The second sequence is the first one with its last place replaced.      *)
LastPlace(s, r, n, e, f) ==
  /\ Len(s) = n + 1 /\ Len(r) = n + 1 /\ s[n + 1] = e /\ r[n + 1] = f
  /\ \A i \in 1..n : r[i] = s[i]

SameFront(front, s, r, e, f) == s = front \o <<e>> /\ r = front \o <<f>>

LEMMA LastReplaced ==
  ASSUME NEW S, NEW n \in Nat, NEW s \in Seq(S), NEW r \in Seq(S), NEW e \in S, NEW f \in S,
         LastPlace(s, r, n, e, f)
  PROVE  \E front \in Seq(S) : SameFront(front, s, r, e, f)
<1>1. /\ Len(s) = n + 1 /\ Len(r) = n + 1 /\ s[n + 1] = e /\ r[n + 1] = f
      /\ \A i \in 1..n : r[i] = s[i]
  BY DEF LastPlace
<1>2. \A i \in 1..n : s[i] \in S
  BY <1>1
<1>. DEFINE front == [i \in 1..n |-> s[i]]
<1>3. front \in Seq(S) /\ Len(front) = n /\ \A i \in 1..n : front[i] = s[i]
  BY <1>2
<1>. HIDE DEF front
<1>4. s = front \o <<e>>
  BY ONLY n \in Nat, s \in Seq(S), e \in S, <1>1, <1>3, AppendedAt
<1>5. r = front \o <<f>>
  <2>1. \A i \in 1..n : r[i] = front[i]
    BY <1>1, <1>3
  <2>. QED
    BY ONLY n \in Nat, r \in Seq(S), f \in S, <1>1, <1>3, <2>1, AppendedAt
<1>6. SameFront(front, s, r, e, f)
  BY <1>4, <1>5 DEF SameFront
<1>. QED
  BY <1>3, <1>6

(* A repeated line changes the last entry's kind and its count of rows.     *)
LEMMA RepeatedEntry ==
  ASSUME NEW e \in RingEntries
  PROVE  /\ Repeated(e) \in RingEntries
         /\ Repeated(e).bytes = e.bytes /\ Repeated(e).rows = e.rows + 1 /\ e.rows \in Nat
<1>1. e.text \in LineTexts /\ e.rows \in Nat /\ e.bytes \in Nat /\ "Repeated" \in EntryKinds
  BY DEF RingEntries, EntryKinds
<1>2. Repeated(e) = [kind |-> "Repeated", text |-> e.text, rows |-> e.rows + 1, bytes |-> e.bytes]
  <2>1. e \in [kind : EntryKinds, text : LineTexts, rows : Nat, bytes : Nat]
    BY DEF RingEntries
  <2>2. PICK f : f = Repeated(e)
    OBVIOUS
  <2>3. f = [e EXCEPT !.kind = "Repeated", !.rows = @ + 1]
    BY <2>2 DEF Repeated
  <2>4. f = [kind |-> "Repeated", text |-> e.text, rows |-> e.rows + 1, bytes |-> e.bytes]
    BY <1>1, <2>1, <2>3
  <2>. QED
    BY <2>2, <2>4
<1>. QED
  BY <1>1, <1>2 DEF RingEntries

LEMMA LastRepeated ==
  ASSUME NEW s \in Seq(RingEntries), s # <<>>, NEW r,
         r = [s EXCEPT ![Len(s)] = Repeated(@)]
  PROVE  /\ r \in Seq(RingEntries) /\ Len(r) = Len(s)
         /\ SumBytes(r) = SumBytes(s) /\ SumRows(r) = SumRows(s) + 1
<1>1. Len(s) \in DOMAIN s /\ s[Len(s)] \in RingEntries
  OBVIOUS
<1>2. PICK e \in RingEntries : e = s[Len(s)]
  BY <1>1
<1>3. PICK f : f = Repeated(e)
  OBVIOUS
<1>4. r = [s EXCEPT ![Len(s)] = f]
  BY <1>2, <1>3
<1>5. f \in RingEntries /\ f.bytes = e.bytes /\ f.rows = e.rows + 1 /\ e.rows \in Nat
  BY <1>3, RepeatedEntry
<1>6. r \in Seq(RingEntries) /\ Len(r) = Len(s)
  BY <1>1, <1>4, <1>5
<1>7. PICK front \in Seq(RingEntries) : s = front \o <<e>> /\ r = front \o <<f>>
  <2>1. PICK n \in Nat : Len(s) = n + 1
    <3>1. Len(s) - 1 \in Nat /\ Len(s) = (Len(s) - 1) + 1
      OBVIOUS
    <3>. QED
      BY <3>1
  <2>2. LastPlace(s, r, n, e, f)
    BY <1>2, <1>4, <1>6, <2>1 DEF LastPlace
  <2>3. \E front \in Seq(RingEntries) : SameFront(front, s, r, e, f)
    BY <1>5, <1>6, <2>2, LastReplaced
  <2>. QED
    BY <2>3 DEF SameFront
<1>8. /\ SumBytes(s) = SumBytes(front) + e.bytes /\ SumBytes(r) = SumBytes(front) + f.bytes
      /\ SumRows(s) = SumRows(front) + e.rows /\ SumRows(r) = SumRows(front) + f.rows
      /\ SumRows(front) \in Nat
  <2>1. <<e>> \in Seq(RingEntries) /\ <<f>> \in Seq(RingEntries)
    BY <1>5
  <2>2. \A a \in Seq(RingEntries), b \in Seq(RingEntries) :
           /\ SumBytes(a) \in Nat /\ SumRows(a) \in Nat
           /\ SumBytes(a \o b) = SumBytes(a) + SumBytes(b)
           /\ SumRows(a \o b) = SumRows(a) + SumRows(b)
    BY RingSums
  <2>3. \A g \in RingEntries : SumBytes(<<g>>) = g.bytes /\ SumRows(<<g>>) = g.rows
    BY RingSums
  <2>4. SumBytes(s) = SumBytes(front) + SumBytes(<<e>>) /\ SumRows(s) = SumRows(front) + SumRows(<<e>>)
    BY <1>7, <2>1, <2>2, Zenon
  <2>5. SumBytes(r) = SumBytes(front) + SumBytes(<<f>>) /\ SumRows(r) = SumRows(front) + SumRows(<<f>>)
    BY <1>7, <2>1, <2>2, Zenon
  <2>6. SumRows(front) \in Nat
    BY <2>2
  <2>. QED
    BY <1>5, <2>3, <2>4, <2>5, <2>6, Zenon
<1>9. SumBytes(r) = SumBytes(s)
  BY <1>5, <1>8
<1>10. SumRows(r) = SumRows(s) + 1
  BY <1>5, <1>8
<1>. QED
  BY <1>6, <1>9, <1>10

(* Pushing an entry adds one row, wherever it ends up.                     *)
LEMMA PushOK ==
  ASSUME RingInv, NEW entry \in RingEntries, entry.rows = 1, Push(entry), UNCHANGED spilled
  PROVE  RingInv'
<1>. USE DEF RingInv
<1>1. totalIngested' = totalIngested + 1
  BY DEF Push
<1>2. /\ totalIngested = SumRows(lines) + SumRows(evicted) + spilled
      /\ SumRows(lines) \in Nat /\ SumRows(evicted) \in Nat
  BY RingSums DEF RowsAreConserved
<1>3. CASE Collapses(entry) /\ lines' = [lines EXCEPT ![Len(lines)] = Repeated(@)]
           /\ UNCHANGED <<residentBytes, evicted>>
  <2>1. lines # <<>>
    BY <1>3 DEF Collapses
  <2>10. /\ lines' \in Seq(RingEntries) /\ Len(lines') = Len(lines)
         /\ SumBytes(lines') = SumBytes(lines) /\ SumRows(lines') = SumRows(lines) + 1
    BY <1>3, <2>1, LastRepeated
  <2>11. CapsHold'
    BY <2>10 DEF CapsHold
  <2>12. RowsAreConserved'
    BY <1>1, <1>2, <1>3, <2>10 DEF RowsAreConserved
  <2>. QED
    BY <1>1, <1>3, <2>10, <2>11, <2>12
<1>4. CASE EnforceCaps(Append(lines, entry), residentBytes + entry.bytes)
  <2>. DEFINE es == Append(lines, entry)
  <2>1. es \in Seq(RingEntries) /\ es = lines \o <<entry>> /\ <<entry>> \in Seq(RingEntries)
    BY AppendIsConcat
  <2>2. SumBytes(es) = residentBytes + entry.bytes /\ SumRows(es) = SumRows(lines) + 1
    BY <2>1, RingSums
  <2>. HIDE DEF es
  <2>3. EnforceCaps(es, residentBytes + entry.bytes)
    BY <1>4 DEF es
  <2>4. /\ lines' \in Seq(RingEntries) /\ evicted' \in Seq(RingEntries)
        /\ residentBytes' = SumBytes(lines') /\ CapsHold'
        /\ SumRows(lines') + SumRows(evicted') = SumRows(es) + SumRows(evicted)
    BY <2>1, <2>2, <2>3, EvictOK
  <2>5. RowsAreConserved'
    <3>1. SumRows(lines') \in Nat /\ SumRows(evicted') \in Nat
      BY <2>4, RingSums
    <3>. QED
      BY <1>1, <1>2, <2>2, <2>4, <3>1 DEF RowsAreConserved
  <2>. QED
    BY <1>1, <2>4, <2>5
<1>. QED
  BY <1>3, <1>4 DEF Push

LEMMA TruncateOK ==
  ASSUME RingInv, NEW line \in OutputLines, TruncateAndPush(line), UNCHANGED spilled
  PROVE  RingInv'
<1>1. line.bytes \in Nat /\ MaxLineBytes \in Nat
  BY CaptureCapsAssumption, CaptureInputAssumption
<1>2. CASE line.bytes <= MaxLineBytes
           /\ Push([kind |-> "Text", text |-> line.text, rows |-> 1, bytes |-> EntryBytes(line.bytes)])
  <2>. DEFINE e == [kind |-> "Text", text |-> line.text, rows |-> 1, bytes |-> EntryBytes(line.bytes)]
  <2>1. e \in RingEntries /\ e.rows = 1
    BY <1>1 DEF RingEntries, EntryKinds, LineTexts, EntryBytes, LineOverhead
  <2>. HIDE DEF e
  <2>2. Push(e)
    BY <1>2 DEF e
  <2>. QED
    BY <2>1, <2>2, PushOK
<1>3. ASSUME NEW cap \in Nat, NEW short \in 0..3, short <= cap,
             Push([kind |-> "Truncated", text |-> line.text, rows |-> 1,
                   bytes |-> EntryBytes(cap - short + ArtifactRefBytes)])
      PROVE  RingInv'
  <2>. DEFINE e == [kind |-> "Truncated", text |-> line.text, rows |-> 1,
                    bytes |-> EntryBytes(cap - short + ArtifactRefBytes)]
  <2>1. e \in RingEntries /\ e.rows = 1
    BY <1>3 DEF RingEntries, EntryKinds, LineTexts, EntryBytes, LineOverhead, ArtifactRefBytes
  <2>. HIDE DEF e
  <2>2. Push(e)
    BY <1>3 DEF e
  <2>. QED
    BY <2>1, <2>2, PushOK
<1>. QED
  BY <1>1, <1>2, <1>3 DEF TruncateAndPush

LEMMA RingStep == RingInv /\ [CaptureNext]_captureVars => RingInv'
<1>. SUFFICES ASSUME RingInv, [CaptureNext]_captureVars PROVE RingInv'
  OBVIOUS
<1>1. CASE UNCHANGED <<lines, residentBytes, totalIngested, evicted, spilled>>
  BY <1>1 DEF RingInv, CapsHold, RowsAreConserved
<1>2. ASSUME NEW line \in OutputLines, TruncateAndPush(line), UNCHANGED spilled PROVE RingInv'
  BY <1>2, TruncateOK
<1>3. CASE TakeEvicted
  <2>1. spilled' = spilled + SumRows(evicted) /\ evicted' = <<>> /\ UNCHANGED <<lines, residentBytes, totalIngested>>
    BY <1>3 DEF TakeEvicted
  <2>2. SumRows(evicted) \in Nat /\ SumRows(lines) \in Nat /\ SumRows(<<>>) = 0
    BY RingSums DEF RingInv
  <2>3. spilled \in Nat /\ totalIngested = SumRows(lines) + SumRows(evicted) + spilled
    BY DEF RingInv, RowsAreConserved
  <2>4. RowsAreConserved'
    BY <2>1, <2>2, <2>3 DEF RowsAreConserved
  <2>. QED
    BY <2>1, <2>2, <2>3, <2>4 DEF RingInv, CapsHold
<1>. QED
  BY <1>1, <1>2, <1>3 DEF CaptureNext, IngestLine, DropOverQuota, SampleOut, StoreSampled, Store, captureVars

(* What is kept of a provider's output stays within both caps and the      *)
(* quota, and every row is in the ring, on its way to the chunk store or   *)
(* there, for any limits and any lines.                                    *)
THEOREM OutputIsAccounted == CaptureSpec => []CaptureIsAccounted
<1>1. CaptureInit => RingInv
  <2>. SUFFICES ASSUME CaptureInit PROVE RingInv
    OBVIOUS
  <2>1. Len(lines) = 0 /\ MaxLines \in Nat
    BY CaptureCapsAssumption DEF CaptureInit
  <2>. QED
    BY <2>1, RingSums DEF CaptureInit, RingInv, CapsHold, RowsAreConserved
<1>2. CaptureSpec => []RingInv
  BY <1>1, RingStep, PTL DEF CaptureSpec
<1>3. RingInv => CapsHold /\ RowsAreConserved
  BY DEF RingInv
<1>. QED
  BY <1>2, <1>3, QuotaHolds, PTL DEF CaptureIsAccounted

-----------------------------------------------------------------------------
(* The scrollback store.                                                   *)

(* The rows of a history.                                                  *)
Rows == UNION {ToSet(batch) : batch \in RowBatches}

Flat(s, fs) == FoldLeft(LAMBDA h, meta : h \o fs[meta.seq], <<>>, s)

LEMMA BatchesOK == \A batch \in RowBatches : batch \in Seq(Rows)
<1>. SUFFICES ASSUME NEW batch \in RowBatches PROVE batch \in Seq(Rows)
  OBVIOUS
<1>1. batch \in Seq(ToSet(batch))
  BY ScrollbackAssumption
<1>2. ToSet(batch) \subseteq Rows
  BY DEF Rows
<1>3. \A i \in 1..Len(batch) : batch[i] \in ToSet(batch)
  BY <1>1
<1>. HIDE DEF Rows
<1>. QED
  BY <1>1, <1>2

Concatenates(w, s, fs, n, R) ==
  w \in [0..n -> Seq(R)] /\ w[0] = <<>> /\ \A k \in 1..n : w[k] = w[k - 1] \o fs[s[k].seq]

LEMMA FlatFolds ==
  ASSUME NEW R, NEW s, NEW fs, NEW n \in Nat, DOMAIN s = 1..n,
         \A k \in 1..n : fs[s[k].seq] \in Seq(R)
  PROVE  \E w : Concatenates(w, s, fs, n, R) /\ Flat(s, fs) = w[n]
<1>. DEFINE step == [k \in 1..n |-> [v \in Seq(R) |-> v \o fs[s[k].seq]]]
            Unrolled(h, S) == IF S = {} THEN <<>> ELSE h[S \ {Max(S)}] \o fs[s[Max(S)].seq]
            iter[S \in SUBSET (1..n)] ==
              IF S = {} THEN <<>> ELSE iter[S \ {Max(S)}] \o fs[s[Max(S)].seq]
<1>1. PICK g \in [SUBSET (1..n) -> Seq(R)] : FromTheEnd(g, n, <<>>, step)
  <2>1. step \in [1..n -> [Seq(R) -> Seq(R)]] /\ <<>> \in Seq(R)
    OBVIOUS
  <2>. HIDE DEF step
  <2>. QED
    BY <2>1, FromTheEndExists
<1>2. Flat(s, fs) = iter[1..n]
  BY DEF Flat, FoldLeft, MapThenFoldSet
<1>3. \A S \in SUBSET (1..n) : g[S] = Unrolled(g, S)
  BY <1>1 DEF FromTheEnd
<1>4. g = [S \in SUBSET (1..n) |-> Unrolled(g, S)]
  BY <1>3
<1>5. iter = [S \in SUBSET (1..n) |-> Unrolled(iter, S)]
  <2>. HIDE DEF Unrolled
  <2>. QED
    BY <1>4, Zenon DEF Unrolled
<1>. HIDE DEF iter
<1>6. \A S \in SUBSET (1..n) : iter[S] = Unrolled(iter, S)
  <2>. HIDE DEF Unrolled
  <2>. QED
    BY <1>5, Zenon
<1>7. ASSUME NEW k \in 1..n
      PROVE  g[1..k] = g[1..(k - 1)] \o fs[s[k].seq] /\ iter[1..k] = iter[1..(k - 1)] \o fs[s[k].seq]
  <2>1. /\ 1..k \in SUBSET (1..n) /\ 1..k # {}
        /\ Max(1..k) = k /\ (1..k) \ {k} = 1..(k - 1)
    BY FirstPlaces
  <2>2. g[1..k] = Unrolled(g, 1..k) /\ iter[1..k] = Unrolled(iter, 1..k)
    BY <1>3, <1>6, <2>1
  <2>. QED
    BY <2>1, <2>2
<1>. HIDE DEF Unrolled, step
<1>8. iter[1..n] = g[1..n]
  <2>1. iter[{}] = g[{}]
    BY <1>3, <1>6 DEF Unrolled
  <2>2. \A k \in 1..n : iter[1..(k - 1)] = g[1..(k - 1)] => iter[1..k] = g[1..k]
    BY <1>7
  <2>. QED
    BY ONLY <2>1, <2>2, n \in Nat, SameFold
<1>. DEFINE w == [k \in 0..n |-> g[1..k]]
<1>9. w[0] = <<>>
  <2>1. 1..0 = {} /\ {} \in SUBSET (1..n) /\ 0 \in 0..n
    OBVIOUS
  <2>. QED
    BY <1>3, <2>1 DEF Unrolled
<1>10. ASSUME NEW k \in 1..n PROVE w[k] = w[k - 1] \o fs[s[k].seq]
  <2>1. k \in 0..n /\ k - 1 \in 0..n
    OBVIOUS
  <2>. QED
    BY <1>7, <2>1
<1>11. w \in [0..n -> Seq(R)] /\ Flat(s, fs) = w[n]
  <2>1. n \in 0..n /\ \A k \in 0..n : 1..k \in SUBSET (1..n)
    OBVIOUS
  <2>2. \A k \in 0..n : g[1..k] \in Seq(R)
    BY <2>1
  <2>. QED
    BY <1>2, <1>8, <2>1, <2>2
<1>. QED
  BY <1>9, <1>10, <1>11 DEF Concatenates

LEMMA FlatSteps ==
  ASSUME NEW R, NEW M, NEW s \in Seq(M), NEW fs, \A k \in 1..Len(s) : fs[s[k].seq] \in Seq(R)
  PROVE  \E w : Concatenates(w, s, fs, Len(s), R) /\ Flat(s, fs) = w[Len(s)]
<1>1. Len(s) \in Nat /\ DOMAIN s = 1..Len(s)
  OBVIOUS
<1>. QED
  BY <1>1, FlatFolds

LEMMA FlatOK ==
  ASSUME NEW R, NEW M, NEW s \in Seq(M), NEW fs, \A k \in 1..Len(s) : fs[s[k].seq] \in Seq(R)
  PROVE  Flat(s, fs) \in Seq(R)
<1>1. PICK w : Concatenates(w, s, fs, Len(s), R) /\ Flat(s, fs) = w[Len(s)]
  BY FlatSteps
<1>2. Len(s) \in 0..Len(s)
  OBVIOUS
<1>. QED
  BY <1>1, <1>2 DEF Concatenates

LEMMA FlatEmpty == \A fs : Flat(<<>>, fs) = <<>>
<1>. SUFFICES ASSUME NEW fs PROVE Flat(<<>>, fs) = <<>>
  OBVIOUS
<1>1. /\ <<>> \in Seq({}) /\ Len(<<>>) = 0 /\ \A k \in 1..Len(<<>>) : fs[<<>>[k].seq] \in Seq({})
  OBVIOUS
<1>2. PICK w : Concatenates(w, <<>>, fs, 0, {}) /\ Flat(<<>>, fs) = w[0]
  BY <1>1, FlatSteps
<1>. QED
  BY <1>2 DEF Concatenates

(* Another chunk goes behind the others, whose files stay what they are.   *)
SameChunks(s, fs, fs2) == \A k \in 1..Len(s) : fs2[s[k].seq] = fs[s[k].seq]

Readable(s, fs, R)     == \A k \in 1..Len(s) : fs[s[k].seq] \in Seq(R)
Continues(h2, h, rows)  == h2 = h \o rows
OneLonger(s2, s, m)     == s2 = Append(s, m)

LEMMA FlatGrows ==
  ASSUME NEW R, NEW M, NEW s \in Seq(M), NEW m \in M, NEW s2 \in Seq(M), OneLonger(s2, s, m), NEW fs, NEW fs2,
         Readable(s, fs, R), SameChunks(s, fs, fs2),
         NEW rows \in Seq(R), rows = fs2[m.seq]
  PROVE  Continues(Flat(s2, fs2), Flat(s, fs), rows)
<1>1. PICK n \in Nat : n = Len(s)
  OBVIOUS
<1>3. Len(s2) = n + 1 /\ s2[n + 1] = m /\ \A k \in 1..n : s2[k] = s[k]
  BY <1>1 DEF OneLonger
<1>4. PICK w : Concatenates(w, s, fs, n, R) /\ Flat(s, fs) = w[n]
  BY <1>1, FlatSteps DEF Readable
<1>5. PICK u : Concatenates(u, s2, fs2, n + 1, R) /\ Flat(s2, fs2) = u[n + 1]
  <2>1. \A k \in 1..Len(s2) : fs2[s2[k].seq] \in Seq(R)
    <3>. SUFFICES ASSUME NEW k \in 1..(n + 1) PROVE fs2[s2[k].seq] \in Seq(R)
      BY <1>3
    <3>1. CASE k = n + 1
      BY <1>3, <3>1
    <3>2. CASE k \in 1..n
      BY <1>1, <1>3, <3>2 DEF SameChunks, Readable
    <3>. QED
      BY <3>1, <3>2
  <2>. QED
    BY <1>3, <2>1, FlatSteps
<1>. DEFINE P == {k \in 0..n : u[k] = w[k]}
<1>6. 0 \in P
  BY <1>4, <1>5 DEF Concatenates
<1>7. \A k \in 0..(n - 1) : k \in P => k + 1 \in P
  <2>. SUFFICES ASSUME NEW k \in 0..(n - 1), u[k] = w[k] PROVE u[k + 1] = w[k + 1]
    OBVIOUS
  <2>1. k + 1 \in 1..n /\ k + 1 \in 1..(n + 1) /\ (k + 1) - 1 = k
    OBVIOUS
  <2>2. w[k + 1] = w[k] \o fs[s[k + 1].seq] /\ u[k + 1] = u[k] \o fs2[s2[k + 1].seq]
    BY <1>4, <1>5, <2>1 DEF Concatenates
  <2>3. fs2[s2[k + 1].seq] = fs[s[k + 1].seq]
    BY <1>1, <1>3, <2>1 DEF SameChunks
  <2>. QED
    BY <2>2, <2>3
<1>8. u[n] = w[n]
  <2>. HIDE DEF P
  <2>1. \A k \in 0..n : k \in P
    BY ONLY <1>6, <1>7, n \in Nat, UpTo
  <2>. QED
    BY <2>1 DEF P
<1>9. u[n + 1] = u[n] \o rows
  <2>1. n + 1 \in 1..(n + 1) /\ (n + 1) - 1 = n
    OBVIOUS
  <2>. QED
    BY <1>3, <1>5, <2>1 DEF Concatenates
<1>. QED
  BY <1>4, <1>5, <1>8, <1>9 DEF Continues

-----------------------------------------------------------------------------
(* Reading a page.                                                         *)

(* The page of a history from a cursor on.                                 *)
Page(h, c, l) == SubSeq(h, c + 1, Min2(Len(h), c + l))

LEMMA PageOK ==
  ASSUME NEW R, NEW h \in Seq(R), NEW c \in Nat, NEW l \in Nat
  PROVE  /\ Page(h, c, l) \in Seq(R)
         /\ Len(h) <= c => Page(h, c, l) = <<>>
         /\ (Len(h) > c /\ Len(h) <= c + l) => Len(Page(h, c, l)) = Len(h) - c
         /\ (Len(h) > c /\ Len(h) > c + l) => Len(Page(h, c, l)) = l
         /\ \A i \in 1..Len(Page(h, c, l)) : c + i \in 1..Len(h) /\ Page(h, c, l)[i] = h[c + i]
<1>1. Len(h) \in Nat /\ Min2(Len(h), c + l) \in Nat /\ Min2(Len(h), c + l) <= Len(h)
  BY DEF Min2
<1>2. CASE Len(h) <= c
  <2>1. Min2(Len(h), c + l) = Len(h)
    BY <1>2 DEF Min2
  <2>2. Page(h, c, l) = <<>>
    BY <1>1, <1>2, <2>1, SubSeqEmpty DEF Page
  <2>. QED
    BY <1>1, <1>2, <2>2
<1>3. ASSUME Len(h) > c, NEW m \in Nat, m = Min2(Len(h), c + l)
      PROVE  /\ Page(h, c, l) \in Seq(R) /\ Len(Page(h, c, l)) = m - c
             /\ \A i \in 1..(m - c) : Page(h, c, l)[i] = h[c + i]
  <2>1. m >= c /\ m <= Len(h) /\ c + 1 \in 1..(m + 1) /\ Page(h, c, l) = SubSeq(h, c + 1, m)
    BY <1>1, <1>3 DEF Min2, Page
  <2>2. Page(h, c, l) \in Seq(R)
    BY <1>1, <2>1
  <2>3. Len(SubSeq(h, c + 1, m)) = m - c
    BY <1>1, <2>1
  <2>4. ASSUME NEW i \in 1..(m - c) PROVE SubSeq(h, c + 1, m)[i] = h[c + i]
    BY <1>1, <2>1
  <2>. QED
    BY <2>1, <2>2, <2>3, <2>4
<1>4. CASE Len(h) > c
  <2>1. PICK m \in Nat : m = Min2(Len(h), c + l)
    BY <1>1
  <2>2. /\ Page(h, c, l) \in Seq(R) /\ Len(Page(h, c, l)) = m - c
        /\ \A i \in 1..(m - c) : Page(h, c, l)[i] = h[c + i]
    BY <1>3, <1>4, <2>1
  <2>3. /\ (Len(h) <= c + l => m = Len(h)) /\ (Len(h) > c + l => m = c + l) /\ m <= Len(h)
    BY <1>1, <2>1 DEF Min2
  <2>. QED
    BY <1>1, <1>4, <2>2, <2>3
<1>. QED
  BY <1>1, <1>2, <1>4

(* Taking what a page still has room for from the rows behind a history    *)
(* makes it the page of both.                                              *)
LEMMA TakenOK ==
  ASSUME NEW R, NEW h \in Seq(R), NEW rows \in Seq(R), NEW c \in Nat, NEW l \in Nat
  PROVE  Taken(Page(h, c, l), Len(h), rows, c, l) = Page(h \o rows, c, l)
<1>1. PICK a \in Nat : a = Len(h)
  OBVIOUS
<1>2. PICK b \in Nat : b = Len(rows)
  OBVIOUS
<1>3. h \o rows \in Seq(R) /\ Len(h \o rows) = a + b
  BY <1>1, <1>2
<1>. DEFINE skip == IF c > a THEN Min2(c - a, b) ELSE 0
            room == IF l > Len(Page(h, c, l)) THEN l - Len(Page(h, c, l)) ELSE 0
            rest == SubSeq(rows, skip + 1, Min2(b, skip + room))
<1>4. Taken(Page(h, c, l), Len(h), rows, c, l) = Page(h, c, l) \o rest
  BY <1>1, <1>2 DEF Taken
<1>5. Page(h \o rows, c, l) = SubSeq(h \o rows, c + 1, Min2(a + b, c + l))
  BY <1>3 DEF Page
<1>6. CASE c >= a + b
  <2>1. Page(h, c, l) = <<>> /\ Page(h \o rows, c, l) = <<>>
    <3>1. Len(h) <= c /\ Len(h \o rows) <= c
      BY <1>1, <1>3, <1>6
    <3>. QED
      BY <1>3, <3>1, PageOK
  <2>2. skip = b /\ Min2(b, skip + room) = b
    <3>1. Len(<<>>) = 0
      OBVIOUS
    <3>2. room \in Nat
      BY <2>1, <3>1
    <3>3. skip = b
      BY <1>6 DEF Min2
    <3>. HIDE DEF room, skip
    <3>. QED
      BY <3>2, <3>3 DEF Min2
  <2>3. rest = <<>>
    BY <2>2, SubSeqEmpty
  <2>. QED
    BY <1>4, <2>1, <2>3
<1>7. CASE c >= a /\ c < a + b
  <2>1. Page(h, c, l) = <<>>
    <3>1. Len(h) <= c
      BY <1>1, <1>7
    <3>. QED
      BY <3>1, PageOK
  <2>2. room = l
    <3>1. Len(<<>>) = 0
      OBVIOUS
    <3>. QED
      BY <2>1, <3>1
  <2>3. skip = c - a
    BY <1>7 DEF Min2
  <2>4. rest = SubSeq(rows, (c - a) + 1, Min2(b, (c - a) + l))
    BY <2>2, <2>3, Zenon
  <2>. HIDE DEF rest, room, skip
  <2>5. PICK n \in Nat : n = Min2(a + b, c + l) /\ n >= a /\ n - a = Min2(b, (c - a) + l) /\ n <= a + b
    BY <1>7 DEF Min2
  <2>6. SubSeq(h \o rows, c + 1, n) = SubSeq(rows, (c + 1) - a, n - a)
    <3>1. c + 1 \in (Len(h) + 1)..(Len(h) + Len(rows) + 1) /\ n \in (c + 1 - 1)..(Len(h) + Len(rows))
      BY <1>1, <1>2, <1>7, <2>5 DEF Min2
    <3>2. SubSeq(h \o rows, c + 1, n) = SubSeq(rows, (c + 1) - Len(h), n - Len(h))
      BY <3>1, SubSeqOfConcat2
    <3>. QED
      BY <1>1, <3>2
  <2>7. (c + 1) - a = (c - a) + 1
    OBVIOUS
  <2>8. rest = Page(h \o rows, c, l)
    BY <1>5, <2>4, <2>5, <2>6, <2>7, Zenon
  <2>9. rest \in Seq(R)
    BY <1>3, <2>8, PageOK
  <2>. QED
    BY <1>4, <2>1, <2>8, <2>9
<1>8. CASE c < a /\ c + l <= a
  <2>1. Len(Page(h, c, l)) = l /\ Page(h, c, l) \in Seq(R)
    <3>1. Len(h) > c /\ (Len(h) > c + l \/ (Len(h) <= c + l /\ Len(h) - c = l))
      BY <1>1, <1>8
    <3>. QED
      BY <3>1, PageOK
  <2>2. skip = 0 /\ room = 0
    BY <1>8, <2>1
  <2>3. Min2(b, 0 + 0) = 0
    BY DEF Min2
  <2>4. rest = <<>>
    BY <2>2, <2>3, SubSeqEmpty
  <2>5. Min2(a + b, c + l) = c + l /\ Min2(a, c + l) = c + l
    BY <1>8 DEF Min2
  <2>6. SubSeq(h \o rows, c + 1, c + l) = SubSeq(h, c + 1, c + l)
    <3>1. c + 1 \in 1..(Len(h) + 1) /\ c + l \in (c + 1 - 1)..Len(h)
      BY <1>1, <1>8
    <3>. QED
      BY <3>1, SubSeqOfConcat1
  <2>7. Page(h, c, l) = SubSeq(h, c + 1, c + l)
    BY <1>1, <2>5 DEF Page
  <2>8. Page(h \o rows, c, l) = Page(h, c, l)
    BY <1>5, <2>5, <2>6, <2>7
  <2>. HIDE DEF rest
  <2>. QED
    BY <1>4, <2>1, <2>4, <2>8
<1>9. CASE c < a /\ c + l > a
  <2>1. Len(Page(h, c, l)) = a - c
    <3>1. Len(h) > c /\ Len(h) <= c + l
      BY <1>1, <1>9
    <3>. QED
      BY <1>1, <3>1, PageOK
  <2>2. skip = 0 /\ room = l - (a - c)
    BY <1>9, <2>1
  <2>3. PICK m \in Nat : m = Min2(b, l - (a - c)) /\ m <= b /\ Min2(a + b, c + l) = a + m
    BY <1>9 DEF Min2
  <2>4. rest = SubSeq(rows, 1, m)
    <3>1. 0 + 1 = 1 /\ 0 + (l - (a - c)) = l - (a - c)
      BY <1>9
    <3>. QED
      BY <2>2, <2>3, <3>1
  <2>5. Page(h, c, l) = SubSeq(h, c + 1, a)
    <3>1. Min2(a, c + l) = a
      BY <1>9 DEF Min2
    <3>. QED
      BY <1>1, <3>1 DEF Page
  <2>. HIDE DEF rest
  <2>6. SubSeq(h \o rows, c + 1, a) = SubSeq(h, c + 1, a)
    <3>1. c + 1 \in 1..(Len(h) + 1) /\ a \in (c + 1 - 1)..Len(h)
      BY <1>1, <1>9
    <3>. QED
      BY <3>1, SubSeqOfConcat1
  <2>7. SubSeq(h \o rows, a + 1, a + m) = SubSeq(rows, 1, m)
    <3>1. a + 1 \in (Len(h) + 1)..(Len(h) + Len(rows) + 1) /\ a + m \in (a + 1 - 1)..(Len(h) + Len(rows))
      BY <1>1, <1>2, <2>3
    <3>2. SubSeq(h \o rows, a + 1, a + m) = SubSeq(rows, (a + 1) - Len(h), (a + m) - Len(h))
      BY <3>1, SubSeqOfConcat2
    <3>3. (a + 1) - Len(h) = 1 /\ (a + m) - Len(h) = m
      BY <1>1
    <3>. QED
      BY <3>2, <3>3
  <2>8. SubSeq(h \o rows, c + 1, a) \o SubSeq(h \o rows, a + 1, a + m) = SubSeq(h \o rows, c + 1, a + m)
    <3>1. /\ c + 1 \in 1..(Len(h \o rows) + 1) /\ a \in (c + 1 - 1)..Len(h \o rows)
          /\ a + m \in a..Len(h \o rows)
      BY <1>3, <1>9, <2>3
    <3>. QED
      BY ONLY <1>3, <3>1, ConcatAdjacentSubSeq
  <2>. QED
    BY <1>4, <1>5, <2>3, <2>4, <2>5, <2>6, <2>7, <2>8
<1>. QED
  BY <1>6, <1>7, <1>8, <1>9

Scans(R) == [page : Seq(R), base : Nat]

ScanStart == [page |-> <<>>, base |-> 0]
Scan(v, meta, fs, c, l) ==
  [page |-> Taken(v.page, v.base, fs[meta.seq], c, l), base |-> v.base + meta.count]

Scanned(s, fs, c, l) == FoldLeft(LAMBDA v, meta : Scan(v, meta, fs, c, l), ScanStart, s)

ScansChunks(w, s, fs, c, l, n, R) ==
  /\ w \in [0..n -> Scans(R)] /\ w[0] = ScanStart
  /\ \A k \in 1..n : w[k] = Scan(w[k - 1], s[k], fs, c, l)

LEMMA ScanOK ==
  ASSUME NEW R, NEW fs, NEW m, NEW c \in Nat, NEW l \in Nat, fs[m.seq] \in Seq(R), m.count \in Nat
  PROVE  \A v \in Scans(R) : Scan(v, m, fs, c, l) \in Scans(R)
<1>2. ASSUME NEW v \in Scans(R) PROVE Scan(v, m, fs, c, l) \in Scans(R)
  <2>1. v.page \in Seq(R) /\ v.base \in Nat
    BY DEF Scans
  <2>2. ASSUME NEW i \in Nat, NEW j \in Int, j <= Len(fs[m.seq]) PROVE SubSeq(fs[m.seq], i + 1, j) \in Seq(R)
    BY <2>2
  <2>3. Taken(v.page, v.base, fs[m.seq], c, l) \in Seq(R)
    <3>. DEFINE skip == IF c > v.base THEN Min2(c - v.base, Len(fs[m.seq])) ELSE 0
                room == IF l > Len(v.page) THEN l - Len(v.page) ELSE 0
                upto == Min2(Len(fs[m.seq]), skip + room)
    <3>1. Len(fs[m.seq]) \in Nat /\ Len(v.page) \in Nat
      BY <2>1
    <3>2. skip \in Nat /\ room \in Nat
      BY <2>1, <3>1 DEF Min2
    <3>. HIDE DEF skip, room
    <3>3. upto \in Int /\ upto <= Len(fs[m.seq])
      BY <3>1, <3>2 DEF Min2
    <3>. HIDE DEF upto
    <3>4. SubSeq(fs[m.seq], skip + 1, upto) \in Seq(R)
      BY <2>2, <3>2, <3>3
    <3>5. Taken(v.page, v.base, fs[m.seq], c, l) = v.page \o SubSeq(fs[m.seq], skip + 1, upto)
      BY DEF Taken, skip, room, upto
    <3>. QED
      BY <2>1, <3>4, <3>5
  <2>. QED
    BY <2>1, <2>3 DEF Scan, Scans
<1>. QED
  BY <1>2

LEMMA ScanStartOK == \A R : ScanStart \in Scans(R)
<1>1. \A R : <<>> \in Seq(R)
  OBVIOUS
<1>. QED
  BY <1>1 DEF ScanStart, Scans

(* The chunks have their files, and count what is in them.                 *)
CountedChunks(s, fs, n, R) ==
  DOMAIN s = 1..n /\ \A k \in 1..n : fs[s[k].seq] \in Seq(R) /\ s[k].count = Len(fs[s[k].seq])

LEMMA ReadFolds ==
  ASSUME NEW R, NEW s, NEW fs, NEW c \in Nat, NEW l \in Nat, NEW n \in Nat, CountedChunks(s, fs, n, R)
  PROVE  \E w : ScansChunks(w, s, fs, c, l, n, R) /\ Scanned(s, fs, c, l) = w[n]
<1>. DEFINE step == [k \in 1..n |-> [v \in Scans(R) |-> Scan(v, s[k], fs, c, l)]]
            Unrolled(h, S) == IF S = {} THEN ScanStart ELSE Scan(h[S \ {Max(S)}], s[Max(S)], fs, c, l)
            iter[S \in SUBSET (1..n)] ==
              IF S = {} THEN ScanStart ELSE Scan(iter[S \ {Max(S)}], s[Max(S)], fs, c, l)
<1>1. PICK g \in [SUBSET (1..n) -> Scans(R)] : FromTheEnd(g, n, ScanStart, step)
  <2>1. step \in [1..n -> [Scans(R) -> Scans(R)]] /\ ScanStart \in Scans(R)
    <3>1. \A k \in 1..n : fs[s[k].seq] \in Seq(R) /\ s[k].count \in Nat
      BY DEF CountedChunks
    <3>2. \A k \in 1..n : \A v \in Scans(R) : Scan(v, s[k], fs, c, l) \in Scans(R)
      BY <3>1, ScanOK
    <3>. QED
      BY <3>2, ScanStartOK
  <2>. HIDE DEF step
  <2>. QED
    BY <2>1, FromTheEndExists
<1>2. Scanned(s, fs, c, l) = iter[1..n]
  BY DEF Scanned, CountedChunks, FoldLeft, MapThenFoldSet
<1>3. \A S \in SUBSET (1..n) : g[S] = Unrolled(g, S)
  BY <1>1 DEF FromTheEnd
<1>4. g = [S \in SUBSET (1..n) |-> Unrolled(g, S)]
  BY <1>3
<1>5. iter = [S \in SUBSET (1..n) |-> Unrolled(iter, S)]
  <2>. HIDE DEF Unrolled
  <2>. QED
    BY <1>4, Zenon DEF Unrolled
<1>. HIDE DEF iter
<1>6. \A S \in SUBSET (1..n) : iter[S] = Unrolled(iter, S)
  <2>. HIDE DEF Unrolled
  <2>. QED
    BY <1>5, Zenon
<1>7. ASSUME NEW k \in 1..n
      PROVE  g[1..k] = Scan(g[1..(k - 1)], s[k], fs, c, l) /\ iter[1..k] = Scan(iter[1..(k - 1)], s[k], fs, c, l)
  <2>1. /\ 1..k \in SUBSET (1..n) /\ 1..k # {}
        /\ Max(1..k) = k /\ (1..k) \ {k} = 1..(k - 1)
    BY FirstPlaces
  <2>2. g[1..k] = Unrolled(g, 1..k) /\ iter[1..k] = Unrolled(iter, 1..k)
    BY <1>3, <1>6, <2>1
  <2>. QED
    BY <2>1, <2>2
<1>. HIDE DEF Unrolled, step
<1>8. iter[1..n] = g[1..n]
  <2>1. iter[{}] = g[{}]
    BY <1>3, <1>6 DEF Unrolled
  <2>2. \A k \in 1..n : iter[1..(k - 1)] = g[1..(k - 1)] => iter[1..k] = g[1..k]
    BY <1>7
  <2>. QED
    BY ONLY <2>1, <2>2, n \in Nat, SameFold
<1>. DEFINE w == [k \in 0..n |-> g[1..k]]
<1>9. w[0] = ScanStart
  <2>1. 1..0 = {} /\ {} \in SUBSET (1..n) /\ 0 \in 0..n
    OBVIOUS
  <2>. QED
    BY <1>3, <2>1 DEF Unrolled
<1>10. ASSUME NEW k \in 1..n PROVE w[k] = Scan(w[k - 1], s[k], fs, c, l)
  <2>1. k \in 0..n /\ k - 1 \in 0..n
    OBVIOUS
  <2>. QED
    BY <1>7, <2>1
<1>11. w \in [0..n -> Scans(R)] /\ Scanned(s, fs, c, l) = w[n]
  <2>1. n \in 0..n /\ \A k \in 0..n : 1..k \in SUBSET (1..n)
    OBVIOUS
  <2>2. \A k \in 0..n : g[1..k] \in Scans(R)
    BY <2>1
  <2>. QED
    BY <1>2, <1>8, <2>1, <2>2
<1>. QED
  BY <1>9, <1>10, <1>11 DEF ScansChunks


(* The scan of the chunks holds the page of what it has passed.            *)
LEMMA ScannedOK ==
  ASSUME NEW R, NEW M, NEW s \in Seq(M), NEW fs, NEW c \in Nat, NEW l \in Nat,
         \A k \in 1..Len(s) : fs[s[k].seq] \in Seq(R) /\ s[k].count = Len(fs[s[k].seq])
  PROVE  /\ Scanned(s, fs, c, l).page = Page(Flat(s, fs), c, l)
         /\ Scanned(s, fs, c, l).base = Len(Flat(s, fs))
<1>1. PICK n \in Nat : n = Len(s) /\ DOMAIN s = 1..n
  OBVIOUS
<1>2. PICK w : Concatenates(w, s, fs, n, R) /\ Flat(s, fs) = w[n]
  BY <1>1, FlatSteps
<1>3. PICK r : ScansChunks(r, s, fs, c, l, n, R) /\ Scanned(s, fs, c, l) = r[n]
  <2>1. CountedChunks(s, fs, n, R)
    BY <1>1 DEF CountedChunks
  <2>. QED
    BY <2>1, ReadFolds
<1>4. w[0] = <<>> /\ \A k \in 0..n : w[k] \in Seq(R)
  BY <1>2 DEF Concatenates
<1>. DEFINE P == {k \in 0..n : r[k].page = Page(w[k], c, l) /\ r[k].base = Len(w[k])}
<1>5. 0 \in P
  <2>1. w[0] \in Seq(R) /\ Len(w[0]) = 0 /\ w[0] = <<>>
    <3>1. 0 \in 0..n
      OBVIOUS
    <3>. QED
      BY <1>4, <3>1
  <2>2. Page(w[0], c, l) = <<>>
    <3>1. w[0] \in Seq(R) /\ Len(w[0]) <= c
      BY <2>1
    <3>. QED
      BY ONLY <3>1, c \in Nat, l \in Nat, PageOK
  <2>3. r[0].page = <<>> /\ r[0].base = 0
    BY <1>3 DEF ScansChunks, ScanStart
  <2>. QED
    BY <2>1, <2>2, <2>3
<1>6. \A k \in 0..(n - 1) : k \in P => k + 1 \in P
  <2>. SUFFICES ASSUME NEW k \in 0..(n - 1), k \in P PROVE k + 1 \in P
    BY Zenon
  <2>0. r[k].page = Page(w[k], c, l) /\ r[k].base = Len(w[k])
    OBVIOUS
  <2>1. k + 1 \in 0..n /\ k + 1 \in 1..n /\ (k + 1) - 1 = k /\ k \in 0..n
    OBVIOUS
  <2>2. w[k + 1] = w[k] \o fs[s[k + 1].seq]
    BY <1>2, <2>1 DEF Concatenates
  <2>3. r[k + 1] = Scan(r[k], s[k + 1], fs, c, l)
    BY <1>3, <2>1 DEF ScansChunks
  <2>4. PICK rows \in Seq(R) : rows = fs[s[k + 1].seq] /\ s[k + 1].count = Len(rows)
    BY <1>1, <2>1
  <2>5. r[k + 1].page = Taken(Page(w[k], c, l), Len(w[k]), rows, c, l) /\ r[k + 1].base = Len(w[k]) + Len(rows)
    BY <2>0, <2>3, <2>4 DEF Scan
  <2>6. w[k] \in Seq(R)
    BY <1>4, <2>1
  <2>7. Taken(Page(w[k], c, l), Len(w[k]), rows, c, l) = Page(w[k] \o rows, c, l)
    BY <2>6, TakenOK
  <2>8. Len(w[k] \o rows) = Len(w[k]) + Len(rows)
    BY <2>6
  <2>9. r[k + 1].page = Page(w[k + 1], c, l) /\ r[k + 1].base = Len(w[k + 1])
    BY <2>2, <2>4, <2>5, <2>7, <2>8
  <2>. QED
    BY <2>1, <2>9
<1>7. n \in P
  <2>. HIDE DEF P
  <2>1. \A k \in 0..n : k \in P
    BY ONLY <1>5, <1>6, n \in Nat, UpTo
  <2>. QED
    BY <2>1
<1>. QED
  BY <1>2, <1>3, <1>7

-----------------------------------------------------------------------------
(* The store.                                                              *)

Metas   == [seq : Nat, count : Nat]
Discs   == UNION {[D -> Seq(Rows)] : D \in SUBSET Nat}
Handles ==
  [pending : Seq(Rows), chunks : Seq(Metas), next : Nat, total : Nat, files : Discs, failed : BOOLEAN]

(* The chunks of a run are on disk, in the order of their numbers, all of  *)
(* them spent.                                                             *)
ChunksOK(cs, fs, next) ==
  /\ \A i \in 1..Len(cs) : cs[i].seq \in DOMAIN fs /\ cs[i].seq < next /\ cs[i].count = Len(fs[cs[i].seq])
  /\ \A i, j \in 1..Len(cs) : i < j => cs[i].seq < cs[j].seq

(* What a store holds of the history.                                      *)
Held(s) == Flat(s.chunks, s.files) \o s.pending

Stores == {s \in Handles : ChunksOK(s.chunks, s.files, s.next) /\ s.total = Len(Held(s))}

LEMMA DiscsOK ==
  /\ \A fs \in Discs : (DOMAIN fs \subseteq Nat) /\ \A n \in DOMAIN fs : fs[n] \in Seq(Rows)
  /\ \A fs \in Discs, n \in Nat, rows \in Seq(Rows) :
       /\ WriteFile(fs, n, rows) \in Discs /\ DOMAIN WriteFile(fs, n, rows) = DOMAIN fs \cup {n}
       /\ WriteFile(fs, n, rows)[n] = rows
       /\ \A m \in DOMAIN fs : m # n => WriteFile(fs, n, rows)[m] = fs[m]
<1>1. ASSUME NEW fs \in Discs
      PROVE  (DOMAIN fs \subseteq Nat) /\ \A n \in DOMAIN fs : fs[n] \in Seq(Rows)
  <2>1. PICK D \in SUBSET Nat : fs \in [D -> Seq(Rows)]
    BY DEF Discs
  <2>. QED
    BY <2>1
<1>2. ASSUME NEW fs \in Discs, NEW n \in Nat, NEW rows \in Seq(Rows)
      PROVE  /\ WriteFile(fs, n, rows) \in Discs /\ DOMAIN WriteFile(fs, n, rows) = DOMAIN fs \cup {n}
             /\ WriteFile(fs, n, rows)[n] = rows
             /\ \A m \in DOMAIN fs : m # n => WriteFile(fs, n, rows)[m] = fs[m]
  <2>1. (DOMAIN fs \subseteq Nat) /\ \A m \in DOMAIN fs : fs[m] \in Seq(Rows)
    BY <1>1
  <2>2. WriteFile(fs, n, rows) \in [DOMAIN fs \cup {n} -> Seq(Rows)]
    BY <2>1 DEF WriteFile
  <2>3. (DOMAIN fs \cup {n}) \in SUBSET Nat
    BY <2>1
  <2>4. WriteFile(fs, n, rows) \in Discs
    BY ONLY <2>2, <2>3 DEF Discs
  <2>. QED
    BY <2>4 DEF WriteFile
<1>. QED
  BY <1>1, <1>2

LEMMA HeldOK ==
  ASSUME NEW s \in Handles, ChunksOK(s.chunks, s.files, s.next)
  PROVE  /\ \A k \in 1..Len(s.chunks) : s.files[s.chunks[k].seq] \in Seq(Rows)
         /\ Flat(s.chunks, s.files) \in Seq(Rows) /\ Held(s) \in Seq(Rows)
<1>1. s.chunks \in Seq(Metas) /\ s.files \in Discs /\ s.pending \in Seq(Rows)
  BY DEF Handles
<1>2. \A k \in 1..Len(s.chunks) : s.chunks[k].seq \in DOMAIN s.files
  BY DEF ChunksOK
<1>3. \A k \in 1..Len(s.chunks) : s.files[s.chunks[k].seq] \in Seq(Rows)
  BY <1>1, <1>2, DiscsOK
<1>4. Flat(s.chunks, s.files) \in Seq(Rows)
  BY <1>1, <1>3, FlatOK
<1>. QED
  BY <1>1, <1>3, <1>4 DEF Held

(* A chunk's file is not that of another.                                  *)
LEMMA ChunkWritten ==
  ASSUME NEW cs \in Seq(Metas), NEW d \in Discs, NEW next \in Nat, NEW rows \in Seq(Rows),
         ChunksOK(cs, d, next), NEW m \in Metas, m.seq = next, m.count = Len(rows),
         NEW d2, d2 = WriteFile(d, next, rows), NEW cs2 \in Seq(Metas), OneLonger(cs2, cs, m)
  PROVE  d2 \in Discs /\ ChunksOK(cs2, d2, next + 1) /\ Continues(Flat(cs2, d2), Flat(cs, d), rows)
<1>1. /\ d2 \in Discs /\ DOMAIN d2 = DOMAIN d \cup {next} /\ d2[next] = rows
      /\ \A n \in DOMAIN d : n # next => d2[n] = d[n]
  BY DiscsOK
<1>2. PICK n \in Nat : n = Len(cs)
  OBVIOUS
<1>4. Len(cs2) = n + 1 /\ cs2[n + 1] = m /\ \A i \in 1..n : cs2[i] = cs[i]
  BY <1>2 DEF OneLonger
<1>5. /\ \A i \in 1..n : cs[i].seq \in DOMAIN d /\ cs[i].seq < next /\ cs[i].count = Len(d[cs[i].seq])
      /\ \A i, j \in 1..n : i < j => cs[i].seq < cs[j].seq
  BY <1>2 DEF ChunksOK
<1>6. \A i \in 1..n : cs[i].seq \in Nat
  <2>1. \A i \in 1..n : cs[i] \in Metas
    BY <1>2
  <2>. QED
    BY <2>1 DEF Metas
<1>7. \A i \in 1..n : d2[cs[i].seq] = d[cs[i].seq] /\ cs[i].seq < next + 1
  BY <1>1, <1>5, <1>6
<1>8. ASSUME NEW i \in 1..(n + 1)
      PROVE  cs2[i].seq \in DOMAIN d2 /\ cs2[i].seq < next + 1 /\ cs2[i].count = Len(d2[cs2[i].seq])
  <2>1. CASE i \in 1..n
    <3>1. /\ cs[i].seq \in DOMAIN d /\ cs[i].count = Len(d[cs[i].seq])
          /\ d2[cs[i].seq] = d[cs[i].seq] /\ cs[i].seq < next + 1
      BY <1>5, <1>7, <2>1
    <3>2. cs2[i] = cs[i]
      BY <1>4, <2>1
    <3>. QED
      BY <1>1, <3>1, <3>2
  <2>2. CASE i = n + 1
    BY <1>1, <1>4, <2>2
  <2>. QED
    BY <2>1, <2>2
<1>9. ASSUME NEW i \in 1..(n + 1), NEW j \in 1..(n + 1), i < j PROVE cs2[i].seq < cs2[j].seq
  <2>1. i \in 1..n
    BY <1>9
  <2>2. CASE j \in 1..n
    BY <1>4, <1>5, <1>9, <2>1, <2>2
  <2>3. CASE j = n + 1
    BY <1>4, <1>5, <2>1, <2>3
  <2>. QED
    BY <2>2, <2>3
<1>10. ChunksOK(cs2, d2, next + 1)
  BY <1>4, <1>8, <1>9 DEF ChunksOK
<1>11. Continues(Flat(cs2, d2), Flat(cs, d), rows)
  <2>1. Readable(cs, d, Rows)
    BY <1>2, <1>5, DiscsOK DEF Readable
  <2>2. rows = d2[m.seq]
    BY <1>1
  <2>3. SameChunks(cs, d, d2)
    BY <1>2, <1>7 DEF SameChunks
  <2>. QED
    BY ONLY cs \in Seq(Metas), m \in Metas, cs2 \in Seq(Metas), OneLonger(cs2, cs, m), rows \in Seq(Rows),
            <2>1, <2>2, <2>3, FlatGrows
<1>. QED
  BY <1>1, <1>10, <1>11

LEMMA FlushOK ==
  ASSUME NEW s \in Stores, NEW fails \in BOOLEAN
  PROVE  FlushChunk(s, fails) \in Stores /\ Held(FlushChunk(s, fails)) = Held(s)
<1>0. s \in Handles /\ ChunksOK(s.chunks, s.files, s.next) /\ s.total = Len(Held(s))
  BY DEF Stores
<1>1. /\ s.pending \in Seq(Rows) /\ s.chunks \in Seq(Metas) /\ s.next \in Nat /\ s.total \in Nat
      /\ s.files \in Discs /\ s.failed \in BOOLEAN
  BY <1>0 DEF Handles
<1>2. PICK t : t = FlushChunk(s, fails)
  OBVIOUS
<1>3. CASE s.pending = <<>>
  <2>1. t = s
    BY <1>2, <1>3 DEF FlushChunk
  <2>. QED
    BY <1>2, <2>1
<1>4. CASE s.pending # <<>> /\ fails
  <2>1. t = [s EXCEPT !.next = s.next + 1, !.failed = TRUE]
    BY <1>2, <1>4 DEF FlushChunk
  <2>2. t = [pending |-> s.pending, chunks |-> s.chunks, next |-> s.next + 1, total |-> s.total,
             files |-> s.files, failed |-> TRUE]
    BY <1>0, <2>1 DEF Handles
  <2>3. t \in Handles
    BY <1>1, <2>2 DEF Handles
  <2>4. t.pending = s.pending /\ t.chunks = s.chunks /\ t.files = s.files /\ t.total = s.total /\ t.next = s.next + 1
    BY <2>2
  <2>5. Held(t) = Held(s)
    BY <2>4 DEF Held
  <2>6. ChunksOK(t.chunks, t.files, t.next)
    <3>1. \A i \in 1..Len(s.chunks) : s.chunks[i] \in Metas
      BY <1>1
    <3>2. \A i \in 1..Len(s.chunks) : s.chunks[i].seq \in Nat
      BY <3>1 DEF Metas
    <3>3. \A i \in 1..Len(s.chunks) : s.chunks[i].seq < s.next => s.chunks[i].seq < s.next + 1
      BY <1>1, <3>2
    <3>. QED
      BY <1>0, <2>4, <3>3 DEF ChunksOK
  <2>. QED
    BY <1>0, <1>2, <2>3, <2>4, <2>5, <2>6 DEF Stores
<1>5. CASE s.pending # <<>> /\ ~fails
  <2>1. PICK m : m = [seq |-> s.next, count |-> Len(s.pending)]
    OBVIOUS
  <2>2. PICK d : d = WriteFile(s.files, s.next, s.pending)
    OBVIOUS
  <2>3. t = [s EXCEPT !.files = d, !.pending = <<>>, !.next = s.next + 1, !.chunks = Append(s.chunks, m)]
    BY <1>2, <1>5, <2>1, <2>2 DEF FlushChunk
  <2>4. m \in Metas /\ m.seq = s.next /\ m.count = Len(s.pending)
    BY <1>1, <2>1 DEF Metas
  <2>5. PICK cs \in Seq(Metas) : OneLonger(cs, s.chunks, m)
    <3>1. Append(s.chunks, m) \in Seq(Metas)
      BY <1>1, <2>4
    <3>. QED
      BY ONLY <3>1, Zenon DEF OneLonger
  <2>6. /\ d \in Discs /\ ChunksOK(cs, d, s.next + 1)
        /\ Continues(Flat(cs, d), Flat(s.chunks, s.files), s.pending)
    <3>1. ChunksOK(s.chunks, s.files, s.next)
      BY <1>0
    <3>. QED
      BY <1>1, <2>2, <2>4, <2>5, <3>1, ChunkWritten
  <2>7. t = [pending |-> <<>>, chunks |-> cs, next |-> s.next + 1, total |-> s.total,
             files |-> d, failed |-> s.failed]
    BY <1>0, <2>3, <2>5 DEF Handles, OneLonger
  <2>8. t \in Handles
    <3>1. <<>> \in Seq(Rows)
      OBVIOUS
    <3>. QED
      BY <1>1, <2>5, <2>6, <2>7, <3>1 DEF Handles
  <2>9. t.pending = <<>> /\ t.chunks = cs /\ t.files = d /\ t.total = s.total /\ t.next = s.next + 1
    BY <2>7
  <2>10. Held(t) = Held(s)
    <3>1. Held(s) \in Seq(Rows) /\ Held(s) \o <<>> = Held(s)
      BY <1>0, HeldOK
    <3>2. Held(t) = Held(s) \o <<>>
      BY <2>6, <2>9 DEF Held, Continues
    <3>. QED
      BY <3>1, <3>2
  <2>11. ChunksOK(t.chunks, t.files, t.next)
    BY <2>6, <2>9
  <2>. QED
    BY <1>0, <1>2, <2>8, <2>9, <2>10, <2>11 DEF Stores
<1>. QED
  BY <1>3, <1>4, <1>5

(* One row more: it is at the end of what is held, written or not.         *)
LEMMA AppendRowOK ==
  ASSUME NEW s \in Stores, NEW failing \in Nat, NEW row \in Rows
  PROVE  /\ AppendRow(failing, s, row) \in Stores
         /\ s.failed => AppendRow(failing, s, row) = s
         /\ ~s.failed => Continues(Held(AppendRow(failing, s, row)), Held(s), <<row>>)
<1>1. CASE s.failed
  BY <1>1 DEF AppendRow
<1>2. CASE ~s.failed
  <2>0. s \in Handles /\ ChunksOK(s.chunks, s.files, s.next) /\ s.total = Len(Held(s))
    BY DEF Stores
  <2>1. /\ s.pending \in Seq(Rows) /\ s.chunks \in Seq(Metas) /\ s.next \in Nat /\ s.total \in Nat
        /\ s.files \in Discs /\ s.failed \in BOOLEAN
    BY <2>0 DEF Handles
  <2>2. PICK p : p = [s EXCEPT !.pending = Append(@, row), !.total = @ + 1]
    OBVIOUS
  <2>3. AppendRow(failing, s, row) = IF Len(p.pending) >= ChunkRows THEN FlushChunk(p, p.next = failing) ELSE p
    BY <1>2, <2>2 DEF AppendRow
  <2>4. PICK q \in Seq(Rows) : q = s.pending \o <<row>> /\ q = Append(s.pending, row)
    <3>1. s.pending \o <<row>> \in Seq(Rows) /\ s.pending \o <<row>> = Append(s.pending, row)
      BY <2>1, AppendIsConcat
    <3>. QED
      BY ONLY <3>1, Zenon
  <2>5. p = [pending |-> q, chunks |-> s.chunks, next |-> s.next, total |-> s.total + 1,
             files |-> s.files, failed |-> s.failed]
    BY <2>0, <2>2, <2>4 DEF Handles
  <2>6. p \in Handles
    BY <2>1, <2>5 DEF Handles
  <2>7. p.pending = q /\ p.chunks = s.chunks /\ p.next = s.next /\ p.total = s.total + 1 /\ p.files = s.files
    BY <2>5
  <2>8. Flat(s.chunks, s.files) \in Seq(Rows) /\ Held(s) \in Seq(Rows)
    BY <2>0, HeldOK
  <2>9. Held(p) = Held(s) \o <<row>> /\ Len(Held(p)) = Len(Held(s)) + 1
    <3>1. PICK h \in Seq(Rows) : h = Flat(s.chunks, s.files)
      BY <2>8
    <3>2. Held(p) = h \o (s.pending \o <<row>>) /\ Held(s) = h \o s.pending
      BY <2>4, <2>7, <3>1, Zenon DEF Held
    <3>3. h \o (s.pending \o <<row>>) = (h \o s.pending) \o <<row>>
      <4>1. <<row>> \in Seq(Rows)
        OBVIOUS
      <4>2. \A x \in Seq(Rows), y \in Seq(Rows), z \in Seq(Rows) : x \o (y \o z) = (x \o y) \o z
        OBVIOUS
      <4>. QED
        BY <2>1, <4>1, <4>2, Zenon
    <3>4. Len((h \o s.pending) \o <<row>>) = Len(h \o s.pending) + 1
      BY <2>1
    <3>. QED
      BY <3>2, <3>3, <3>4, Zenon
  <2>10. p \in Stores
    BY <2>0, <2>6, <2>7, <2>9 DEF Stores
  <2>11. FlushChunk(p, p.next = failing) \in Stores /\ Held(FlushChunk(p, p.next = failing)) = Held(p)
    BY <2>10, FlushOK
  <2>12. AppendRow(failing, s, row) \in Stores /\ Held(AppendRow(failing, s, row)) = Held(p)
    BY <2>3, <2>10, <2>11
  <2>. QED
    BY <1>2, <2>9, <2>12 DEF Continues
<1>. QED
  BY <1>1, <1>2

Appended(failing, s0, rows) == FoldLeft(LAMBDA s, row : AppendRow(failing, s, row), s0, rows)

AppendsRows(w, rows, failing, s0, n) ==
  w \in [0..n -> Stores] /\ w[0] = s0 /\ \A k \in 1..n : w[k] = AppendRow(failing, w[k - 1], rows[k])

LEMMA AppendFolds ==
  ASSUME NEW s \in Seq(Rows), NEW n \in Nat, DOMAIN s = 1..n, NEW failing \in Nat, NEW s0 \in Stores
  PROVE  \E w : AppendsRows(w, s, failing, s0, n) /\ Appended(failing, s0, s) = w[n]
<1>. DEFINE step == [k \in 1..n |-> [v \in Stores |-> AppendRow(failing, v, s[k])]]
            Unrolled(h, S) == IF S = {} THEN s0 ELSE AppendRow(failing, h[S \ {Max(S)}], s[Max(S)])
            iter[S \in SUBSET (1..n)] ==
              IF S = {} THEN s0 ELSE AppendRow(failing, iter[S \ {Max(S)}], s[Max(S)])
<1>1. PICK g \in [SUBSET (1..n) -> Stores] : FromTheEnd(g, n, s0, step)
  <2>1. step \in [1..n -> [Stores -> Stores]] /\ s0 \in Stores
    <3>1. \A k \in 1..n : s[k] \in Rows
      OBVIOUS
    <3>. QED
      BY <3>1, AppendRowOK
  <2>. HIDE DEF step
  <2>. QED
    BY <2>1, FromTheEndExists
<1>2. Appended(failing, s0, s) = iter[1..n]
  BY DEF Appended, FoldLeft, MapThenFoldSet
<1>3. \A S \in SUBSET (1..n) : g[S] = Unrolled(g, S)
  BY <1>1 DEF FromTheEnd
<1>4. g = [S \in SUBSET (1..n) |-> Unrolled(g, S)]
  BY <1>3
<1>5. iter = [S \in SUBSET (1..n) |-> Unrolled(iter, S)]
  <2>. HIDE DEF Unrolled
  <2>. QED
    BY <1>4, Zenon DEF Unrolled
<1>. HIDE DEF iter
<1>6. \A S \in SUBSET (1..n) : iter[S] = Unrolled(iter, S)
  <2>. HIDE DEF Unrolled
  <2>. QED
    BY <1>5, Zenon
<1>7. ASSUME NEW k \in 1..n
      PROVE  g[1..k] = AppendRow(failing, g[1..(k - 1)], s[k]) /\ iter[1..k] = AppendRow(failing, iter[1..(k - 1)], s[k])
  <2>1. /\ 1..k \in SUBSET (1..n) /\ 1..k # {}
        /\ Max(1..k) = k /\ (1..k) \ {k} = 1..(k - 1)
    BY FirstPlaces
  <2>2. g[1..k] = Unrolled(g, 1..k) /\ iter[1..k] = Unrolled(iter, 1..k)
    BY <1>3, <1>6, <2>1
  <2>. QED
    BY <2>1, <2>2
<1>. HIDE DEF Unrolled, step
<1>8. iter[1..n] = g[1..n]
  <2>1. iter[{}] = g[{}]
    BY <1>3, <1>6 DEF Unrolled
  <2>2. \A k \in 1..n : iter[1..(k - 1)] = g[1..(k - 1)] => iter[1..k] = g[1..k]
    BY <1>7
  <2>. QED
    BY ONLY <2>1, <2>2, n \in Nat, SameFold
<1>. DEFINE w == [k \in 0..n |-> g[1..k]]
<1>9. w[0] = s0
  <2>1. 1..0 = {} /\ {} \in SUBSET (1..n) /\ 0 \in 0..n
    OBVIOUS
  <2>. QED
    BY <1>3, <2>1 DEF Unrolled
<1>10. ASSUME NEW k \in 1..n PROVE w[k] = AppendRow(failing, w[k - 1], s[k])
  <2>1. k \in 0..n /\ k - 1 \in 0..n
    OBVIOUS
  <2>. QED
    BY <1>7, <2>1
<1>11. w \in [0..n -> Stores] /\ Appended(failing, s0, s) = w[n]
  <2>1. n \in 0..n /\ \A k \in 0..n : 1..k \in SUBSET (1..n)
    OBVIOUS
  <2>2. \A k \in 0..n : g[1..k] \in Stores
    BY <2>1
  <2>. QED
    BY <1>2, <1>8, <2>1, <2>2
<1>. QED
  BY <1>9, <1>10, <1>11 DEF AppendsRows

(* A store that took in the first n rows of a batch.                       *)
TookIn(s, s0, batch, n) == Held(s) = Held(s0) \o SubSeq(batch, 1, n)

LEMMA AppendedOK ==
  ASSUME NEW s0 \in Stores, NEW failing \in Nat, NEW batch \in Seq(Rows)
  PROVE  /\ Appended(failing, s0, batch) \in Stores
         /\ \E n \in 0..Len(batch) : TookIn(Appended(failing, s0, batch), s0, batch, n)
<1>1. PICK n \in Nat : n = Len(batch)
  OBVIOUS
<1>2. PICK w : AppendsRows(w, batch, failing, s0, n) /\ Appended(failing, s0, batch) = w[n]
  BY <1>1, AppendFolds
<1>3. \A k \in 0..n : w[k] \in Stores
  BY <1>2 DEF AppendsRows
<1>4. Held(s0) \in Seq(Rows)
  BY HeldOK DEF Stores
<1>. DEFINE P == {k \in 0..n : \E j \in 0..k : TookIn(w[k], s0, batch, j) /\ (~w[k].failed => j = k)}
<1>5. 0 \in P
  <2>1. 0 \in 0..n /\ 0 \in 0..0
    OBVIOUS
  <2>2. SubSeq(batch, 1, 0) = <<>>
    BY SubSeqEmpty
  <2>3. TookIn(w[0], s0, batch, 0)
    BY <1>2, <1>4, <2>2 DEF TookIn, AppendsRows
  <2>4. \A j \in 0..0 : j = 0
    OBVIOUS
  <2>. QED
    BY <2>1, <2>3, <2>4
<1>6. \A k \in 0..(n - 1) : k \in P => k + 1 \in P
  <2>. SUFFICES ASSUME NEW k \in 0..(n - 1), k \in P PROVE k + 1 \in P
    BY Zenon
  <2>1. k + 1 \in 0..n /\ k + 1 \in 1..n /\ (k + 1) - 1 = k /\ k \in 0..n /\ k + 1 \in 0..(k + 1)
    OBVIOUS
  <2>2. PICK j \in 0..k : TookIn(w[k], s0, batch, j) /\ (~w[k].failed => j = k)
    OBVIOUS
  <2>3. PICK row \in Rows : row = batch[k + 1]
    BY <1>1, <2>1
  <2>4. w[k + 1] = AppendRow(failing, w[k], row)
    BY <1>2, <2>1, <2>3 DEF AppendsRows
  <2>5. w[k] \in Stores
    BY <1>3, <2>1
  <2>6. /\ w[k].failed => w[k + 1] = w[k]
        /\ ~w[k].failed => Continues(Held(w[k + 1]), Held(w[k]), <<row>>)
    BY <2>4, <2>5, AppendRowOK
  <2>7. CASE w[k].failed
    <3>1. TookIn(w[k + 1], s0, batch, j) /\ w[k + 1].failed /\ j \in 0..(k + 1)
      BY <2>2, <2>6, <2>7
    <3>. QED
      BY <2>1, <3>1
  <2>8. CASE ~w[k].failed
    <3>1. Held(w[k + 1]) = Held(w[k]) \o <<row>> /\ Held(w[k]) = Held(s0) \o SubSeq(batch, 1, k)
      BY <2>2, <2>6, <2>8 DEF TookIn, Continues
    <3>2. SubSeq(batch, 1, k + 1) = SubSeq(batch, 1, k) \o <<row>>
      <4>1. k + 1 <= Len(batch) /\ k \in Nat
        BY <1>1
      <4>. QED
        BY <2>3, <4>1
    <3>3. PICK b \in Seq(Rows) : b = SubSeq(batch, 1, k)
      <4>1. SubSeq(batch, 1, k) \in Seq(Rows)
        BY <1>1
      <4>. QED
        BY ONLY <4>1, Zenon
    <3>4. (Held(s0) \o b) \o <<row>> = Held(s0) \o (b \o <<row>>)
      BY <1>4
    <3>5. TookIn(w[k + 1], s0, batch, k + 1)
      BY <3>1, <3>2, <3>3, <3>4, Zenon DEF TookIn
    <3>. QED
      BY <2>1, <3>5
  <2>. QED
    BY <2>7, <2>8
<1>7. n \in P
  <2>. HIDE DEF P
  <2>1. \A k \in 0..n : k \in P
    BY ONLY <1>5, <1>6, n \in Nat, UpTo
  <2>. QED
    BY <2>1
<1>8. w[n] \in Stores
  BY <1>3
<1>. QED
  BY <1>1, <1>2, <1>7, <1>8

-----------------------------------------------------------------------------
(* The steps.                                                              *)

ScrollInv == Handle \in Stores /\ reboots \in Nat

LEMMA HistoryIs == History = Flat(chunks, files) \o pendingRows
BY DEF History, Flat

LEMMA HistoryNext == History' = Flat(chunks', files') \o pendingRows'
<1>1. (History = Flat(chunks, files) \o pendingRows)'
  BY HistoryIs, PTL
<1>. QED
  BY <1>1

LEMMA HandleOK == History = Held(Handle)
<1>1. Handle.chunks = chunks /\ Handle.files = files /\ Handle.pending = pendingRows
  BY DEF Handle
<1>. QED
  BY <1>1, HistoryIs DEF Held

(* Whatever a call leaves in the store is what the store then is.          *)
LEMMA BecomeOK ==
  ASSUME NEW s \in Stores, Become(s)
  PROVE  Handle' \in Stores /\ History' = Held(s)
<1>0. s \in Handles /\ ChunksOK(s.chunks, s.files, s.next) /\ s.total = Len(Held(s))
  BY DEF Stores
<1>1. /\ s.pending \in Seq(Rows) /\ s.chunks \in Seq(Metas) /\ s.next \in Nat /\ s.total \in Nat
      /\ s.files \in Discs /\ s.failed \in BOOLEAN
  BY <1>0 DEF Handles
<1>2. PICK t : t = [pending |-> s.pending, chunks |-> s.chunks, next |-> s.next, total |-> s.total,
                    files |-> s.files, failed |-> FALSE]
  OBVIOUS
<1>3. Handle' = t
  BY <1>2 DEF Handle, Become
<1>4. t \in Handles
  BY <1>1, <1>2 DEF Handles
<1>5. /\ t.pending = s.pending /\ t.chunks = s.chunks /\ t.next = s.next /\ t.total = s.total
      /\ t.files = s.files
  BY <1>2
<1>6. Held(t) = Held(s)
  BY <1>5 DEF Held
<1>7. t \in Stores
  BY <1>0, <1>4, <1>5, <1>6 DEF Stores
<1>8. History' = Held(s)
  <2>1. chunks' = s.chunks /\ files' = s.files /\ pendingRows' = s.pending
    BY DEF Become
  <2>. QED
    BY <2>1, HistoryNext DEF Held
<1>. QED
  BY <1>3, <1>7, <1>8

(* Each step of the store is a step of the log, or none.                   *)
LEMMA ScrollStep ==
  ScrollInv /\ [ScrollNext]_scrollVars => ScrollInv' /\ [Log!Next]_<<History, reboots>>
<1>. SUFFICES ASSUME ScrollInv, [ScrollNext]_scrollVars
              PROVE  ScrollInv' /\ [Log!Next]_<<History, reboots>>
  OBVIOUS
<1>0. Handle \in Stores /\ reboots \in Nat /\ History = Held(Handle)
  BY HandleOK DEF ScrollInv
<1>1. ASSUME NEW batch \in RowBatches, AppendRows(batch)
      PROVE  ScrollInv' /\ Log!Grow
  <2>1. PICK failing \in nextSeq..(nextSeq + Len(batch)) : Become(Appended(failing, Handle, batch)) /\ UNCHANGED reboots
    BY <1>1 DEF AppendRows, Appended
  <2>2. batch \in Seq(Rows)
    BY BatchesOK
  <2>3. PICK s : s = Appended(failing, Handle, batch)
    OBVIOUS
  <2>4. s \in Stores /\ \E n \in 0..Len(batch) : TookIn(s, Handle, batch, n)
    <3>1. failing \in Nat
      <4>1. Handle \in Handles /\ Handle.next = nextSeq
        BY <1>0 DEF Stores, Handle
      <4>2. nextSeq \in Nat
        BY <4>1 DEF Handles
      <4>. QED
        BY <4>2
    <3>. QED
      BY <1>0, <2>2, <2>3, <3>1, AppendedOK
  <2>5. Handle' \in Stores /\ History' = Held(s)
    BY <2>1, <2>3, <2>4, BecomeOK
  <2>6. \E n \in 0..Len(batch) : History' = History \o SubSeq(batch, 1, n)
    BY <1>0, <2>4, <2>5 DEF TookIn
  <2>. QED
    BY <1>0, <2>1, <2>5, <2>6 DEF ScrollInv, Log!Grow
<1>2. CASE FlushRows
  <2>1. PICK fails \in BOOLEAN : Become(FlushChunk(Handle, fails)) /\ UNCHANGED reboots
    BY <1>2 DEF FlushRows
  <2>2. FlushChunk(Handle, fails) \in Stores /\ Held(FlushChunk(Handle, fails)) = Held(Handle)
    BY <1>0, FlushOK
  <2>3. Handle' \in Stores /\ History' = Held(FlushChunk(Handle, fails))
    BY <2>1, <2>2, BecomeOK
  <2>. QED
    BY <1>0, <2>1, <2>2, <2>3 DEF ScrollInv
<1>3. CASE Reopen
  <2>1. /\ reboots' = reboots + 1 /\ pendingRows' = <<>> /\ chunks' = <<>> /\ nextSeq' = 0 /\ totalRows' = 0
        /\ files' = files
    BY <1>3 DEF Reopen
  <2>2. History' = <<>> /\ Held(Handle') = <<>>
    <3>1. Flat(<<>>, files) = <<>> /\ <<>> \o <<>> = <<>>
      BY FlatEmpty
    <3>2. History' = Flat(chunks', files') \o pendingRows'
      BY HistoryNext
    <3>3. Held(Handle') = Flat(chunks', files') \o pendingRows'
      BY DEF Held, Handle
    <3>. QED
      BY <2>1, <3>1, <3>2, <3>3
  <2>3. Handle' = [pending |-> <<>>, chunks |-> <<>>, next |-> 0, total |-> 0, files |-> files, failed |-> FALSE]
    BY <2>1 DEF Handle
  <2>4. files \in Discs
    <3>1. Handle \in Handles /\ Handle.files = files
      BY <1>0 DEF Stores, Handle
    <3>. QED
      BY <3>1 DEF Handles
  <2>5. Handle' \in Handles
    BY <2>3, <2>4 DEF Handles
  <2>6. ChunksOK(<<>>, files, 0)
    BY DEF ChunksOK
  <2>7. Handle'.chunks = <<>> /\ Handle'.files = files /\ Handle'.next = 0 /\ Handle'.total = 0
    BY <2>3
  <2>8. Handle' \in Stores
    <3>1. Len(<<>>) = 0
      OBVIOUS
    <3>. QED
      BY <2>2, <2>5, <2>6, <2>7, <3>1 DEF Stores
  <2>. QED
    BY <1>0, <2>1, <2>2, <2>8 DEF ScrollInv, Log!Next, Log!Restart
<1>4. CASE UNCHANGED scrollVars
  <2>1. History' = History /\ Handle' = Handle /\ reboots' = reboots
    <3>1. chunks' = chunks /\ files' = files /\ pendingRows' = pendingRows
      BY <1>4 DEF scrollVars
    <3>2. History' = History
      BY <3>1, HistoryIs, HistoryNext
    <3>. QED
      BY <1>4, <3>2 DEF scrollVars, Handle
  <2>. QED
    BY <1>0, <2>1 DEF ScrollInv
<1>. QED
  BY <1>1, <1>2, <1>3, <1>4 DEF ScrollNext, Log!Next

LEMMA ScrollInitOK == ScrollInit => ScrollInv /\ Log!Init
<1>. SUFFICES ASSUME ScrollInit PROVE ScrollInv /\ Log!Init
  OBVIOUS
<1>1. /\ pendingRows = <<>> /\ chunks = <<>> /\ nextSeq = 0 /\ totalRows = 0 /\ files = <<>> /\ reboots = 0
  BY DEF ScrollInit
<1>2. History = <<>>
  <2>1. Flat(<<>>, <<>>) = <<>> /\ <<>> \o <<>> = <<>>
    BY FlatEmpty
  <2>2. History = Flat(chunks, files) \o pendingRows
    BY HistoryIs
  <2>. QED
    BY <1>1, <2>1, <2>2
<1>3. <<>> \in Discs
  <2>1. <<>> \in [{} -> Seq(Rows)]
    OBVIOUS
  <2>. QED
    BY <2>1 DEF Discs
<1>4. Handle = [pending |-> <<>>, chunks |-> <<>>, next |-> 0, total |-> 0, files |-> <<>>, failed |-> FALSE]
  BY <1>1 DEF Handle
<1>5. Handle \in Handles
  BY <1>3, <1>4 DEF Handles
<1>6. /\ Handle.chunks = <<>> /\ Handle.files = <<>> /\ Handle.next = 0 /\ Handle.total = 0
      /\ ChunksOK(<<>>, <<>>, 0) /\ Len(<<>>) = 0
  BY <1>4 DEF ChunksOK
<1>7. Handle \in Stores
  BY <1>2, <1>5, <1>6, HandleOK DEF Stores
<1>. QED
  BY <1>1, <1>2, <1>7 DEF ScrollInv, Log!Init

(* The scrollback store implements the append-only log: what was readable  *)
(* stays where it was, whichever writes fail, until the daemon restarts.   *)
THEOREM StoreImplementsLog == ScrollSpec => HistoryIsAppendOnly
<1>1. ScrollInit => ScrollInv /\ Log!Init
  BY ScrollInitOK
<1>2. ScrollInv /\ [ScrollNext]_scrollVars => ScrollInv' /\ [Log!Next]_<<History, reboots>>
  BY ScrollStep
<1>. QED
  BY <1>1, <1>2, PTL DEF ScrollSpec, HistoryIsAppendOnly, Log!Spec

(* A page is exactly its part of the history, for any cursor and limit,    *)
(* any size of chunks, any batches and any writes that fail.               *)
THEOREM PagesAreExact == ScrollSpec => []PageIsExact
<1>1. ScrollInv => PageIsExact
  <2>. SUFFICES ASSUME ScrollInv, NEW c \in 0..(totalRows + 1), NEW l \in 0..(totalRows + 1)
                PROVE  ReadHistory(c, l) = SubSeq(History, c + 1, Min2(Len(History), c + l))
    BY DEF PageIsExact
  <2>1. PICK s \in Stores : s = Handle
    BY DEF ScrollInv
  <2>2. s.chunks = chunks /\ s.files = files /\ s.pending = pendingRows /\ s.total = totalRows /\ s.next = nextSeq
    BY <2>1 DEF Handle
  <2>3. s \in Handles /\ ChunksOK(chunks, files, nextSeq)
    BY <2>2 DEF Stores
  <2>4. pendingRows \in Seq(Rows) /\ chunks \in Seq(Metas) /\ totalRows \in Nat
    BY <2>2, <2>3 DEF Handles
  <2>5. Readable(chunks, files, Rows) /\ Flat(chunks, files) \in Seq(Rows)
    BY <2>2, <2>3, HeldOK DEF Readable
  <2>6. c \in Nat /\ l \in Nat
    BY <2>4
  <2>7. \A k \in 1..Len(chunks) : files[chunks[k].seq] \in Seq(Rows) /\ chunks[k].count = Len(files[chunks[k].seq])
    BY <2>3, <2>5 DEF ChunksOK, Readable
  <2>8. /\ Scanned(chunks, files, c, l).page = Page(Flat(chunks, files), c, l)
        /\ Scanned(chunks, files, c, l).base = Len(Flat(chunks, files))
    BY <2>4, <2>6, <2>7, ScannedOK
  <2>9. ReadHistory(c, l) =
          Taken(Scanned(chunks, files, c, l).page, Scanned(chunks, files, c, l).base, pendingRows, c, l)
    BY DEF ReadHistory, Scanned, Scan, ScanStart
  <2>10. Taken(Page(Flat(chunks, files), c, l), Len(Flat(chunks, files)), pendingRows, c, l) =
           Page(Flat(chunks, files) \o pendingRows, c, l)
    BY <2>4, <2>5, <2>6, TakenOK
  <2>11. Flat(chunks, files) \o pendingRows = History
    BY HistoryIs
  <2>. QED
    BY <2>8, <2>9, <2>10, <2>11 DEF Page
<1>. QED
  BY <1>1, ScrollInitOK, ScrollStep, PTL DEF ScrollSpec

(* The total a page reports is the length of the history, and no two       *)
(* chunks of a run share a file.                                           *)
THEOREM TotalsAreExact == ScrollSpec => []TotalIsExact
<1>1. ScrollInv => TotalIsExact
  <2>. SUFFICES ASSUME ScrollInv PROVE TotalIsExact
    OBVIOUS
  <2>1. PICK s \in Stores : s = Handle
    BY DEF ScrollInv
  <2>2. s.chunks = chunks /\ s.files = files /\ s.total = totalRows /\ s.next = nextSeq
    BY <2>1 DEF Handle
  <2>3. ChunksOK(chunks, files, nextSeq) /\ totalRows = Len(History) /\ s \in Handles
    BY <2>1, <2>2, HandleOK DEF Stores
  <2>4. chunks \in Seq(Metas)
    BY <2>2, <2>3 DEF Handles
  <2>5. DOMAIN chunks = 1..Len(chunks)
    BY <2>4
  <2>. QED
    BY <2>3, <2>5 DEF TotalIsExact, ChunksOK
<1>. QED
  BY <1>1, ScrollInitOK, ScrollStep, PTL DEF ScrollSpec

-----------------------------------------------------------------------------
(* The attach loops.                                                       *)

ClientStates == [phase : Phases, got : Seq(Nat), begun : Nat, since : Nat]
FrameCounts  == [sent : Nat, halfway : BOOLEAN, forwarded : Nat]

-----------------------------------------------------------------------------
(* Frames on the wire.                                                     *)

Parts == {"header", "body"}

(* Headers and bodies alternate, from a header on.                         *)
Aligned(w) == \A i \in 1 .. Len(w) : w[i] = IF i % 2 = 1 THEN "header" ELSE "body"

(* What is on a client's wire, against what the client sent.               *)
Torn(w) == Len(w) > 0 /\ w[1] = "body"
Accounted(w, f) ==
  /\ Aligned(w)
  /\ f.sent = f.forwarded + Len(w) \div 2
  /\ Len(w) > 0 => (f.halfway <=> Len(w) % 2 = 1)

WireOK  == wire \in [Clients -> Seq(Parts)] /\ frames \in [Clients -> FrameCounts]
WireInv == WireOK /\ \A c \in Clients : Torn(wire[c]) \/ Accounted(wire[c], frames[c])

LEMMA Halves ==
  \A n \in Nat : /\ n \div 2 \in Nat /\ (n + 2) \div 2 = n \div 2 + 1 /\ (n + 2) % 2 = n % 2
                 /\ n % 2 = 0 => (n + 1) \div 2 = n \div 2 /\ (n + 1) % 2 = 1
                 /\ n % 2 = 1 => (n + 1) \div 2 = n \div 2 + 1 /\ (n + 1) % 2 = 0
                 /\ n % 2 \in {0, 1} /\ (n < 2 => n \div 2 = 0)
OBVIOUS

LEMMA NothingSent == \A f \in FrameCounts : f.sent = f.forwarded => Accounted(<<>>, f)
<1>1. Len(<<>>) = 0 /\ 0 \div 2 = 0
  OBVIOUS
<1>2. \A m, n \in Nat : m = n => m = n + 0
  OBVIOUS
<1>. QED
  BY <1>1, <1>2 DEF Accounted, Aligned, FrameCounts

LEMMA AppendAligns ==
  ASSUME NEW w \in Seq(Parts), NEW part \in Parts, Aligned(w),
         part = IF (Len(w) + 1) % 2 = 1 THEN "header" ELSE "body"
  PROVE  Aligned(Append(w, part))
<1>1. /\ Len(Append(w, part)) = Len(w) + 1 /\ Len(w) \in Nat
      /\ \A i \in 1 .. Len(w) : Append(w, part)[i] = w[i]
      /\ Append(w, part)[Len(w) + 1] = part
  BY AppendProperties, LenProperties
<1>. DEFINE v == Append(w, part)
            n == Len(w)
<1>2. \A i \in 1 .. n + 1 : i \in 1 .. n \/ i = n + 1
  BY <1>1
<1>. HIDE DEF v, n
<1>3. \A i \in 1 .. n + 1 : v[i] = IF i % 2 = 1 THEN "header" ELSE "body"
  BY <1>1, <1>2 DEF Aligned, v, n
<1>. QED
  BY <1>1, <1>3 DEF Aligned, v, n

LEMMA HeaderOK ==
  ASSUME NEW w \in Seq(Parts), NEW f \in FrameCounts, NEW g \in FrameCounts,
         Torn(w) \/ Accounted(w, f), ~f.halfway,
         g.sent = f.sent, g.forwarded = f.forwarded, g.halfway
  PROVE  Torn(Append(w, "header")) \/ Accounted(Append(w, "header"), g)
<1>. DEFINE v == Append(w, "header")
            n == Len(w)
<1>1. n \in Nat /\ Len(v) = n + 1 /\ \A i \in 1 .. n : v[i] = w[i]
  BY AppendProperties, LenProperties DEF Parts
<1>. HIDE DEF v
<1>2. CASE Torn(w)
  <2>1. n > 0 /\ w[1] = "body"
    BY <1>2 DEF Torn
  <2>. HIDE DEF n
  <2>2. 1 \in 1 .. n /\ n + 1 > 0
    BY <1>1, <2>1
  <2>. QED
    BY <1>1, <2>1, <2>2 DEF Torn, v
<1>3. CASE Accounted(w, f)
  <2>1. n % 2 = 0
    <3>1. n = 0 \/ n > 0
      BY <1>1
    <3>. QED
      BY <1>1, <1>3, <3>1, Halves DEF Accounted
  <2>2. (n + 1) \div 2 = n \div 2 /\ (n + 1) % 2 = 1 /\ 0 % 2 = 0
    BY <1>1, <2>1, Halves
  <2>3. Aligned(v)
    BY <1>3, <2>2, AppendAligns DEF Accounted, Parts, v
  <2>4. f.sent = f.forwarded + n \div 2
    BY <1>3 DEF Accounted
  <2>. QED
    BY <1>1, <2>2, <2>3, <2>4 DEF Accounted, v
<1>. QED
  BY <1>2, <1>3

LEMMA BodyOK ==
  ASSUME NEW w \in Seq(Parts), NEW f \in FrameCounts, NEW g \in FrameCounts,
         Torn(w) \/ Accounted(w, f), f.halfway,
         g.sent = f.sent + 1, g.forwarded = f.forwarded, ~g.halfway
  PROVE  Torn(Append(w, "body")) \/ Accounted(Append(w, "body"), g)
<1>. DEFINE v == Append(w, "body")
            n == Len(w)
<1>1. n \in Nat /\ Len(v) = n + 1 /\ v[n + 1] = "body" /\ \A i \in 1 .. n : v[i] = w[i]
  BY AppendProperties, LenProperties DEF Parts
<1>. HIDE DEF v
<1>2. CASE Torn(w)
  <2>1. n > 0 /\ w[1] = "body"
    BY <1>2 DEF Torn
  <2>. HIDE DEF n
  <2>2. 1 \in 1 .. n /\ n + 1 > 0
    BY <1>1, <2>1
  <2>. QED
    BY <1>1, <2>1, <2>2 DEF Torn, v
<1>3. CASE n = 0
  <2>1. n + 1 = 1 /\ n + 1 > 0
    BY <1>3
  <2>. QED
    BY <1>1, <2>1 DEF Torn, v
<1>4. CASE Accounted(w, f) /\ n # 0
  <2>1. n % 2 = 1
    <3>1. n > 0
      BY <1>1, <1>4
    <3>. QED
      BY <1>4, <3>1 DEF Accounted
  <2>2. (n + 1) \div 2 = n \div 2 + 1 /\ (n + 1) % 2 = 0 /\ n \div 2 \in Nat /\ 0 # 1
    BY <1>1, <2>1, Halves
  <2>3. Aligned(v)
    BY <1>4, <2>2, AppendAligns DEF Accounted, Parts, v
  <2>4. f.sent = f.forwarded + n \div 2
    BY <1>4 DEF Accounted
  <2>5. g.sent = g.forwarded + (n + 1) \div 2
    <3>1. \A a, b, h \in Nat : a = b + h => a + 1 = b + (h + 1)
      OBVIOUS
    <3>. QED
      BY <2>2, <2>4, <3>1 DEF FrameCounts
  <2>. QED
    BY <1>1, <2>2, <2>3, <2>5 DEF Accounted, v
<1>. QED
  BY <1>2, <1>3, <1>4

LEMMA FrameOK ==
  ASSUME NEW w \in Seq(Parts), NEW f \in FrameCounts, NEW g \in FrameCounts,
         Torn(w) \/ Accounted(w, f), Len(w) >= 2, w[1] = "header",
         g.sent = f.sent, g.forwarded = f.forwarded + 1, g.halfway = f.halfway
  PROVE  /\ SubSeq(w, 3, Len(w)) \in Seq(Parts)
         /\ Accounted(SubSeq(w, 3, Len(w)), g)
<1>. DEFINE v == SubSeq(w, 3, Len(w))
            n == Len(v)
<1>1. Len(w) \in Nat /\ DOMAIN w = 1 .. Len(w) /\ \A i \in 1 .. Len(w) : w[i] \in Parts
  BY LenProperties, ElementOfSeq
<1>2. \A m \in Nat : m >= 2 => /\ 3 \in Int /\ m \in Int /\ \A i \in 3 .. m : i \in 1 .. m
                               /\ (IF 3 <= m THEN m - 3 + 1 ELSE 0) = m - 2 /\ m - 3 + 1 = m - 2
                               /\ m - 2 \in Nat /\ \A i \in Nat : 3 + i - 1 = i + 2
  OBVIOUS
<1>3. /\ v \in Seq(Parts) /\ Len(v) = (IF 3 <= Len(w) THEN Len(w) - 3 + 1 ELSE 0)
      /\ \A i \in 1 .. Len(w) - 3 + 1 : v[i] = w[3 + i - 1]
  <2>1. \A i \in 3 .. Len(w) : w[i] \in Parts
    BY <1>1, <1>2
  <2>2. 3 \in Int /\ Len(w) \in Int
    BY <1>1
  <2>. QED
    BY <2>1, <2>2, SubSeqProperties
<1>. HIDE DEF v
<1>4. n = Len(w) - 2 /\ n \in Nat
  BY <1>1, <1>2, <1>3
<1>5. \A i \in 1 .. n : v[i] = w[i + 2]
  <2>1. \A i \in 1 .. n : i \in Nat
    BY <1>4
  <2>. QED
    BY <1>1, <1>2, <1>3, <1>4, <2>1
<1>6. Accounted(w, f)
  <2>1. "header" # "body"
    OBVIOUS
  <2>. QED
    BY <2>1 DEF Torn
<1>. HIDE DEF n
<1>7. Len(w) = n + 2
  BY <1>1, <1>4
<1>8. Aligned(v)
  <2>1. \A i \in 1 .. n : i + 2 \in 1 .. n + 2 /\ i \in Nat
    BY <1>4
  <2>. QED
    BY <1>5, <1>6, <1>7, <2>1, Halves DEF Aligned, Accounted, n
<1>9. /\ n \div 2 \in Nat /\ Len(w) \div 2 = n \div 2 + 1 /\ Len(w) % 2 = n % 2 /\ Len(w) > 0
  BY <1>4, <1>7, Halves
<1>10. g.sent = g.forwarded + n \div 2
  <2>1. \A a, b, h \in Nat : a = b + (h + 1) => a = (b + 1) + h
    OBVIOUS
  <2>. QED
    BY <1>6, <1>9, <2>1 DEF Accounted, FrameCounts
<1>. QED
  BY <1>3, <1>6, <1>8, <1>9, <1>10 DEF Accounted, n, v

(* One client's wire and counts change, the others stay.                   *)
LEMMA OneClient ==
  ASSUME WireInv, NEW c \in Clients, NEW w \in Seq(Parts), NEW f \in FrameCounts,
         wire' = [wire EXCEPT ![c] = w], frames' = [frames EXCEPT ![c] = f],
         Torn(w) \/ Accounted(w, f)
  PROVE  WireInv'
<1>1. /\ wire' \in [Clients -> Seq(Parts)] /\ frames' \in [Clients -> FrameCounts]
      /\ wire'[c] = w /\ frames'[c] = f
      /\ \A d \in Clients \ {c} : wire'[d] = wire[d] /\ frames'[d] = frames[d]
  BY DEF WireInv, WireOK
<1>2. \A d \in Clients : Torn(wire'[d]) \/ Accounted(wire'[d], frames'[d])
  BY <1>1 DEF WireInv
<1>. QED
  BY <1>1, <1>2 DEF WireInv, WireOK

LEMMA WireInitOK == AttachInit => WireInv
<1>. SUFFICES ASSUME AttachInit PROVE WireInv
  OBVIOUS
<1>. DEFINE none == [sent |-> 0, halfway |-> FALSE, forwarded |-> 0]
<1>1. none \in FrameCounts /\ none.sent = 0 /\ none.forwarded = 0 /\ <<>> \in Seq(Parts)
  BY DEF FrameCounts
<1>2. wire = [c \in Clients |-> <<>>] /\ frames = [c \in Clients |-> none]
  BY DEF AttachInit
<1>. HIDE DEF none
<1>3. Accounted(<<>>, none)
  BY <1>1, NothingSent
<1>. QED
  BY <1>1, <1>2, <1>3 DEF WireInv, WireOK

LEMMA WireStep == WireInv /\ [AttachNext]_attachVars => WireInv'
<1>. SUFFICES ASSUME WireInv, [AttachNext]_attachVars PROVE WireInv'
  OBVIOUS
<1>0. \A c \in Clients : /\ wire[c] \in Seq(Parts) /\ frames[c] \in FrameCounts
                         /\ Torn(wire[c]) \/ Accounted(wire[c], frames[c])
  BY DEF WireInv, WireOK
<1>1. CASE UNCHANGED <<wire, frames>>
  BY <1>1 DEF WireInv, WireOK
<1>2. ASSUME NEW c \in Clients, SendHeader(c) PROVE WireInv'
  <2>. DEFINE g == [frames[c] EXCEPT !.halfway = TRUE]
              w == Append(wire[c], "header")
  <2>1. wire' = [wire EXCEPT ![c] = w] /\ frames' = [frames EXCEPT ![c] = g] /\ ~frames[c].halfway
    BY <1>2 DEF SendHeader
  <2>2. g \in FrameCounts /\ g.sent = frames[c].sent /\ g.forwarded = frames[c].forwarded /\ g.halfway
    BY <1>0 DEF FrameCounts
  <2>3. w \in Seq(Parts)
    BY <1>0, AppendProperties DEF Parts
  <2>. HIDE DEF g
  <2>4. Torn(w) \/ Accounted(w, g)
    BY <1>0, <2>1, <2>2, HeaderOK
  <2>. HIDE DEF w
  <2>. QED
    BY <2>1, <2>2, <2>3, <2>4, OneClient
<1>3. ASSUME NEW c \in Clients, SendBody(c) PROVE WireInv'
  <2>. DEFINE g == [frames[c] EXCEPT !.halfway = FALSE, !.sent = @ + 1]
              w == Append(wire[c], "body")
  <2>1. wire' = [wire EXCEPT ![c] = w] /\ frames' = [frames EXCEPT ![c] = g] /\ frames[c].halfway
    BY <1>3 DEF SendBody
  <2>2. g \in FrameCounts /\ g.sent = frames[c].sent + 1 /\ g.forwarded = frames[c].forwarded /\ ~g.halfway
    <3>1. frames[c] \in [sent : Nat, halfway : BOOLEAN, forwarded : Nat] /\ frames[c].sent + 1 \in Nat
      BY <1>0 DEF FrameCounts
    <3>. QED
      BY <3>1 DEF FrameCounts
  <2>3. w \in Seq(Parts)
    BY <1>0, AppendProperties DEF Parts
  <2>. HIDE DEF g
  <2>4. Torn(w) \/ Accounted(w, g)
    BY <1>0, <2>1, <2>2, BodyOK
  <2>. HIDE DEF w
  <2>. QED
    BY <2>1, <2>2, <2>3, <2>4, OneClient
<1>4. ASSUME NEW c \in Clients, ReadFrame(c) PROVE WireInv'
  <2>. DEFINE g == [frames[c] EXCEPT !.forwarded = @ + 1]
              w == SubSeq(wire[c], 3, Len(wire[c]))
  <2>1. wire' = [wire EXCEPT ![c] = w] /\ frames' = [frames EXCEPT ![c] = g]
        /\ Len(wire[c]) >= 2 /\ wire[c][1] = "header"
    BY <1>4 DEF ReadFrame, FrameReady
  <2>2. g \in FrameCounts /\ g.sent = frames[c].sent /\ g.forwarded = frames[c].forwarded + 1
        /\ g.halfway = frames[c].halfway
    BY <1>0 DEF FrameCounts
  <2>. HIDE DEF g
  <2>3. w \in Seq(Parts) /\ Accounted(w, g)
    BY <1>0, <2>1, <2>2, FrameOK
  <2>. HIDE DEF w
  <2>. QED
    BY <2>1, <2>2, <2>3, OneClient
(* The timer fires while a part of a frame may have been read: an aligned  *)
(* wire then holds a header at most, and dropping it loses no whole frame. *)
<1>5. ASSUME NEW c \in Clients, Tick(c) PROVE WireInv'
  <2>1. /\ wire' = [wire EXCEPT ![c] = <<>>] /\ frames' = frames
        /\ ~(Len(wire[c]) >= 2 /\ wire[c][1] = "header") /\ ~(wire[c] # <<>> /\ wire[c][1] = "body")
    BY <1>5 DEF Tick, FrameReady, Misaligned
  <2>2. wire[c] # <<>> => wire[c][1] = "header"
    BY <1>0, <2>1, ElementOfSeq, EmptySeq DEF Parts
  <2>3. Len(wire[c]) \div 2 = 0
    <3>1. Len(wire[c]) \in Nat /\ (wire[c] = <<>> => Len(wire[c]) = 0)
      BY <1>0, LenProperties, EmptySeq
    <3>2. Len(wire[c]) < 2
      <4>1. \A n \in Nat : ~(n >= 2) \/ n = 0 => n < 2
        OBVIOUS
      <4>. QED
        BY <2>1, <2>2, <3>1, <4>1
    <3>. QED
      BY <3>1, <3>2, Halves
  <2>4. Accounted(wire[c], frames[c])
    <3>1. ~Torn(wire[c])
      BY <1>0, <2>1, EmptySeq DEF Torn
    <3>. QED
      BY <1>0, <3>1
  <2>5. frames[c].sent = frames[c].forwarded
    <3>1. \A n \in Nat : n + 0 = n
      OBVIOUS
    <3>. QED
      BY <1>0, <2>3, <2>4, <3>1 DEF Accounted, FrameCounts
  <2>6. Accounted(<<>>, frames[c]) /\ <<>> \in Seq(Parts)
    BY <1>0, <2>5, NothingSent, EmptySeq
  <2>7. frames' = [frames EXCEPT ![c] = frames[c]]
    BY <2>1 DEF WireInv, WireOK
  <2>. QED
    BY <1>0, <2>1, <2>6, <2>7, OneClient
<1>6. ASSUME NEW c \in Clients, AttachEnd(c) PROVE WireInv'
  <2>. DEFINE none == [sent |-> 0, halfway |-> FALSE, forwarded |-> 0]
  <2>1. none \in FrameCounts /\ none.sent = 0 /\ none.forwarded = 0
    BY DEF FrameCounts
  <2>2. wire' = [wire EXCEPT ![c] = <<>>] /\ frames' = [frames EXCEPT ![c] = none]
    BY <1>6 DEF AttachEnd
  <2>. HIDE DEF none
  <2>3. Accounted(<<>>, none) /\ <<>> \in Seq(Parts)
    BY <2>1, NothingSent, EmptySeq
  <2>. QED
    BY <2>1, <2>2, <2>3, OneClient
<1>7. ASSUME NEW c \in Clients, AttachBegin(c) \/ Detach(c) \/ ReadGarbage(c)
      PROVE  WireInv'
  BY <1>1, <1>7 DEF AttachBegin, Detach, ReadGarbage
<1>8. CASE PrintChunk \/ ProviderExits \/ ReadTty \/ Pump \/ PumpRetires \/ StopInstance \/ JoinReader \/ Relaunch
  BY <1>1, <1>8 DEF PrintChunk, ProviderExits, ReadTty, Pump, PumpRetires, StopInstance, JoinReader, Relaunch
<1>9. CASE UNCHANGED attachVars
  BY <1>1, <1>9 DEF attachVars
<1>. QED
  BY <1>2, <1>3, <1>4, <1>5, <1>6, <1>7, <1>8, <1>9 DEF AttachNext

(* Of n alternating parts, n \div 2 are bodies.                            *)
LEMMA HalfAreBodies ==
  ASSUME NEW n \in Nat
  PROVE  Cardinality({i \in 1 .. n : i % 2 = 0}) = n \div 2
<1>. DEFINE half == n \div 2
            f == [k \in 1 .. half |-> 2 * k]
<1>1. half \in Nat /\ 2 * half <= n /\ n <= 2 * half + 1
  OBVIOUS
<1>2. \A i \in 1 .. n : i % 2 = 0 => \E k \in 1 .. half : i = 2 * k
  <2>. SUFFICES ASSUME NEW i \in 1 .. n, i % 2 = 0
                PROVE  i \div 2 \in 1 .. half /\ i = 2 * (i \div 2)
    OBVIOUS
  <2>. QED
    BY <1>1
<1>3. \A k \in 1 .. half : 2 * k \in 1 .. n /\ (2 * k) % 2 = 0
  BY <1>1
<1>. HIDE DEF half
<1>. DEFINE even == {i \in 1 .. n : i % 2 = 0}
<1>4. f \in Bijection(1 .. half, even)
  <2>1. f \in [1 .. half -> even]
    BY <1>3
  <2>2. \A j, k \in 1 .. half : f[j] = f[k] => j = k
    BY <1>1
  <2>3. \A i \in even : \E k \in 1 .. half : f[k] = i
    BY <1>2
  <2>. HIDE DEF f, even
  <2>. QED
    BY <2>1, <2>2, <2>3 DEF Bijection, Injection, Surjection, IsInjective
<1>5. IsFiniteSet(1 .. half) /\ Cardinality(1 .. half) = half
  BY <1>1, FS_Interval
<1>6. ExistsBijection(1 .. half, {i \in 1 .. n : i % 2 = 0})
  BY <1>4 DEF ExistsBijection
<1>. QED
  BY <1>5, <1>6, FS_Bijection DEF half

(* server.rs:108: a frame torn by the frame timer is never swallowed in    *)
(* silence, for any number of clients and frames.                          *)
THEOREM FramesAreAccounted == AttachSpec => []TornFrameEndsTheStream
<1>1. WireInv => TornFrameEndsTheStream
  <2>. SUFFICES ASSUME WireInv, NEW c \in Streaming
                PROVE  \/ \E i \in DOMAIN wire[c] : wire[c][i] = "body" /\ (i = 1 \/ wire[c][i - 1] = "body")
                       \/ frames[c].sent = frames[c].forwarded
                                           + Cardinality({i \in DOMAIN wire[c] : wire[c][i] = "body"})
    BY DEF TornFrameEndsTheStream
  <2>1. c \in Clients /\ wire[c] \in Seq({"header", "body"})
    BY DEF Streaming, WireInv, WireOK, Parts
  <2>2. CASE Torn(wire[c])
    <3>1. 1 \in DOMAIN wire[c]
      BY <2>1, <2>2 DEF Torn
    <3>. QED
      BY <2>2, <3>1 DEF Torn
  <2>3. CASE Accounted(wire[c], frames[c])
    <3>1. DOMAIN wire[c] = 1 .. Len(wire[c]) /\ Len(wire[c]) \in Nat
      BY <2>1
    <3>2. {i \in DOMAIN wire[c] : wire[c][i] = "body"} = {i \in 1 .. Len(wire[c]) : i % 2 = 0}
      BY <2>3, <3>1 DEF Accounted, Aligned
    <3>3. Cardinality({i \in DOMAIN wire[c] : wire[c][i] = "body"}) = Len(wire[c]) \div 2
      BY <3>1, <3>2, HalfAreBodies
    <3>. QED
      BY <2>3, <3>3 DEF Accounted
  <2>. QED
    BY <2>1, <2>2, <2>3 DEF WireInv
<1>. QED
  BY <1>1, WireInitOK, WireStep, PTL DEF AttachSpec

-----------------------------------------------------------------------------
(* Output, in the order it was printed.                                    *)

Sorted(s)    == \A i, j \in 1 .. Len(s) : i < j => s[i] < s[j]
Before(S, T) == \A x \in S, y \in T : x < y

LEMMA EmptyOutput == Sorted(<<>>) /\ Range(<<>>) = {} /\ <<>> \in Seq(Nat) /\ Len(<<>>) = 0
BY DEF Sorted, Range

LEMMA RangeIsIndexed ==
  ASSUME NEW s \in Seq(Nat)
  PROVE  /\ Range(s) \subseteq Nat
         /\ \A i \in 1 .. Len(s) : s[i] \in Range(s)
         /\ \A y \in Range(s) : \E i \in 1 .. Len(s) : y = s[i]
<1>1. Range(s) = {s[i] : i \in 1 .. Len(s)}
  BY RangeEquality
<1>. QED
  BY <1>1, RangeOfSeq, Zenon

LEMMA ConcatOrdered ==
  ASSUME NEW s \in Seq(Nat), NEW t \in Seq(Nat), Sorted(s), Sorted(t), Before(Range(s), Range(t))
  PROVE  Sorted(s \o t)
<1>. DEFINE m == Len(s)
            n == Len(t)
            st == s \o t
<1>1. /\ m \in Nat /\ n \in Nat /\ Len(st) = m + n
      /\ \A i \in 1 .. m + n : st[i] = IF i <= m THEN s[i] ELSE t[i - m]
  BY ConcatProperties, LenProperties
<1>2. \A i \in 1 .. m, j \in 1 .. n : s[i] < t[j]
  BY RangeIsIndexed DEF Before
<1>. HIDE DEF m, n, st
<1>3. \A i, j \in 1 .. m + n : i < j => st[i] < st[j]
  <2>. SUFFICES ASSUME NEW i \in 1 .. m + n, NEW j \in 1 .. m + n, i < j PROVE st[i] < st[j]
    OBVIOUS
  <2>1. CASE j <= m
    <3>1. i \in 1 .. m /\ j \in 1 .. m /\ i <= m
      BY <1>1, <2>1
    <3>. QED
      BY <1>1, <2>1, <3>1 DEF Sorted, m
  <2>2. CASE i <= m /\ ~(j <= m)
    <3>1. i \in 1 .. m /\ j - m \in 1 .. n
      BY <1>1, <2>2
    <3>. QED
      BY <1>1, <1>2, <2>2, <3>1
  <2>3. CASE ~(i <= m)
    <3>1. i - m \in 1 .. n /\ j - m \in 1 .. n /\ i - m < j - m /\ ~(j <= m)
      BY <1>1, <2>3
    <3>. QED
      BY <1>1, <2>3, <3>1 DEF Sorted, n
  <2>. QED
    BY <1>1, <2>1, <2>2, <2>3
<1>. QED
  BY <1>1, <1>3 DEF Sorted, st

LEMMA SuffixOrdered ==
  ASSUME NEW s \in Seq(Nat), Sorted(s), NEW m \in 1 .. Len(s)
  PROVE  /\ SubSeq(s, m, Len(s)) \in Seq(Nat) /\ Sorted(SubSeq(s, m, Len(s)))
         /\ Range(SubSeq(s, m, Len(s))) \subseteq Range(s)
<1>. DEFINE n == Len(s)
            v == SubSeq(s, m, n)
<1>1. n \in Nat /\ \A i \in 1 .. n : s[i] \in Nat
  BY LenProperties, ElementOfSeq
<1>2. v \in Seq(Nat) /\ Len(v) = n - m + 1 /\ \A i \in 1 .. n - m + 1 : v[i] = s[m + i - 1]
  <2>1. /\ m \in Int /\ n \in Int /\ m <= n /\ \A i \in m .. n : i \in 1 .. n
    BY <1>1
  <2>. HIDE DEF n
  <2>2. \A i \in m .. n : s[i] \in Nat
    BY <1>1, <2>1
  <2>. QED
    BY <2>1, <2>2, SubSeqProperties DEF n
<1>. HIDE DEF v
<1>3. Len(v) \in Nat /\ m \in Nat /\ m >= 1 /\ Len(v) = n - m + 1
  BY <1>1, <1>2
<1>4. \A i \in 1 .. Len(v) : m + i - 1 \in 1 .. n /\ v[i] = s[m + i - 1]
  <2>1. \A l, k \in Nat : l = k - m + 1 => \A i \in 1 .. l : m + i - 1 \in 1 .. k
    BY <1>3
  <2>. QED
    BY <1>1, <1>2, <1>3, <2>1
<1>5. Sorted(v)
  <2>. SUFFICES ASSUME NEW i \in 1 .. Len(v), NEW j \in 1 .. Len(v), i < j PROVE v[i] < v[j]
    BY DEF Sorted
  <2>1. m + i - 1 < m + j - 1
    BY <1>3
  <2>. QED
    BY <1>4, <2>1 DEF Sorted
<1>6. Range(v) \subseteq Range(s)
  <2>1. \A y \in Range(v) : \E i \in 1 .. Len(v) : y = v[i]
    BY <1>2, RangeIsIndexed
  <2>2. \A i \in 1 .. n : s[i] \in Range(s)
    BY RangeIsIndexed
  <2>. HIDE DEF n
  <2>. QED
    BY <1>4, <2>1, <2>2, Zenon
<1>. QED
  BY <1>2, <1>5, <1>6 DEF v

LEMMA TailOrdered ==
  ASSUME NEW s \in Seq(Nat), s # <<>>, Sorted(s)
  PROVE  /\ Head(s) \in Range(s) /\ Head(s) \in Nat
         /\ Tail(s) \in Seq(Nat) /\ Sorted(Tail(s)) /\ Range(Tail(s)) \subseteq Range(s)
         /\ Before({Head(s)}, Range(Tail(s)))
<1>1. /\ Tail(s) \in Seq(Nat) /\ Len(Tail(s)) = Len(s) - 1 /\ Head(s) = s[1]
      /\ \A i \in 1 .. Len(Tail(s)) : Tail(s)[i] = s[i + 1]
  BY HeadTailProperties
<1>2. Len(s) \in Nat /\ Len(s) > 0
  BY LenProperties, EmptySeq
<1>. DEFINE v == Tail(s)
            n == Len(s)
<1>. HIDE DEF v, n
<1>3. 1 \in 1 .. n /\ \A i \in 1 .. n - 1 : i + 1 \in 1 .. n /\ 1 < i + 1
  BY <1>2 DEF n
<1>4. \A i, j \in 1 .. n - 1 : i < j => i + 1 < j + 1
  BY <1>2 DEF n
<1>5. \A i \in 1 .. n - 1 : v[i] = s[i + 1]
  BY <1>1 DEF v, n
<1>6. Sorted(v)
  BY <1>1, <1>3, <1>4, <1>5 DEF Sorted, v, n
<1>7. \A y \in Range(v) : \E i \in 1 .. n - 1 : y = s[i + 1]
  <2>1. v \in Seq(Nat) /\ Len(v) = n - 1
    BY <1>1 DEF v, n
  <2>2. \A y \in Range(v) : \E i \in 1 .. Len(v) : y = v[i]
    BY <2>1, RangeIsIndexed
  <2>. QED
    BY <1>5, <2>1, <2>2
<1>8. Range(v) \subseteq Range(s) /\ Before({s[1]}, Range(v))
  BY <1>3, <1>7, RangeIsIndexed DEF Sorted, Before, n
<1>9. s[1] \in Range(s) /\ s[1] \in Nat
  BY <1>3, RangeIsIndexed DEF n
<1>. QED
  BY <1>1, <1>6, <1>8, <1>9 DEF v

LEMMA AppendOrdered ==
  ASSUME NEW s \in Seq(Nat), NEW e \in Nat, Sorted(s), Before(Range(s), {e})
  PROVE  Append(s, e) \in Seq(Nat) /\ Sorted(Append(s, e)) /\ Range(Append(s, e)) = Range(s) \cup {e}
<1>. DEFINE o == <<e>>
<1>1. o \in Seq(Nat) /\ Len(o) = 1 /\ o[1] = e
  OBVIOUS
<1>2. Append(s, e) = s \o o
  BY AppendIsConcat
<1>. HIDE DEF o
<1>3. Sorted(o)
  BY <1>1 DEF Sorted
<1>4. Range(o) = {e}
  <2>1. \A i \in 1 .. Len(o) : i = 1
    BY <1>1
  <2>2. 1 \in 1 .. Len(o)
    BY <1>1
  <2>. QED
    BY <1>1, <2>1, <2>2, RangeIsIndexed
<1>5. Sorted(s \o o) /\ s \o o \in Seq(Nat) /\ Range(s \o o) = Range(s) \cup {e}
  <2>1. Sorted(s \o o)
    BY <1>1, <1>3, <1>4, ConcatOrdered
  <2>2. s \o o \in Seq(Nat)
    BY <1>1, ConcatProperties
  <2>3. Range(s \o o) = Range(s) \cup Range(o)
    BY <1>1, RangeConcatenation
  <2>. QED
    BY <1>4, <2>1, <2>2, <2>3
<1>. QED
  BY <1>2, <1>5

(* What was delivered, what is teed, pumped and printed: each before the   *)
(* next.                                                                   *)
Layers(G, A, B, C, n) ==
  /\ G \cup A \cup B \cup C \subseteq Nat /\ \A x \in G \cup A \cup B \cup C : x <= n
  /\ Before(G, A) /\ Before(G, B) /\ Before(G, C) /\ Before(A, B) /\ Before(A, C) /\ Before(B, C)

Delivered(c) == Range(client[c].got)
InOrder ==
  \A G \in {{}} \cup {Delivered(c) : c \in Clients} :
    Layers(G, Range(attachBuf), Range(channel), Range(tty), printed)

StreamOK ==
  /\ printed \in Nat /\ launch \in Nat \ {0}
  /\ tty \in Seq(Nat) /\ channel \in Seq(Nat) /\ attachBuf \in Seq(Nat) /\ pumped \in Seq(Nat)
  /\ client \in [Clients -> ClientStates]

SortedAll ==
  /\ Sorted(tty) /\ Sorted(channel) /\ Sorted(attachBuf)
  /\ \A c \in Clients : Sorted(client[c].got)

Apart == \A c, d \in Clients : c # d => Delivered(c) \cap Delivered(d) = {}

(* The ghosts: a client began under no later launch than the present one.  *)
Ledgered ==
  \A c \in Clients :
    /\ client[c].begun <= launch /\ client[c].since <= Len(pumped)
    /\ client[c].phase = "idle" => client[c].got = <<>>

OrderInv  == StreamOK /\ SortedAll /\ InOrder /\ Apart
LedgerInv == Ledgered /\ TeeLossIsExplained /\ AloneMissesNothing

(* Nothing is teed for a provider that is gone.                            *)
EndInv    == (runtime # "live" => attachBuf = <<>>) /\ OnlyTheEndIsLost
StreamInv == OrderInv /\ LedgerInv /\ EndInv

LEMMA StreamInitOK == AttachInit => StreamInv
<1>. SUFFICES ASSUME AttachInit PROVE StreamInv
  OBVIOUS
<1>. DEFINE idle == [phase |-> "idle", got |-> <<>>, begun |-> 0, since |-> 0]
<1>1. /\ printed = 0 /\ launch = 1 /\ tty = <<>> /\ channel = <<>> /\ attachBuf = <<>> /\ pumped = <<>>
      /\ client = [c \in Clients |-> idle]
  BY DEF AttachInit
<1>2. /\ idle \in ClientStates /\ idle.phase = "idle" /\ idle.got = <<>>
      /\ idle.begun = 0 /\ idle.since = 0
  BY DEF ClientStates, Phases
<1>. HIDE DEF idle
<1>3. \A c \in Clients : client[c] = idle
  BY <1>1
<1>4. StreamOK
  BY <1>1, <1>2, EmptyOutput DEF StreamOK
<1>5. SortedAll
  BY <1>1, <1>2, <1>3, EmptyOutput DEF SortedAll
<1>6. InOrder
  BY <1>1, <1>2, <1>3, EmptyOutput DEF InOrder, Delivered, Layers, Before
<1>7. Apart
  BY <1>2, <1>3, EmptyOutput DEF Apart, Delivered
<1>8. Ledgered
  <2>1. 0 <= 1 /\ 0 <= 0
    OBVIOUS
  <2>. QED
    BY <1>1, <1>2, <1>3, <2>1, EmptyOutput DEF Ledgered
<1>9. Streaming = {}
  <2>1. "idle" # "streaming"
    OBVIOUS
  <2>. QED
    BY <1>2, <1>3, <2>1 DEF Streaming
<1>10. EndInv
  BY <1>1, <1>2, <1>3 DEF EndInv, OnlyTheEndIsLost
<1>. QED
  BY <1>4, <1>5, <1>6, <1>7, <1>8, <1>9, <1>10
     DEF StreamInv, OrderInv, LedgerInv, TeeLossIsExplained, AloneMissesNothing

LEMMA OrderInvariant ==
  ASSUME OrderInv, client' = client, printed' \in Nat, launch' \in Nat \ {0},
         tty' \in Seq(Nat), channel' \in Seq(Nat), attachBuf' \in Seq(Nat), pumped' \in Seq(Nat),
         Sorted(tty'), Sorted(channel'), Sorted(attachBuf'),
         \A G : Layers(G, Range(attachBuf), Range(channel), Range(tty), printed)
               => Layers(G, Range(attachBuf'), Range(channel'), Range(tty'), printed')
  PROVE  OrderInv'
<1>1. StreamOK'
  BY DEF StreamOK, OrderInv
<1>2. SortedAll'
  BY DEF SortedAll, OrderInv
<1>3. InOrder'
  BY DEF InOrder, Delivered, OrderInv
<1>4. Apart'
  BY DEF Apart, Delivered, OrderInv
<1>. QED
  BY <1>1, <1>2, <1>3, <1>4 DEF OrderInv

LEMMA LayersShrink ==
  ASSUME NEW G, NEW A, NEW B, NEW C, NEW n, Layers(G, A, B, C, n),
         NEW A2 \in SUBSET (A \cup B), NEW B2 \in SUBSET B, NEW C2 \in SUBSET C,
         Before(A2, B2)
  PROVE  Layers(G, A2, B2, C2, n)
<1>1. /\ \A x \in G, y \in A2 : x < y
      /\ \A x \in A2, y \in C2 : x < y
  BY DEF Layers, Before
<1>. QED
  BY <1>1 DEF Layers, Before

LEMMA LayersGrow ==
  ASSUME NEW G, NEW A, NEW B, NEW C, NEW n \in Nat, Layers(G, A, B, C, n)
  PROVE  Layers(G, A, B, C \cup {n + 1}, n + 1)
<1>1. \A x \in Nat : x <= n => x < n + 1 /\ x <= n + 1
  OBVIOUS
<1>2. \A x \in G \cup A \cup B \cup C : x \in Nat /\ x < n + 1 /\ x <= n + 1
  BY <1>1 DEF Layers
<1>3. n + 1 \in Nat /\ n + 1 <= n + 1
  OBVIOUS
<1>. QED
  BY <1>2, <1>3 DEF Layers, Before

LEMMA LayersShift ==
  ASSUME NEW G, NEW A, NEW B, NEW C, NEW n, Layers(G, A, B, C, n), NEW h \in C,
         NEW D \in SUBSET C, Before({h}, D)
  PROVE  Layers(G, A, B \cup {h}, D, n)
BY DEF Layers, Before

(* Every action keeps the order.                                           *)
LEMMA ChunkPrinted == ASSUME OrderInv, PrintChunk PROVE OrderInv'
<1>1. /\ printed' = printed + 1 /\ tty' = Append(tty, printed + 1)
      /\ UNCHANGED <<channel, launch, attachBuf, pumped, client>>
  BY DEF PrintChunk, runtimeVars
<1>2. /\ printed \in Nat /\ printed + 1 \in Nat /\ tty \in Seq(Nat) /\ Sorted(tty)
      /\ launch \in Nat \ {0} /\ channel \in Seq(Nat) /\ attachBuf \in Seq(Nat) /\ pumped \in Seq(Nat)
      /\ Sorted(channel) /\ Sorted(attachBuf)
  BY DEF OrderInv, StreamOK, SortedAll
<1>3. Before(Range(tty), {printed + 1})
  <2>1. Layers({}, Range(attachBuf), Range(channel), Range(tty), printed)
    BY DEF OrderInv, InOrder
  <2>2. \A x \in Nat : x <= printed => x < printed + 1
    BY <1>2
  <2>. QED
    BY <2>1, <2>2 DEF Layers, Before
<1>4. tty' \in Seq(Nat) /\ Sorted(tty') /\ Range(tty') = Range(tty) \cup {printed + 1}
  BY <1>1, <1>2, <1>3, AppendOrdered
<1>5. \A G : Layers(G, Range(attachBuf), Range(channel), Range(tty), printed)
             => Layers(G, Range(attachBuf), Range(channel), Range(tty'), printed + 1)
  BY <1>2, <1>4, LayersGrow
<1>. QED
  BY <1>1, <1>2, <1>4, <1>5, OrderInvariant

LEMMA TtyRead == ASSUME OrderInv, ReadTty PROVE OrderInv'
<1>1. /\ tty # <<>> /\ channel' = Append(channel, Head(tty)) /\ tty' = Tail(tty)
      /\ UNCHANGED <<printed, launch, attachBuf, pumped, client>>
  BY DEF ReadTty
<1>2. /\ printed \in Nat /\ tty \in Seq(Nat) /\ Sorted(tty)
      /\ launch \in Nat \ {0} /\ channel \in Seq(Nat) /\ attachBuf \in Seq(Nat) /\ pumped \in Seq(Nat)
      /\ Sorted(channel) /\ Sorted(attachBuf)
  BY DEF OrderInv, StreamOK, SortedAll
<1>3. /\ Head(tty) \in Range(tty) /\ Head(tty) \in Nat
      /\ tty' \in Seq(Nat) /\ Sorted(tty') /\ Range(tty') \subseteq Range(tty)
      /\ Before({Head(tty)}, Range(tty'))
  BY <1>1, <1>2, TailOrdered
<1>4. Before(Range(channel), {Head(tty)})
  <2>1. Layers({}, Range(attachBuf), Range(channel), Range(tty), printed)
    BY DEF OrderInv, InOrder
  <2>. QED
    BY <1>3, <2>1 DEF Layers, Before
<1>5. channel' \in Seq(Nat) /\ Sorted(channel') /\ Range(channel') = Range(channel) \cup {Head(tty)}
  BY <1>1, <1>2, <1>3, <1>4, AppendOrdered
<1>6. \A G : Layers(G, Range(attachBuf), Range(channel), Range(tty), printed)
             => Layers(G, Range(attachBuf), Range(channel'), Range(tty'), printed)
  BY <1>3, <1>5, LayersShift
<1>. QED
  BY <1>1, <1>2, <1>3, <1>5, <1>6, OrderInvariant

(* The tee keeps a suffix of what it has and what the pump brings.         *)
LEMMA TeedOK ==
  ASSUME OrderInv
  PROVE  /\ attachBuf \o channel \in Seq(Nat) /\ Sorted(attachBuf \o channel)
         /\ Teed \in Seq(Nat) /\ Sorted(Teed) /\ Range(Teed) \subseteq Range(attachBuf) \cup Range(channel)
         /\ ~(Len(attachBuf \o channel) > BufferCap) => Teed = attachBuf \o channel
<1>. DEFINE all == attachBuf \o channel
<1>1. /\ channel \in Seq(Nat) /\ attachBuf \in Seq(Nat) /\ Sorted(channel) /\ Sorted(attachBuf)
  BY DEF OrderInv, StreamOK, SortedAll
<1>2. Before(Range(attachBuf), Range(channel))
  BY DEF OrderInv, InOrder, Layers
<1>3. all \in Seq(Nat) /\ Sorted(all) /\ Range(all) = Range(attachBuf) \cup Range(channel)
  BY <1>1, <1>2, ConcatOrdered, ConcatProperties, RangeConcatenation
<1>4. Teed = IF Len(all) > BufferCap THEN SubSeq(all, Len(all) - BufferCap + 1, Len(all)) ELSE all
  BY DEF Teed
<1>. HIDE DEF all
<1>5. CASE Len(all) > BufferCap
  <2>. DEFINE m == Len(all) - BufferCap + 1
  <2>0. Len(all) \in Nat /\ BufferCap \in Nat
    BY <1>3, LenProperties, AttachAssumption
  <2>1. CASE BufferCap = 0
    <3>1. SubSeq(all, m, Len(all)) = <<>>
      <4>1. m \in Int /\ Len(all) \in Int /\ Len(all) < m
        BY <2>0, <2>1
      <4>. HIDE DEF m
      <4>. QED
        BY <4>1, SubSeqEmpty
    <3>. QED
      BY <1>3, <1>4, <1>5, <3>1, EmptyOutput DEF all
  <2>2. CASE BufferCap # 0
    <3>1. m \in 1 .. Len(all)
      BY <1>5, <2>0, <2>2
    <3>. HIDE DEF m
    <3>2. /\ SubSeq(all, m, Len(all)) \in Seq(Nat) /\ Sorted(SubSeq(all, m, Len(all)))
          /\ Range(SubSeq(all, m, Len(all))) \subseteq Range(all)
      BY <1>3, <3>1, SuffixOrdered
    <3>. QED
      BY <1>3, <1>4, <1>5, <3>2 DEF all, m
  <2>. QED
    BY <2>1, <2>2
<1>6. CASE ~(Len(all) > BufferCap)
  BY <1>3, <1>4, <1>6 DEF all
<1>. QED
  BY <1>5, <1>6

LEMMA OutputPumped == ASSUME OrderInv, Pump PROVE OrderInv'
<1>1. /\ pumped' = pumped \o channel /\ channel' = <<>>
      /\ attachBuf' = IF attached THEN Teed ELSE attachBuf
      /\ UNCHANGED <<printed, tty, launch, client>>
  BY DEF Pump, providerVars
<1>2. /\ printed \in Nat /\ tty \in Seq(Nat) /\ Sorted(tty) /\ launch \in Nat \ {0}
      /\ channel \in Seq(Nat) /\ attachBuf \in Seq(Nat) /\ pumped \in Seq(Nat) /\ Sorted(attachBuf)
  BY DEF OrderInv, StreamOK, SortedAll
<1>3. pumped' \in Seq(Nat)
  BY <1>1, <1>2, ConcatProperties
<1>4. /\ attachBuf' \in Seq(Nat) /\ Sorted(attachBuf')
      /\ Range(attachBuf') \subseteq Range(attachBuf) \cup Range(channel)
  BY <1>1, <1>2, TeedOK
<1>5. \A G : Layers(G, Range(attachBuf), Range(channel), Range(tty), printed)
             => Layers(G, Range(attachBuf'), {}, Range(tty), printed)
  <2>1. Before(Range(attachBuf'), {})
    BY DEF Before
  <2>. QED
    BY <1>4, <2>1, LayersShrink
<1>. QED
  BY <1>1, <1>2, <1>3, <1>4, <1>5, EmptyOutput, OrderInvariant

LEMMA InstanceDropped ==
  ASSUME OrderInv, Dropped, client' = client, printed' = printed,
         launch' \in Nat \ {0}, pumped' \in Seq(Nat)
  PROVE  OrderInv'
<1>1. tty' = <<>> /\ channel' = <<>> /\ attachBuf' = <<>> /\ printed \in Nat
  BY DEF Dropped, OrderInv, StreamOK
<1>2. \A G : Layers(G, Range(attachBuf), Range(channel), Range(tty), printed)
             => Layers(G, {}, {}, {}, printed)
  BY LayersShrink DEF Before
<1>. QED
  BY <1>1, <1>2, EmptyOutput, OrderInvariant

LEMMA ClientsMove ==
  ASSUME OrderInv, client' \in [Clients -> ClientStates],
         \A d \in Clients : client'[d].got = client[d].got,
         UNCHANGED <<printed, tty, channel, launch, pumped>>,
         attachBuf' = attachBuf \/ attachBuf' = <<>>
  PROVE  OrderInv'
<1>1. StreamOK' /\ SortedAll'
  BY EmptyOutput DEF OrderInv, StreamOK, SortedAll
<1>2. \A d \in Clients : Delivered(d)' = Delivered(d)
  BY DEF Delivered
<1>3. Range(attachBuf') \subseteq Range(attachBuf)
  BY EmptyOutput
<1>4. InOrder'
  <2>1. \A G : Layers(G, Range(attachBuf), Range(channel), Range(tty), printed)
               => Layers(G, Range(attachBuf'), Range(channel), Range(tty), printed)
    BY <1>3 DEF Layers, Before
  <2>2. \A G : G \in ({{}} \cup {Delivered(c) : c \in Clients})' => G \in {{}} \cup {Delivered(c) : c \in Clients}
    BY <1>2
  <2>. QED
    BY <2>1, <2>2 DEF InOrder, OrderInv
<1>5. Apart'
  BY <1>2 DEF Apart, OrderInv
<1>. QED
  BY <1>1, <1>4, <1>5 DEF OrderInv

LEMMA BeginView ==
  ASSUME StreamOK, NEW c \in Clients, AttachBegin(c)
  PROVE  /\ client' \in [Clients -> ClientStates]
         /\ \A d \in Clients \ {c} : client'[d] = client[d]
         /\ client[c].phase = "idle" /\ client'[c].phase = "streaming" /\ client'[c].got = client[c].got
         /\ client'[c].since = Len(pumped)
         /\ client'[c].begun = IF runtime = "live" THEN launch ELSE 0
<1>. DEFINE b == IF runtime = "live" THEN launch ELSE 0
            k == [client[c] EXCEPT !.phase = "streaming", !.since = Len(pumped), !.begun = b]
<1>1. client' = [client EXCEPT ![c] = k] /\ client[c].phase = "idle"
  BY DEF AttachBegin
<1>2. b \in Nat /\ Len(pumped) \in Nat /\ client[c] \in ClientStates
  BY LenProperties DEF StreamOK
<1>. HIDE DEF b
<1>3. /\ k \in ClientStates /\ k.phase = "streaming" /\ k.got = client[c].got
      /\ k.since = Len(pumped) /\ k.begun = b
  BY <1>2 DEF ClientStates, Phases
<1>. HIDE DEF k
<1>. QED
  BY <1>1, <1>3 DEF StreamOK, b

LEMMA PhaseView ==
  ASSUME StreamOK, NEW c \in Clients, NEW to \in Phases, client' = [client EXCEPT ![c].phase = to]
  PROVE  /\ client' \in [Clients -> ClientStates]
         /\ \A d \in Clients \ {c} : client'[d] = client[d]
         /\ client'[c].phase = to /\ client'[c].got = client[c].got
         /\ client'[c].since = client[c].since /\ client'[c].begun = client[c].begun
<1>. DEFINE k == [client[c] EXCEPT !.phase = to]
<1>1. client' = [client EXCEPT ![c] = k]
  OBVIOUS
<1>2. /\ k \in ClientStates /\ k.phase = to /\ k.got = client[c].got
      /\ k.since = client[c].since /\ k.begun = client[c].begun
  BY DEF ClientStates, StreamOK
<1>. HIDE DEF k
<1>. QED
  BY <1>1, <1>2 DEF StreamOK

LEMMA TickView ==
  ASSUME StreamOK, NEW c \in Clients, Tick(c)
  PROVE  /\ client' \in [Clients -> ClientStates]
         /\ \A d \in Clients \ {c} : client'[d] = client[d]
         /\ client[c].phase = "streaming" /\ client'[c].phase \in {"streaming", "ending"}
         /\ client'[c].got = client[c].got \o attachBuf
         /\ client'[c].since = client[c].since /\ client'[c].begun = client[c].begun
<1>. DEFINE g == client[c].got \o attachBuf
            ph == IF runtime = "gone" THEN "ending" ELSE client[c].phase
            k == [client[c] EXCEPT !.got = g, !.phase = ph]
<1>1. client' = [client EXCEPT ![c] = k] /\ client[c].phase = "streaming"
  BY DEF Tick
<1>2. client[c] \in ClientStates /\ client[c].got \in Seq(Nat) /\ attachBuf \in Seq(Nat)
  BY DEF StreamOK, ClientStates
<1>3. g \in Seq(Nat)
  BY <1>2, ConcatProperties
<1>4. ph \in {"streaming", "ending"} /\ ph \in Phases
  BY <1>1 DEF Phases
<1>. HIDE DEF g, ph
<1>5. /\ k \in ClientStates /\ k.phase = ph /\ k.got = g
      /\ k.since = client[c].since /\ k.begun = client[c].begun
  BY <1>2, <1>3, <1>4 DEF ClientStates
<1>. HIDE DEF k
<1>. QED
  BY <1>1, <1>4, <1>5 DEF StreamOK, g

LEMMA TickOrdered == ASSUME OrderInv, NEW c \in Clients, Tick(c) PROVE OrderInv'
<1>1. /\ client' \in [Clients -> ClientStates]
      /\ \A d \in Clients \ {c} : client'[d] = client[d]
      /\ client'[c].got = client[c].got \o attachBuf
  BY TickView DEF OrderInv
<1>2. attachBuf' = <<>> /\ UNCHANGED <<printed, tty, channel, launch, pumped>>
  BY DEF Tick, providerVars
<1>. DEFINE A == Range(attachBuf)
<1>3. /\ client[c].got \in Seq(Nat) /\ attachBuf \in Seq(Nat)
      /\ Sorted(client[c].got) /\ Sorted(attachBuf)
  BY DEF OrderInv, StreamOK, SortedAll, ClientStates
<1>4. Layers(Delivered(c), A, Range(channel), Range(tty), printed)
  BY DEF OrderInv, InOrder
<1>5. /\ Sorted(client'[c].got) /\ Delivered(c)' = Delivered(c) \cup A
  BY <1>1, <1>3, <1>4, ConcatOrdered, RangeConcatenation DEF Layers, Delivered
<1>6. \A d \in Clients \ {c} : Delivered(d)' = Delivered(d)
  BY <1>1 DEF Delivered
<1>7. StreamOK' /\ SortedAll'
  BY <1>1, <1>2, <1>5, EmptyOutput DEF OrderInv, StreamOK, SortedAll
<1>8. InOrder'
  <2>. SUFFICES ASSUME NEW G \in ({{}} \cup {Delivered(d) : d \in Clients})'
                PROVE  Layers(G, {}, Range(channel), Range(tty), printed)
    BY <1>2, EmptyOutput DEF InOrder
  <2>1. CASE G = Delivered(c) \cup A
    BY <1>4, <2>1 DEF Layers, Before
  <2>2. CASE G \in {{}} \cup {Delivered(d) : d \in Clients}
    BY <2>2 DEF OrderInv, InOrder, Layers, Before
  <2>. QED
    BY <1>5, <1>6, <2>1, <2>2
<1>9. \A d \in Clients \ {c} : (Delivered(c) \cup A) \cap Delivered(d) = {}
  <2>. SUFFICES ASSUME NEW d \in Clients \ {c}, NEW x \in A, x \in Delivered(d) PROVE FALSE
    BY DEF OrderInv, Apart
  <2>1. Layers(Delivered(d), A, Range(channel), Range(tty), printed)
    BY DEF OrderInv, InOrder
  <2>2. x \in Nat /\ x < x
    BY <2>1 DEF Layers, Before
  <2>3. \A n \in Nat : ~(n < n)
    OBVIOUS
  <2>. QED
    BY <2>2, <2>3
<1>10. Apart'
  BY <1>5, <1>6, <1>9 DEF OrderInv, Apart
<1>. QED
  BY <1>7, <1>8, <1>10 DEF OrderInv

LEMMA OrderStep == OrderInv /\ [AttachNext]_attachVars => OrderInv'
<1>. SUFFICES ASSUME OrderInv, [AttachNext]_attachVars PROVE OrderInv'
  OBVIOUS
<1>0. StreamOK
  BY DEF OrderInv
<1>1. CASE UNCHANGED <<printed, tty, channel, launch, attachBuf, pumped, client>>
  BY <1>1 DEF OrderInv, StreamOK, SortedAll, InOrder, Apart, Delivered
<1>2. CASE PumpRetires
  <2>1. Dropped /\ client' = client /\ printed' = printed /\ launch' = launch /\ pumped' = pumped \o channel
    BY <1>2 DEF PumpRetires
  <2>2. pumped' \in Seq(Nat) /\ launch' \in Nat \ {0}
    BY <1>0, <2>1, ConcatProperties DEF StreamOK
  <2>. QED
    BY <2>1, <2>2, InstanceDropped
<1>3. CASE Relaunch
  <2>1. Dropped /\ client' = client /\ printed' = printed /\ launch' = launch + 1 /\ pumped' = pumped
    BY <1>3 DEF Relaunch
  <2>2. pumped' \in Seq(Nat) /\ launch' \in Nat \ {0}
    BY <1>0, <2>1 DEF StreamOK
  <2>. QED
    BY <2>1, <2>2, InstanceDropped
<1>8. CASE StopInstance
  <2>1. Dropped /\ client' = client /\ printed' = printed /\ launch' = launch /\ pumped' = pumped
    BY <1>8 DEF StopInstance
  <2>2. pumped' \in Seq(Nat) /\ launch' \in Nat \ {0}
    BY <1>0, <2>1 DEF StreamOK
  <2>. QED
    BY <2>1, <2>2, InstanceDropped
<1>4. ASSUME NEW c \in Clients, AttachBegin(c) PROVE OrderInv'
  <2>1. /\ client' \in [Clients -> ClientStates]
        /\ \A d \in Clients : client'[d].got = client[d].got
    BY <1>0, <1>4, BeginView
  <2>2. /\ UNCHANGED <<printed, tty, channel, launch, pumped>>
        /\ attachBuf' = attachBuf \/ attachBuf' = <<>>
    BY <1>4 DEF AttachBegin, SetAttached, providerVars
  <2>. QED
    BY <2>1, <2>2, ClientsMove
<1>5. ASSUME NEW c \in Clients, ReadGarbage(c) \/ Detach(c) \/ AttachEnd(c) PROVE OrderInv'
  <2>1. PICK to \in Phases : client' = [client EXCEPT ![c].phase = to]
    BY <1>5 DEF ReadGarbage, Detach, AttachEnd, Phases
  <2>2. /\ client' \in [Clients -> ClientStates]
        /\ \A d \in Clients : client'[d].got = client[d].got
    BY <1>0, <2>1, PhaseView
  <2>3. /\ UNCHANGED <<printed, tty, channel, launch, pumped>>
        /\ attachBuf' = attachBuf \/ attachBuf' = <<>>
    BY <1>5 DEF ReadGarbage, Detach, AttachEnd, SetAttached, providerVars, runtimeVars
  <2>. QED
    BY <2>2, <2>3, ClientsMove
<1>6. ASSUME NEW c \in Clients, SendHeader(c) \/ SendBody(c) \/ ReadFrame(c) PROVE OrderInv'
  BY <1>1, <1>6 DEF SendHeader, SendBody, ReadFrame, providerVars, runtimeVars
<1>7. CASE ProviderExits \/ JoinReader \/ UNCHANGED attachVars
  BY <1>1, <1>7 DEF ProviderExits, JoinReader, attachVars, providerVars, runtimeVars
<1>. QED
  BY <1>2, <1>3, <1>4, <1>5, <1>6, <1>7, <1>8, ChunkPrinted, TtyRead, OutputPumped, TickOrdered DEF AttachNext

-----------------------------------------------------------------------------
(* A client that is alone misses nothing, and one that lost its tee knows  *)
(* why.                                                                    *)

AloneSince(c) ==
  /\ \A d \in Clients \ {c} : client[d].phase = "idle"
  /\ runtime = "live" /\ launch = client[c].begun /\ c \notin overflowed

Complete(c) == client[c].got \o attachBuf = SubSeq(pumped, client[c].since + 1, Len(pumped))

(* What LedgerInv is about stays.                                          *)
LEMMA LedgerStays ==
  ASSUME LedgerInv,
         UNCHANGED <<runtime, launch, attached, attachBuf, pumped, overflowed, client>>
  PROVE  LedgerInv'
BY DEF LedgerInv, Ledgered, TeeLossIsExplained, AloneMissesNothing, Streaming

(* The provider is gone: nobody is streaming from a live one.              *)
LEMMA InstanceGone ==
  ASSUME StreamOK, LedgerInv, PumpRetires \/ StopInstance
  PROVE  LedgerInv'
<1>1. /\ runtime' = "gone" /\ client' = client /\ launch' = launch
      /\ pumped' = pumped \/ pumped' = pumped \o channel
  BY DEF PumpRetires, StopInstance
<1>2. Ledgered'
  <2>1. /\ Len(pumped') = Len(pumped) \/ Len(pumped') = Len(pumped) + Len(channel)
        /\ Len(pumped) \in Nat /\ Len(channel) \in Nat
    BY <1>1, ConcatProperties, LenProperties DEF StreamOK
  <2>2. \A m, n, k \in Nat : k <= m => k <= m + n
    OBVIOUS
  <2>3. \A c \in Clients : client[c].since \in Nat
    BY DEF StreamOK, ClientStates
  <2>. QED
    BY <1>1, <2>1, <2>2, <2>3 DEF LedgerInv, Ledgered
<1>3. "gone" # "live"
  OBVIOUS
<1>. QED
  BY <1>1, <1>2, <1>3 DEF LedgerInv, TeeLossIsExplained, AloneMissesNothing

(* A new provider: of a later launch than any client began under.          *)
LEMMA InstanceReplaced ==
  ASSUME StreamOK, LedgerInv, Relaunch
  PROVE  LedgerInv'
<1>1. client' = client /\ launch' = launch + 1 /\ pumped' = pumped
  BY DEF Relaunch
<1>2. \A c \in Clients : client[c].begun <= launch + 1 /\ launch + 1 # client[c].begun
  <2>1. \A n, k \in Nat : k <= n => k <= n + 1 /\ n + 1 # k
    OBVIOUS
  <2>2. \A c \in Clients : client[c].begun \in Nat /\ launch \in Nat
    BY DEF StreamOK, ClientStates
  <2>. QED
    BY <2>1, <2>2 DEF LedgerInv, Ledgered
<1>. QED
  BY <1>1, <1>2 DEF LedgerInv, Ledgered, TeeLossIsExplained, AloneMissesNothing, Streaming

LEMMA OutputAssociates ==
  ASSUME NEW s \in Seq(Nat), NEW t \in Seq(Nat), NEW u \in Seq(Nat)
  PROVE  (s \o t) \o u = s \o (t \o u)
OBVIOUS

LEMMA SinceElements ==
  ASSUME NEW s \in Seq(Nat), NEW n \in Nat, n <= Len(s)
  PROVE  /\ SubSeq(s, n + 1, Len(s)) \in Seq(Nat) /\ Len(SubSeq(s, n + 1, Len(s))) = Len(s) - n
         /\ \A i \in 1 .. Len(s) - n : SubSeq(s, n + 1, Len(s))[i] = s[n + i]
<1>. DEFINE ls == Len(s)
<1>1. ls \in Nat /\ n <= ls /\ \A i \in 1 .. ls : s[i] \in Nat
  BY LenProperties, ElementOfSeq
<1>. HIDE DEF ls
<1>2. /\ \A i \in n + 1 .. ls : i \in 1 .. ls
      /\ n + 1 \in Int /\ ls \in Int /\ (IF n + 1 <= ls THEN ls - (n + 1) + 1 ELSE 0) = ls - n
      /\ ls - (n + 1) + 1 = ls - n /\ \A i \in 1 .. ls - n : n + 1 + i - 1 = n + i
  BY <1>1
<1>3. \A i \in n + 1 .. ls : s[i] \in Nat
  BY <1>1, <1>2
<1>4. /\ SubSeq(s, n + 1, ls) \in Seq(Nat)
      /\ Len(SubSeq(s, n + 1, ls)) = IF n + 1 <= ls THEN ls - (n + 1) + 1 ELSE 0
      /\ \A i \in 1 .. ls - (n + 1) + 1 : SubSeq(s, n + 1, ls)[i] = s[n + 1 + i - 1]
  BY <1>2, <1>3, SubSeqProperties
<1>. QED
  BY <1>2, <1>4 DEF ls

(* What q holds after its first n.                                         *)
Since(s, q, n) == s = SubSeq(q, n + 1, Len(q))

(* The pump appends what it tees to what it has pumped.                    *)
LEMMA PumpedIsTeed ==
  ASSUME NEW g \in Seq(Nat), NEW b \in Seq(Nat), NEW k \in Seq(Nat), NEW q \in Seq(Nat),
         NEW n \in Nat, n <= Len(q), Since(g \o b, q, n)
  PROVE  Since(g \o (b \o k), q \o k, n)
<1>1. g \o (b \o k) = (g \o b) \o k
  BY OutputAssociates
<1>0. g \o b = SubSeq(q, n + 1, Len(q))
  BY DEF Since
<1>2. /\ q \o k \in Seq(Nat) /\ Len(q \o k) = Len(q) + Len(k) /\ Len(q) \in Nat /\ Len(k) \in Nat
      /\ \A i \in 1 .. Len(q) + Len(k) : (q \o k)[i] = IF i <= Len(q) THEN q[i] ELSE k[i - Len(q)]
      /\ \A i \in 1 .. Len(q) + Len(k) : (q \o k)[i] \in Nat
  BY ConcatProperties, LenProperties, ElementOfSeq
<1>. DEFINE lhs == SubSeq(q, n + 1, Len(q))
            all == q \o k
            rhs == SubSeq(all, n + 1, Len(all))
            lq == Len(q)
            lk == Len(k)
<1>3. lhs \in Seq(Nat) /\ Len(lhs) = lq - n /\ \A i \in 1 .. lq - n : lhs[i] = q[n + i]
  BY SinceElements
<1>4. rhs \in Seq(Nat) /\ Len(rhs) = lq + lk - n /\ \A i \in 1 .. lq + lk - n : rhs[i] = all[n + i]
  <2>. DEFINE la == lq + lk
  <2>1. la \in Nat /\ Len(all) = la /\ n <= la /\ all \in Seq(Nat)
    BY <1>2
  <2>. HIDE DEF la, all
  <2>2. /\ SubSeq(all, n + 1, la) \in Seq(Nat) /\ Len(SubSeq(all, n + 1, la)) = la - n
        /\ \A i \in 1 .. la - n : SubSeq(all, n + 1, la)[i] = all[n + i]
    BY <2>1, SinceElements
  <2>3. rhs = SubSeq(all, n + 1, la) /\ la - n = lq + lk - n
    BY <2>1 DEF la
  <2>. HIDE DEF rhs, lq, lk
  <2>. QED
    BY <2>2, <2>3
<1>5. /\ lhs \o k \in Seq(Nat) /\ Len(lhs \o k) = (lq - n) + lk
      /\ \A i \in 1 .. (lq - n) + lk : (lhs \o k)[i] = IF i <= lq - n THEN lhs[i] ELSE k[i - (lq - n)]
  <2>. HIDE DEF lhs, lq, lk
  <2>1. /\ lhs \o k \in Seq(Nat) /\ Len(lhs \o k) = Len(lhs) + Len(k)
        /\ \A i \in 1 .. Len(lhs) + Len(k) : (lhs \o k)[i] = IF i <= Len(lhs) THEN lhs[i] ELSE k[i - Len(lhs)]
    BY <1>3, ConcatProperties
  <2>. QED
    BY <1>3, <2>1 DEF lk
<1>6. (lq - n) + lk = lq + lk - n /\ lq \in Nat /\ lk \in Nat /\ n <= lq
  BY <1>2
<1>7. \A i \in 1 .. lq + lk : all[i] = IF i <= lq THEN q[i] ELSE k[i - lq]
  BY <1>2
<1>. HIDE DEF lhs, all, rhs, lq, lk
<1>8. \A i \in 1 .. lq + lk - n : (lhs \o k)[i] = rhs[i]
  <2>. SUFFICES ASSUME NEW i \in 1 .. lq + lk - n PROVE (lhs \o k)[i] = rhs[i]
    OBVIOUS
  <2>1. n + i \in 1 .. lq + lk /\ rhs[i] = all[n + i]
    BY <1>4, <1>6
  <2>2. CASE i <= lq - n
    <3>1. i \in 1 .. lq - n /\ n + i <= lq /\ i \in 1 .. (lq - n) + lk
      BY <1>6, <2>2
    <3>. QED
      BY <1>3, <1>5, <1>7, <2>1, <2>2, <3>1
  <2>3. CASE ~(i <= lq - n)
    <3>1. ~(n + i <= lq) /\ i - (lq - n) = (n + i) - lq /\ i \in 1 .. (lq - n) + lk
      BY <1>6, <2>3
    <3>. QED
      BY <1>5, <1>7, <2>1, <2>3, <3>1
  <2>. QED
    BY <2>2, <2>3
<1>9. lhs \o k = rhs
  <2>1. Len(lhs \o k) = Len(rhs) /\ Len(lhs \o k) = lq + lk - n
    BY <1>4, <1>5, <1>6
  <2>. QED
    BY <1>4, <1>5, <1>8, <2>1, SeqEqual
<1>. QED
  BY <1>0, <1>1, <1>9 DEF lhs, rhs, all, lq, Since

(* TeeLossIsExplained and AloneMissesNothing for one client.               *)
LossExplained(c) ==
  (runtime = "live" /\ ~attached) =>
    launch # client[c].begun \/ \E d \in Clients \ {c} : client[d].phase = "ended"

LEMMA LedgerByClient ==
  /\ (TeeLossIsExplained <=> \A c \in Clients : client[c].phase = "streaming" => LossExplained(c))
  /\ (AloneMissesNothing <=> \A c \in Clients : client[c].phase = "streaming" /\ AloneSince(c) => Complete(c))
BY DEF TeeLossIsExplained, AloneMissesNothing, Streaming, LossExplained, AloneSince, Complete

(* An undetached client that is alone has its tee.                         *)
LEMMA AloneIsAttached ==
  ASSUME LedgerInv, NEW c \in Clients, client[c].phase = "streaming", AloneSince(c)
  PROVE  attached
<1>1. LossExplained(c)
  BY LedgerByClient DEF LedgerInv
<1>2. "idle" # "ended"
  OBVIOUS
<1>. QED
  BY <1>1, <1>2 DEF LossExplained, AloneSince

LEMMA PumpKeepsLedger == ASSUME OrderInv, LedgerInv, Pump PROVE LedgerInv'
<1>1. /\ pumped' = pumped \o channel
      /\ attachBuf' = IF attached THEN Teed ELSE attachBuf
      /\ overflowed' = IF attached /\ Len(attachBuf \o channel) > BufferCap
                       THEN overflowed \cup Streaming ELSE overflowed
      /\ UNCHANGED <<runtime, launch, attached, client>>
  BY DEF Pump
<1>2. StreamOK
  BY DEF OrderInv
<1>3. Ledgered'
  <2>1. Len(pumped') = Len(pumped) + Len(channel) /\ Len(pumped) \in Nat /\ Len(channel) \in Nat
    BY <1>1, <1>2, ConcatProperties, LenProperties DEF StreamOK
  <2>2. \A m, n, k \in Nat : k <= m => k <= m + n
    OBVIOUS
  <2>3. \A c \in Clients : client[c].since \in Nat
    BY <1>2 DEF StreamOK, ClientStates
  <2>. QED
    BY <1>1, <2>1, <2>2, <2>3 DEF LedgerInv, Ledgered
<1>4. TeeLossIsExplained'
  BY <1>1 DEF LedgerInv, TeeLossIsExplained, Streaming
<1>5. ASSUME NEW c \in Clients, client[c].phase = "streaming", AloneSince(c)' PROVE Complete(c)'
  <2>1. AloneSince(c)
    BY <1>1, <1>5 DEF AloneSince
  <2>2. attached
    BY <1>5, <2>1, AloneIsAttached
  <2>3. ~(Len(attachBuf \o channel) > BufferCap)
    BY <1>1, <1>5, <2>2 DEF AloneSince, Streaming
  <2>4. attachBuf' = attachBuf \o channel
    BY <1>1, <2>2, <2>3, TeedOK
  <2>5. client[c].got \o attachBuf = SubSeq(pumped, client[c].since + 1, Len(pumped))
    BY <1>5, <2>1, LedgerByClient DEF LedgerInv, Complete
  <2>6. /\ client[c].got \in Seq(Nat) /\ client[c].since \in Nat /\ client[c].since <= Len(pumped)
        /\ attachBuf \in Seq(Nat) /\ channel \in Seq(Nat) /\ pumped \in Seq(Nat)
    BY <1>2 DEF StreamOK, ClientStates, LedgerInv, Ledgered
  <2>7. client[c].got \o (attachBuf \o channel)
          = SubSeq(pumped \o channel, client[c].since + 1, Len(pumped \o channel))
    <3>. DEFINE g == client[c].got  n == client[c].since
    <3>1. /\ g \in Seq(Nat) /\ attachBuf \in Seq(Nat) /\ channel \in Seq(Nat) /\ pumped \in Seq(Nat)
          /\ n \in Nat /\ n <= Len(pumped) /\ Since(g \o attachBuf, pumped, n)
      BY <2>5, <2>6 DEF Since
    <3>. HIDE DEF g, n
    <3>2. Since(g \o (attachBuf \o channel), pumped \o channel, n)
      BY <3>1, PumpedIsTeed
    <3>. QED
      BY <3>2 DEF g, n, Since
  <2>. QED
    BY <1>1, <2>4, <2>7 DEF Complete
<1>6. AloneMissesNothing'
  <2>1. \A c \in Clients : client'[c].phase = "streaming" /\ AloneSince(c)' => Complete(c)'
    BY <1>1, <1>5
  <2>. QED
    BY <2>1 DEF AloneMissesNothing, Streaming, AloneSince, Complete
<1>. QED
  BY <1>3, <1>4, <1>6 DEF LedgerInv

LEMMA BeginKeepsLedger == ASSUME OrderInv, LedgerInv, NEW c \in Clients, AttachBegin(c) PROVE LedgerInv'
<1>1. /\ client' \in [Clients -> ClientStates]
      /\ \A d \in Clients \ {c} : client'[d] = client[d]
      /\ client[c].phase = "idle" /\ client'[c].phase = "streaming" /\ client'[c].got = client[c].got
      /\ client'[c].since = Len(pumped)
      /\ client'[c].begun = IF runtime = "live" THEN launch ELSE 0
  BY BeginView DEF OrderInv
<1>2. /\ UNCHANGED <<runtime, launch, pumped, overflowed>>
      /\ runtime = "live" => attached' /\ attachBuf' = <<>>
  BY DEF AttachBegin, SetAttached
<1>3. "streaming" # "idle"
  OBVIOUS
<1>4. pumped \in Seq(Nat) /\ Len(pumped) \in Nat /\ launch \in Nat /\ Len(pumped) <= Len(pumped)
      /\ 0 <= launch /\ launch <= launch
  BY LenProperties DEF OrderInv, StreamOK
<1>5. Ledgered'
  BY <1>1, <1>2, <1>3, <1>4 DEF LedgerInv, Ledgered
<1>6. \A d \in Clients : client'[d].phase = "streaming" => LossExplained(d)'
  BY <1>2 DEF LossExplained
<1>7. ASSUME NEW d \in Clients, client'[d].phase = "streaming", AloneSince(d)' PROVE Complete(d)'
  <2>1. d = c
    BY <1>1, <1>3, <1>7 DEF AloneSince
  <2>2. client'[c].got = <<>> /\ attachBuf' = <<>>
    BY <1>1, <1>2, <1>7 DEF LedgerInv, Ledgered, AloneSince
  <2>3. SubSeq(pumped, Len(pumped) + 1, Len(pumped)) = <<>>
    <3>. DEFINE n == Len(pumped)
    <3>1. n + 1 \in Int /\ n \in Int /\ n < n + 1
      BY <1>4
    <3>. HIDE DEF n
    <3>2. SubSeq(pumped, n + 1, n) = <<>>
      BY <3>1, SubSeqEmpty
    <3>. QED
      BY <3>2 DEF n
  <2>4. <<>> \o <<>> = <<>>
    OBVIOUS
  <2>. QED
    BY <1>1, <1>2, <2>1, <2>2, <2>3, <2>4 DEF Complete
<1>. QED
  BY <1>5, <1>6, <1>7 DEF LedgerInv, TeeLossIsExplained, AloneMissesNothing, Streaming, LossExplained,
     AloneSince, Complete

LEMMA TickKeepsLedger == ASSUME OrderInv, LedgerInv, NEW c \in Clients, Tick(c) PROVE LedgerInv'
<1>1. /\ \A d \in Clients \ {c} : client'[d] = client[d]
      /\ client[c].phase = "streaming" /\ client'[c].phase \in {"streaming", "ending"}
      /\ client'[c].got = client[c].got \o attachBuf
      /\ client'[c].since = client[c].since /\ client'[c].begun = client[c].begun
  BY TickView DEF OrderInv
<1>2. attachBuf' = <<>> /\ UNCHANGED <<runtime, launch, attached, pumped, overflowed>>
  BY DEF Tick
<1>3. "streaming" # "idle" /\ "ending" # "idle" /\ "streaming" # "ended"
  OBVIOUS
<1>4. Ledgered'
  BY <1>1, <1>2, <1>3 DEF LedgerInv, Ledgered
<1>5. ASSUME NEW d \in Clients, client'[d].phase = "streaming" PROVE LossExplained(d)'
  <2>1. client[d].phase = "streaming" /\ client'[d].begun = client[d].begun
    BY <1>1, <1>5
  <2>2. LossExplained(d)
    BY <2>1, LedgerByClient DEF LedgerInv
  <2>. QED
    BY <1>1, <1>2, <1>3, <2>1, <2>2 DEF LossExplained
<1>6. ASSUME NEW d \in Clients, client'[d].phase = "streaming", AloneSince(d)' PROVE Complete(d)'
  <2>1. d = c
    BY <1>1, <1>3, <1>6 DEF AloneSince
  <2>2. AloneSince(c)
    BY <1>1, <1>2, <1>6, <2>1 DEF AloneSince
  <2>3. Complete(c)
    BY <1>1, <2>2, LedgerByClient DEF LedgerInv
  <2>4. (client[c].got \o attachBuf) \o <<>> = client[c].got \o attachBuf
    <3>1. client[c].got \o attachBuf \in Seq(Nat)
      BY ConcatProperties DEF OrderInv, StreamOK, ClientStates
    <3>. QED
      BY <3>1, ConcatEmptySeq
  <2>. QED
    BY <1>1, <1>2, <2>1, <2>3, <2>4 DEF Complete
<1>. QED
  BY <1>4, <1>5, <1>6 DEF LedgerInv, TeeLossIsExplained, AloneMissesNothing, Streaming, LossExplained,
     AloneSince, Complete

(* A loop that leaves the stream, and with its end detaches the task.      *)
LEMMA EndKeepsLedger ==
  ASSUME OrderInv, LedgerInv, NEW c \in Clients, ReadGarbage(c) \/ Detach(c) \/ AttachEnd(c)
  PROVE  LedgerInv'
<1>1. PICK to \in {"ending", "ended"} :
        /\ client' = [client EXCEPT ![c].phase = to]
        /\ to = "ending" => UNCHANGED <<attached, attachBuf>>
        /\ client[c].phase # "idle" /\ client[c].phase # "ended"
  BY DEF ReadGarbage, Detach, AttachEnd, runtimeVars
<1>2. UNCHANGED <<runtime, launch, pumped, overflowed>>
  BY DEF ReadGarbage, Detach, AttachEnd, runtimeVars
<1>3. /\ \A d \in Clients \ {c} : client'[d] = client[d]
      /\ client'[c].phase = to /\ client'[c].got = client[c].got
      /\ client'[c].since = client[c].since /\ client'[c].begun = client[c].begun
  <2>1. to \in Phases
    BY DEF Phases
  <2>2. StreamOK
    BY DEF OrderInv
  <2>3. client' = [client EXCEPT ![c].phase = to]
    BY <1>1
  <2>. QED
    BY <2>1, <2>2, <2>3, PhaseView
<1>4. to # "streaming" /\ to # "idle"
  OBVIOUS
<1>5. Ledgered'
  BY <1>2, <1>3, <1>4 DEF LedgerInv, Ledgered
<1>6. ASSUME NEW d \in Clients, client'[d].phase = "streaming" PROVE LossExplained(d)'
  <2>1. d # c /\ client'[d] = client[d]
    BY <1>3, <1>4, <1>6
  <2>2. CASE to = "ended"
    <3>1. c \in Clients \ {d} /\ client'[c].phase = "ended"
      BY <1>3, <2>1, <2>2
    <3>. QED
      BY <3>1 DEF LossExplained
  <2>3. CASE to = "ending"
    <3>1. LossExplained(d)
      BY <1>6, <2>1, LedgerByClient DEF LedgerInv
    <3>2. attached' = attached /\ runtime' = runtime /\ launch' = launch
      BY <1>1, <1>2, <2>3
    <3>3. \A e \in Clients : client[e].phase = "ended" => client'[e].phase = "ended"
      BY <1>1, <1>3
    <3>. QED
      BY <2>1, <3>1, <3>2, <3>3 DEF LossExplained
  <2>. QED
    BY <2>2, <2>3
<1>7. \A d \in Clients : client'[d].phase = "streaming" => ~AloneSince(d)'
  BY <1>3, <1>4 DEF AloneSince
<1>. QED
  BY <1>5, <1>6, <1>7 DEF LedgerInv, TeeLossIsExplained, AloneMissesNothing, Streaming, LossExplained,
     AloneSince

LEMMA LedgerStep == OrderInv /\ LedgerInv /\ [AttachNext]_attachVars => LedgerInv'
<1>. SUFFICES ASSUME OrderInv, LedgerInv, [AttachNext]_attachVars PROVE LedgerInv'
  OBVIOUS
<1>1. CASE PrintChunk \/ ProviderExits \/ ReadTty \/ JoinReader \/ UNCHANGED attachVars
  BY <1>1, LedgerStays DEF PrintChunk, ProviderExits, ReadTty, JoinReader, attachVars, runtimeVars
<1>2. ASSUME NEW c \in Clients, SendHeader(c) \/ SendBody(c) \/ ReadFrame(c) PROVE LedgerInv'
  BY <1>2, LedgerStays DEF SendHeader, SendBody, ReadFrame, runtimeVars
<1>3. CASE PumpRetires \/ StopInstance \/ Relaunch
  BY <1>3, InstanceGone, InstanceReplaced DEF OrderInv
<1>. QED
  BY <1>1, <1>2, <1>3, PumpKeepsLedger, BeginKeepsLedger, TickKeepsLedger, EndKeepsLedger DEF AttachNext

-----------------------------------------------------------------------------
(* What a client alone has got is where the output since its attach begins.*)

AloneWithIt(c) ==
  /\ \A d \in Clients \ {c} : client[d].phase = "idle"
  /\ launch = client[c].begun /\ c \notin overflowed

Begins(got, since, q) ==
  \A i \in DOMAIN got : since + i \in DOMAIN q /\ got[i] = q[since + i]

LEMMA EndByClient ==
  OnlyTheEndIsLost <=>
    \A c \in Clients : AloneWithIt(c) => Begins(client[c].got, client[c].since, pumped)
BY DEF OnlyTheEndIsLost, AloneWithIt, Begins

LEMMA BeginsFurther ==
  ASSUME NEW got \in Seq(Nat), NEW n \in Nat, NEW q \in Seq(Nat), NEW k \in Seq(Nat), Begins(got, n, q)
  PROVE  Begins(got, n, q \o k)
<1>1. /\ DOMAIN q = 1..Len(q) /\ DOMAIN (q \o k) = 1..(Len(q) + Len(k))
      /\ Len(q) \in Nat /\ Len(k) \in Nat
      /\ \A i \in 1..Len(q) : (q \o k)[i] = q[i]
  OBVIOUS
<1>2. 1..Len(q) \subseteq 1..(Len(q) + Len(k))
  BY <1>1
<1>. QED
  BY <1>1, <1>2 DEF Begins

(* A client that was not sent anything stays where it was, as long as      *)
(* nobody leaves the stream for good and no new provider comes.            *)
LEMMA EndKept ==
  ASSUME StreamOK, OnlyTheEndIsLost,
         \A d \in Clients : /\ client'[d].phase = "idle" => client[d].phase = "idle"
                            /\ \/ client'[d].got = <<>>
                               \/ /\ client'[d].got = client[d].got /\ client'[d].since = client[d].since
                                  /\ client'[d].begun = client[d].begun,
         launch' = launch, overflowed \subseteq overflowed',
         pumped' = pumped \/ pumped' = pumped \o channel
  PROVE  OnlyTheEndIsLost'
<1>1. ASSUME NEW c \in Clients, AloneWithIt(c)' PROVE Begins(client'[c].got, client'[c].since, pumped')
  <2>1. CASE client'[c].got = <<>>
    BY <2>1 DEF Begins
  <2>2. CASE /\ client'[c].got = client[c].got /\ client'[c].since = client[c].since
             /\ client'[c].begun = client[c].begun
    <3>1. AloneWithIt(c)
      BY <1>1, <2>2 DEF AloneWithIt
    <3>2. Begins(client[c].got, client[c].since, pumped)
      BY <3>1, EndByClient
    <3>3. /\ client[c].got \in Seq(Nat) /\ client[c].since \in Nat
          /\ pumped \in Seq(Nat) /\ channel \in Seq(Nat)
      BY DEF StreamOK, ClientStates
    <3>. QED
      BY <2>2, <3>2, <3>3, BeginsFurther
  <2>. QED
    BY <2>1, <2>2
<1>. QED
  BY <1>1 DEF OnlyTheEndIsLost, AloneWithIt, Begins

LEMMA TickKeepsEnd == ASSUME OrderInv, LedgerInv, EndInv, NEW c \in Clients, Tick(c) PROVE OnlyTheEndIsLost'
<1>1. /\ \A d \in Clients \ {c} : client'[d] = client[d]
      /\ client[c].phase = "streaming" /\ client'[c].phase \in {"streaming", "ending"}
      /\ client'[c].got = client[c].got \o attachBuf
      /\ client'[c].since = client[c].since /\ client'[c].begun = client[c].begun
  BY TickView DEF OrderInv
<1>2. UNCHANGED <<runtime, launch, pumped, overflowed>>
  BY DEF Tick
<1>3. "streaming" # "idle" /\ "ending" # "idle"
  OBVIOUS
<1>4. /\ client[c].got \in Seq(Nat) /\ client[c].since \in Nat /\ pumped \in Seq(Nat)
      /\ client[c].since <= Len(pumped)
  BY DEF OrderInv, StreamOK, ClientStates, LedgerInv, Ledgered
<1>5. ASSUME NEW d \in Clients, AloneWithIt(d)' PROVE Begins(client'[d].got, client'[d].since, pumped)
  <2>1. d = c
    BY <1>1, <1>3, <1>5 DEF AloneWithIt
  <2>2. AloneWithIt(c)
    BY <1>1, <1>2, <1>5, <2>1 DEF AloneWithIt
  <2>3. CASE runtime = "live"
    <3>1. Complete(c)
      BY <1>1, <2>2, <2>3, LedgerByClient DEF LedgerInv, AloneWithIt, AloneSince
    <3>. DEFINE n == client[c].since  s == client[c].got \o attachBuf
    <3>2. s = SubSeq(pumped, n + 1, Len(pumped))
      BY <3>1 DEF Complete
    <3>3. /\ s \in Seq(Nat) /\ Len(s) = Len(pumped) - n
          /\ \A i \in 1 .. Len(pumped) - n : s[i] = pumped[n + i]
      <4>1. n \in Nat /\ n <= Len(pumped) /\ pumped \in Seq(Nat)
        BY <1>4
      <4>. HIDE DEF s, n
      <4>. QED
        BY <3>2, <4>1, SinceElements
    <3>4. DOMAIN s = 1..(Len(pumped) - n) /\ DOMAIN pumped = 1..Len(pumped)
      <4>. HIDE DEF s
      <4>. QED
        BY <1>4, <3>3
    <3>5. \A i \in 1..(Len(pumped) - n) : n + i \in 1..Len(pumped)
      BY <1>4
    <3>. HIDE DEF s, n
    <3>6. Begins(s, n, pumped)
      BY <3>3, <3>4, <3>5 DEF Begins
    <3>. QED
      BY <1>1, <2>1, <3>6 DEF s, n
  <2>4. CASE runtime # "live"
    <3>1. client'[c].got = client[c].got
      <4>1. attachBuf = <<>>
        BY <2>4 DEF EndInv, OrderInv, StreamOK
      <4>. QED
        BY <1>1, <1>4, <4>1, ConcatEmptySeq
    <3>2. Begins(client[c].got, client[c].since, pumped)
      BY <2>2, EndByClient DEF EndInv
    <3>. QED
      BY <1>1, <2>1, <3>1, <3>2
  <2>. QED
    BY <2>3, <2>4
<1>. QED
  BY <1>2, <1>5 DEF OnlyTheEndIsLost, AloneWithIt, Begins

LEMMA EndStep == OrderInv /\ LedgerInv /\ EndInv /\ [AttachNext]_attachVars => EndInv'
<1>. SUFFICES ASSUME OrderInv, LedgerInv, EndInv, [AttachNext]_attachVars PROVE EndInv'
  OBVIOUS
<1>0. StreamOK
  BY DEF OrderInv
<1>1. CASE UNCHANGED <<runtime, launch, attachBuf, pumped, overflowed, client>>
  BY <1>1 DEF EndInv, OnlyTheEndIsLost
<1>2. CASE PrintChunk \/ ProviderExits \/ ReadTty \/ JoinReader \/ UNCHANGED attachVars
  BY <1>1, <1>2 DEF PrintChunk, ProviderExits, ReadTty, JoinReader, attachVars, runtimeVars
<1>3. ASSUME NEW c \in Clients, SendHeader(c) \/ SendBody(c) \/ ReadFrame(c) PROVE EndInv'
  BY <1>1, <1>3 DEF SendHeader, SendBody, ReadFrame, runtimeVars
<1>4. CASE Pump \/ PumpRetires \/ StopInstance
  <2>1. /\ client' = client /\ launch' = launch /\ overflowed \subseteq overflowed'
        /\ pumped' = pumped \/ pumped' = pumped \o channel
    BY <1>4 DEF Pump, PumpRetires, StopInstance
  <2>2. OnlyTheEndIsLost'
    BY <1>0, <2>1, EndKept DEF EndInv
  <2>3. runtime' # "live" => attachBuf' = <<>>
    BY <1>4 DEF Pump, PumpRetires, StopInstance, Dropped
  <2>. QED
    BY <2>2, <2>3 DEF EndInv
<1>5. CASE Relaunch
  <2>1. client' = client /\ launch' = launch + 1 /\ runtime' = "live"
    BY <1>5 DEF Relaunch
  <2>2. \A c \in Clients : launch + 1 # client[c].begun
    <3>1. \A n, k \in Nat : k <= n => n + 1 # k
      OBVIOUS
    <3>2. \A c \in Clients : client[c].begun \in Nat /\ launch \in Nat
      BY <1>0 DEF StreamOK, ClientStates
    <3>. QED
      BY <3>1, <3>2 DEF LedgerInv, Ledgered
  <2>. QED
    BY <2>1, <2>2 DEF EndInv, OnlyTheEndIsLost
<1>6. ASSUME NEW c \in Clients, AttachBegin(c) PROVE EndInv'
  <2>1. /\ \A d \in Clients \ {c} : client'[d] = client[d]
        /\ client[c].phase = "idle" /\ client'[c].phase = "streaming" /\ client'[c].got = client[c].got
    BY <1>0, <1>6, BeginView
  <2>2. /\ UNCHANGED <<runtime, launch, pumped, overflowed>>
        /\ attachBuf' = attachBuf \/ attachBuf' = <<>>
    BY <1>6 DEF AttachBegin, SetAttached
  <2>3. client'[c].got = <<>>
    BY <2>1 DEF LedgerInv, Ledgered
  <2>4. OnlyTheEndIsLost'
    BY <1>0, <2>1, <2>2, <2>3, EndKept DEF EndInv
  <2>. QED
    BY <2>2, <2>4 DEF EndInv
<1>7. ASSUME NEW c \in Clients, ReadGarbage(c) \/ Detach(c) \/ AttachEnd(c) PROVE EndInv'
  <2>1. PICK to \in {"ending", "ended"} : client' = [client EXCEPT ![c].phase = to] /\ client[c].phase # "idle"
    BY <1>7 DEF ReadGarbage, Detach, AttachEnd
  <2>2. /\ \A d \in Clients \ {c} : client'[d] = client[d]
        /\ client'[c].phase = to /\ client'[c].got = client[c].got
        /\ client'[c].since = client[c].since /\ client'[c].begun = client[c].begun
    <3>1. to \in Phases
      BY DEF Phases
    <3>. QED
      BY <1>0, <2>1, <3>1, PhaseView
  <2>3. /\ UNCHANGED <<runtime, launch, pumped, overflowed>>
        /\ attachBuf' = attachBuf \/ attachBuf' = <<>>
    BY <1>7 DEF ReadGarbage, Detach, AttachEnd, SetAttached, runtimeVars
  <2>4. to # "idle"
    OBVIOUS
  <2>5. OnlyTheEndIsLost'
    BY <1>0, <2>2, <2>3, <2>4, EndKept DEF EndInv
  <2>. QED
    BY <2>3, <2>5 DEF EndInv
<1>8. ASSUME NEW c \in Clients, Tick(c) PROVE EndInv'
  <2>1. runtime' = runtime /\ attachBuf' = <<>>
    BY <1>8 DEF Tick
  <2>. QED
    BY <1>8, <2>1, TickKeepsEnd DEF EndInv
<1>. QED
  BY <1>2, <1>3, <1>4, <1>5, <1>6, <1>7, <1>8 DEF AttachNext

(* What the inductive invariant says of the tee is what the runs check.    *)
LEMMA OrderIsDelivery == OrderInv => DeliveredOnce
<1>. SUFFICES ASSUME OrderInv PROVE DeliveredOnce
  OBVIOUS
<1>1. ASSUME NEW c \in Clients PROVE Increasing(client[c].got \o attachBuf \o channel)
  <2>1. /\ client[c].got \in Seq(Nat) /\ attachBuf \in Seq(Nat) /\ channel \in Seq(Nat)
        /\ Sorted(client[c].got) /\ Sorted(attachBuf) /\ Sorted(channel)
    BY DEF OrderInv, StreamOK, SortedAll, ClientStates
  <2>2. Layers(Delivered(c), Range(attachBuf), Range(channel), Range(tty), printed)
    BY DEF OrderInv, InOrder
  <2>. DEFINE gb == client[c].got \o attachBuf
  <2>3. gb \in Seq(Nat) /\ Sorted(gb) /\ Range(gb) = Delivered(c) \cup Range(attachBuf)
    BY <2>1, <2>2, ConcatOrdered, ConcatProperties, RangeConcatenation DEF Layers, Delivered
  <2>4. Before(Range(gb), Range(channel))
    BY <2>2, <2>3 DEF Layers, Before
  <2>. HIDE DEF gb
  <2>. DEFINE all == gb \o channel
  <2>5. all \in Seq(Nat) /\ Sorted(all)
    BY <2>1, <2>3, <2>4, ConcatOrdered, ConcatProperties
  <2>. HIDE DEF all
  <2>6. Increasing(all)
    <3>1. Len(all) \in Nat
      BY <2>5, LenProperties
    <3>2. \A i \in 1 .. (Len(all) - 1) : i \in 1 .. Len(all) /\ i + 1 \in 1 .. Len(all) /\ i < i + 1
      BY <3>1
    <3>. QED
      BY <2>5, <3>2 DEF Increasing, Sorted
  <2>. QED
    BY <2>6 DEF all, gb
<1>2. \A c \in Clients : {client[c].got[i] : i \in DOMAIN client[c].got} = Delivered(c)
  BY DEF Delivered, Range
<1>. QED
  BY <1>1, <1>2 DEF DeliveredOnce, OrderInv, Apart

(* daemon.rs:1817: for any number of clients, any tee and any output, the  *)
(* tee neither repeats nor reorders, a client alone misses nothing but the *)
(* end of a provider's output, and one whose tee has gone has somebody to  *)
(* blame for it.                                                           *)
THEOREM StreamsAreFaithful == AttachSpec => []StreamIsFaithful
<1>1. StreamInv /\ [AttachNext]_attachVars => StreamInv'
  BY OrderStep, LedgerStep, EndStep DEF StreamInv
<1>2. StreamInv => StreamIsFaithful
  BY OrderIsDelivery DEF StreamInv, LedgerInv, EndInv, StreamIsFaithful
<1>. QED
  BY <1>1, <1>2, StreamInitOK, PTL DEF AttachSpec

-----------------------------------------------------------------------------
(* The sidebar.                                                            *)

(* The two panels share the sidebar between them, without a gap or an      *)
(* overlap (sidebar_split).                                                *)
LEMMA PanelsStack ==
  ASSUME NEW height \in Nat, NEW folders \in Nat
  PROVE  /\ WorkspacesHeight(height, folders) \in 0..height
         /\ AgentsPanel(height, folders).y = WorkspacesPanel(height, folders).y + WorkspacesPanel(height, folders).h
         /\ WorkspacesPanel(height, folders).h + AgentsPanel(height, folders).h = height
BY DEF WorkspacesHeight, WorkspacesPanel, AgentsPanel, SubZero, SidebarTop

(* In a panel, the row that is drawn at a line is the row a click there    *)
(* finds.                                                                  *)
LEMMA HitIsDrawn ==
  ASSUME NEW y \in Nat, NEW h \in Nat, NEW rows \in Nat, NEW row \in Nat, NEW i \in 0..(rows - 1)
  PROVE  DrawnAt([y |-> y, h |-> h], rows, i, row) <=> HitIn([y |-> y, h |-> h], rows, row) = i
BY DEF DrawnAt, HitIn, Within, SubZero

(* A line of the agents' panel is none of the workspaces' panel.           *)
LEMMA PanelsAreApart ==
  ASSUME NEW height \in Nat, NEW folders \in Nat, NEW row \in Nat,
         Within(AgentsPanel(height, folders), row)
  PROVE  ~Within(WorkspacesPanel(height, folders), row)
<1>1. /\ WorkspacesPanel(height, folders).y \in Nat /\ WorkspacesPanel(height, folders).h \in Nat
      /\ AgentsPanel(height, folders).y = WorkspacesPanel(height, folders).y + WorkspacesPanel(height, folders).h
  BY PanelsStack DEF WorkspacesPanel, SidebarTop
<1>. QED
  BY <1>1 DEF Within

(* A click in the sidebar finds the row that is drawn under it, and only   *)
(* that (app.rs:1029), on every screen and with any number of rows.        *)
THEOREM ClicksAreExact ==
  ASSUME NEW height \in Nat, NEW folders \in Nat, NEW agents \in Nat
  PROVE  ClicksFindWhatIsDrawn(height, folders, agents)
<1>. DEFINE ws == WorkspacesPanel(height, folders)
            ag == AgentsPanel(height, folders)
<1>1. /\ ws = [y |-> ws.y, h |-> ws.h] /\ ws.y \in Nat /\ ws.h \in Nat
      /\ ag = [y |-> ag.y, h |-> ag.h] /\ ag.y \in Nat /\ ag.h \in Nat
  <2>1. WorkspacesHeight(height, folders) \in 0..height
    BY PanelsStack
  <2>2. WorkspacesHeight(height, folders) \in Nat
        /\ SubZero(height, WorkspacesHeight(height, folders)) \in Nat
    BY <2>1 DEF SubZero
  <2>. QED
    BY <2>2 DEF WorkspacesPanel, AgentsPanel, SidebarTop
<1>2. SUFFICES ASSUME NEW row \in 0..(SidebarTop + height)
      PROVE  /\ \A i \in 0..(folders - 1) : DrawnAt(ws, folders, i, row) <=> FolderHit(height, folders, row) = i
             /\ \A i \in 0..(agents - 1) : DrawnAt(ag, agents, i, row) <=> AgentHit(height, folders, agents, row) = i
  BY DEF ClicksFindWhatIsDrawn
<1>3. row \in Nat
  BY DEF SidebarTop
<1>4. ASSUME NEW i \in 0..(folders - 1)
      PROVE  DrawnAt(ws, folders, i, row) <=> FolderHit(height, folders, row) = i
  <2>. HIDE DEF ws
  <2>1. DrawnAt([y |-> ws.y, h |-> ws.h], folders, i, row) <=> HitIn([y |-> ws.y, h |-> ws.h], folders, row) = i
    BY <1>1, <1>3, HitIsDrawn
  <2>2. DrawnAt(ws, folders, i, row) <=> HitIn(ws, folders, row) = i
    BY <1>1, <2>1
  <2>. QED
    BY <2>2 DEF FolderHit, ws
<1>5. ASSUME NEW i \in 0..(agents - 1)
      PROVE  DrawnAt(ag, agents, i, row) <=> AgentHit(height, folders, agents, row) = i
  <2>1. DrawnAt(ag, agents, i, row) <=> HitIn(ag, agents, row) = i
    <3>. HIDE DEF ag
    <3>1. DrawnAt([y |-> ag.y, h |-> ag.h], agents, i, row) <=> HitIn([y |-> ag.y, h |-> ag.h], agents, row) = i
      BY <1>1, <1>3, HitIsDrawn
    <3>. QED
      BY <1>1, <3>1
  <2>2. HitIn(ag, agents, row) = i => ~Within(ws, row)
    <3>1. HitIn(ag, agents, row) = i => Within(ag, row)
      BY DEF HitIn
    <3>. QED
      BY <3>1, <1>3, PanelsAreApart
  <2>3. AgentHit(height, folders, agents, row) = (IF Within(ws, row) THEN -1 ELSE HitIn(ag, agents, row))
    BY DEF AgentHit
  <2>4. i # -1
    OBVIOUS
  <2>. QED
    BY <2>1, <2>2, <2>3, <2>4
<1>. QED
  BY <1>2, <1>4, <1>5

-----------------------------------------------------------------------------

(* Filtered keeps entries of the list that are in the set, and some when   *)
(* there are any.                                                          *)
LEMMA FilteredOK ==
  ASSUME NEW A, NEW s \in Seq(A), NEW S
  PROVE  /\ Filtered(s, S) \in Seq(A \cap S)
         /\ ToSet(Filtered(s, S)) \subseteq ToSet(s) \cap S
         /\ ToSet(s) \cap S # {} => Head(Filtered(s, S)) \in S
<1>. DEFINE More(g, n) == IF n = 0 THEN <<>>
                          ELSE IF s[n] \in S THEN Append(g[n - 1], s[n]) ELSE g[n - 1]
            upTo[n \in 0..Len(s)] == IF n = 0 THEN <<>>
                          ELSE IF s[n] \in S THEN Append(upTo[n - 1], s[n]) ELSE upTo[n - 1]
            Exists(n) == \E g : g = [m \in 0..n |-> More(g, m)]
            B == ToSet(s) \cap A \cap S
<1>1. Len(s) \in Nat /\ \A i \in 1..Len(s) : s[i] \in A /\ s[i] \in ToSet(s)
  BY DEF ToSet
<1>2. Exists(Len(s))
  <2>. DEFINE Bad == {n \in Nat : ~Exists(n)}
  <2>. SUFFICES ASSUME Bad # {} PROVE FALSE
    BY <1>1, Zenon
  <2>1. PICK n \in Bad : \A m \in Bad : n <= m
    BY LeastNat, Zenon
  <2>2. n \in Nat /\ ~Exists(n)
    BY Zenon
  <2>3. \E g : \A m \in 0..(n - 1) : g[m] = More(g, m)
    <3>1. CASE n = 0
      BY <3>1
    <3>2. CASE n # 0
      <4>1. n - 1 \in Nat /\ ~(n <= n - 1)
        BY <2>2, <3>2
      <4>2. Exists(n - 1)
        BY <2>1, <4>1, Zenon
      <4>3. PICK g : g = [m \in 0..(n - 1) |-> More(g, m)]
        BY <4>2, Zenon
      <4>4. \A m \in 0..(n - 1) : g[m] = More(g, m)
        BY <4>3, Zenon
      <4>. QED
        BY <4>4, Zenon
    <3>. QED
      BY <3>1, <3>2
  <2>4. PICK g : \A m \in 0..(n - 1) : g[m] = More(g, m)
    BY <2>3, Zenon
  <2>. DEFINE h == [m \in 0..n |-> More(g, m)]
  <2>5. \A m \in 0..n : m # 0 => h[m - 1] = g[m - 1]
    <3>. SUFFICES ASSUME NEW m \in 0..n, m # 0 PROVE h[m - 1] = g[m - 1]
      OBVIOUS
    <3>1. m - 1 \in 0..n /\ m - 1 \in 0..(n - 1)
      BY <2>2
    <3>. HIDE DEF More
    <3>. QED
      BY <2>4, <3>1
  <2>6. \A m \in 0..n : More(h, m) = More(g, m)
    <3>. HIDE DEF h
    <3>. QED
      BY <2>5
  <2>7. h = [m \in 0..n |-> More(h, m)]
    <3>1. [m \in 0..n |-> More(h, m)] = [m \in 0..n |-> More(g, m)]
      <4>. HIDE DEF More, h
      <4>. QED
        BY <2>6
    <3>. QED
      BY <3>1, Zenon
  <2>8. Exists(n)
    BY <2>7, Zenon
  <2>. QED
    BY <2>2, <2>8
<1>3. upTo = [n \in 0..Len(s) |-> More(upTo, n)]
  BY <1>2, Zenon
<1>4. Filtered(s, S) = upTo[Len(s)]
  BY DEF Filtered
<1>. HIDE DEF upTo
<1>5. \A n \in 0..Len(s) : upTo[n] = More(upTo, n)
  BY <1>3, Zenon
<1>. DEFINE Good(n) == /\ upTo[n] \in Seq(B)
                       /\ (\E i \in 1..n : s[i] \in S) => upTo[n] # <<>>
<1>6. \A n \in 0..Len(s) : Good(n)
  <2>. DEFINE Bad == {n \in 0..Len(s) : ~Good(n)}
  <2>. SUFFICES ASSUME Bad # {} PROVE FALSE
    BY Zenon
  <2>1. PICK n \in Bad : \A m \in Bad : n <= m
    <3>1. Bad \subseteq Nat
      BY <1>1
    <3>. HIDE DEF Bad
    <3>. QED
      BY <3>1, LeastNat
  <2>2. n \in 0..Len(s) /\ ~Good(n)
    BY Zenon
  <2>3. n # 0
    <3>1. upTo[0] = <<>>
      BY <1>1, <1>5
    <3>2. upTo[0] \in Seq(B)
      <4>. HIDE DEF B
      <4>. QED
        BY <3>1
    <3>3. ~\E i \in 1..0 : s[i] \in S
      OBVIOUS
    <3>4. Good(0)
      BY <3>2, <3>3, Zenon
    <3>. QED
      BY <2>2, <3>4, Zenon
  <2>4. n - 1 \in 0..Len(s) /\ ~(n <= n - 1) /\ n \in 1..Len(s)
    BY <1>1, <2>2, <2>3
  <2>5. Good(n - 1)
    BY <2>1, <2>4, Zenon
  <2>6. upTo[n] = IF s[n] \in S THEN Append(upTo[n - 1], s[n]) ELSE upTo[n - 1]
    BY <1>5, <2>2, <2>3, Zenon
  <2>7. s[n] \in S => s[n] \in B
    BY <1>1, <2>4
  <2>. HIDE DEF B
  <2>8. Good(n)
    <3>1. upTo[n] \in Seq(B)
      BY <2>5, <2>6, <2>7
    <3>2. ASSUME NEW i \in 1..n, s[i] \in S PROVE upTo[n] # <<>>
      <4>1. CASE i = n
        BY <2>5, <2>6, <2>7, <3>2, <4>1
      <4>2. CASE i # n
        <5>1. i \in 1..(n - 1)
          BY <2>4, <4>2
        <5>. QED
          BY <2>5, <2>6, <2>7, <3>2, <5>1
      <4>. QED
        BY <4>1, <4>2
    <3>. QED
      BY <3>1, <3>2
  <2>. QED
    BY <2>2, <2>8
<1>. DEFINE f == Filtered(s, S)
<1>7. f \in Seq(B) /\ ((\E i \in 1..Len(s) : s[i] \in S) => f # <<>>)
  BY <1>1, <1>4, <1>6
<1>. HIDE DEF f
<1>8. f \in Seq(A \cap S)
  <2>1. B \subseteq A \cap S
    OBVIOUS
  <2>. HIDE DEF B
  <2>. QED
    BY <1>7, <2>1
<1>9. ToSet(f) \subseteq B
  BY <1>7 DEF ToSet
<1>10. ToSet(s) \cap S # {} => Head(f) \in S
  <2>. SUFFICES ASSUME ToSet(s) \cap S # {} PROVE Head(f) \in S
    OBVIOUS
  <2>1. \E i \in 1..Len(s) : s[i] \in S
    BY <1>1 DEF ToSet
  <2>2. f # <<>>
    BY <1>7, <2>1
  <2>. QED
    BY <1>8, <2>2
<1>. QED
  BY <1>8, <1>9, <1>10 DEF f

-----------------------------------------------------------------------------
(* The values the model of the screen takes.                               *)
Data == [tasks : [AgentIds -> States], workspaces : SUBSET ToSet(Folders)]
Questions == [action : {"Terminate", "Forget"}, task : AgentIds]
Models ==
  [data : Data,
   view : {"Home", "NewTask", "Launch", "Confirm", "OpenFolder", "Help"},
   pending : {Nobody} \cup Questions,
   launchRepo : ToSet(Folders) \cup {Nobody},
   sidebar : {"Workspaces", "Agents"}, wsSelected : Nat \ {0}, agentSelected : Nat \ {0},
   panes : [Groups -> Seq(AgentIds)],
   activeWs : Groups \cup {Nobody}, focusedPane : AgentIds \cup {Nobody},
   focus : {"Sidebar", "Panes"}]

LEMMA ConstantsOK ==
  /\ Agents \in Seq(AgentIds) /\ Folders \in Seq(ToSet(Folders))
  /\ \A t \in AgentIds : FolderOf[t] \in ToSet(Folders)
  /\ ToSet(Folders) \subseteq Groups /\ OtherGroup \in Groups
  /\ Nobody \notin AgentIds /\ Nobody \notin Groups
  /\ LaunchDir \in ToSet(Folders) /\ LaunchRepo \in ToSet(Folders) \cup {Nobody}
BY TuiAssumption DEF AgentIds, Groups

LEMMA WsKeyOK ==
  ASSUME NEW data, NEW t \in AgentIds
  PROVE  WsKey(data, t) \in Groups
BY ConstantsOK DEF WsKey

LEMMA WsItemsOK ==
  ASSUME NEW data \in Data
  PROVE  WsItems(data) \in Seq(Groups) /\ Len(WsItems(data)) \in Nat
<1>1. RegisteredIn(data) \in Seq(Groups)
  <2>1. RegisteredIn(data) \in Seq(ToSet(Folders) \cap data.workspaces)
    BY ConstantsOK, FilteredOK DEF RegisteredIn
  <2>2. ToSet(Folders) \cap data.workspaces \subseteq Groups
    BY ConstantsOK
  <2>. QED
    BY <2>1, <2>2
<1>2. (IF Listed(data, OtherGroup) = {} THEN <<>> ELSE <<OtherGroup>>) \in Seq(Groups)
  BY ConstantsOK
<1>. QED
  BY <1>1, <1>2 DEF WsItems

LEMMA AllRowsOK == AllRows \in Seq([group : Groups, item : AgentIds \cup {Nobody}])
<1>1. Len(Agents) \in Nat /\ Len(Folders) \in Nat
  BY ConstantsOK
<1>2. (Len(Folders) + 1) * (Len(Agents) + 1) \in Nat
  BY <1>1
<1>3. ASSUME NEW k \in Nat \ {0} PROVE Row(k) \in [group : Groups, item : AgentIds \cup {Nobody}]
  <2>. DEFINE each == Len(Agents) + 1
              grp  == (k - 1) \div each + 1
              at   == (k - 1) % each
  <2>1. at \in 0..Len(Agents)
    BY <1>1
  <2>2. at = 0 \/ Agents[at] \in AgentIds
    <3>. HIDE DEF at
    <3>. QED
      BY <1>1, <2>1, ConstantsOK
  <2>3. grp \in DOMAIN Folders => Folders[grp] \in Groups
    <3>. HIDE DEF grp
    <3>. QED
      BY ConstantsOK
  <2>4. Row(k) = [group |-> IF grp \in DOMAIN Folders THEN Folders[grp] ELSE OtherGroup,
                  item |-> IF at = 0 THEN Nobody ELSE Agents[at]]
    BY DEF Row
  <2>. HIDE DEF grp, at
  <2>. QED
    BY <2>2, <2>3, <2>4, ConstantsOK
<1>. QED
  BY <1>2, <1>3 DEF AllRows

LEMMA NavItemsOK ==
  ASSUME NEW data \in Data
  PROVE  /\ NavItems(data) \in Seq(AgentIds \cup {Nobody})
         /\ Len(NavItems(data)) \in Nat
         /\ AgentRows(data) \subseteq 1..Len(NavItems(data))
<1>. DEFINE groups == ToSet(WsItems(data))
            shown  == {r \in ToSet(AllRows) : IF r.item = Nobody THEN r.group \in groups
                                         ELSE r.item \in Listed(data, r.group)}
            rows   == Filtered(AllRows, shown)
            R      == [group : Groups, item : AgentIds \cup {Nobody}]
<1>1. rows \in Seq(R)
  <2>. HIDE DEF shown
  <2>1. rows \in Seq(R \cap shown)
    BY AllRowsOK, FilteredOK
  <2>. HIDE DEF R, rows
  <2>. QED
    BY <2>1
<1>2. NavItems(data) = [i \in DOMAIN rows |-> rows[i].item]
  BY DEF NavItems
<1>. HIDE DEF rows
<1>3. NavItems(data) \in Seq(AgentIds \cup {Nobody})
  <2>1. \A r \in R : r.item \in AgentIds \cup {Nobody}
    OBVIOUS
  <2>. HIDE DEF R
  <2>2. Len(rows) \in Nat /\ DOMAIN rows = 1..Len(rows) /\ \A i \in 1..Len(rows) : rows[i] \in R
    BY <1>1
  <2>3. \A i \in 1..Len(rows) : rows[i].item \in AgentIds \cup {Nobody}
    BY <2>1, <2>2
  <2>4. NavItems(data) = [i \in 1..Len(rows) |-> rows[i].item]
    BY <1>2, <2>2
  <2>. QED
    BY <2>2, <2>3, <2>4
<1>. QED
  BY <1>3 DEF AgentRows

LEMMA SnappedOK ==
  ASSUME NEW data \in Data, NEW row \in Nat \ {0}
  PROVE  /\ Snapped(data, row) \in Nat \ {0}
         /\ AgentRows(data) # {} => Snapped(data, row) \in AgentRows(data)
<1>. DEFINE rows == AgentRows(data)
            last == Len(NavItems(data))
            at   == IF row > last THEN last ELSE row
            further == {r \in rows : r > at}
<1>1. last \in Nat /\ rows \subseteq 1..last
  BY NavItemsOK
<1>2. at \in Nat
  BY <1>1
<1>3. Snapped(data, row) = IF at \in rows \/ rows = {} THEN IF at = 0 THEN 1 ELSE at
                           ELSE IF \E r \in rows : r > at THEN Min(further) ELSE Max(rows)
  BY DEF Snapped
<1>. HIDE DEF at, rows, last
<1>4. CASE at \in rows \/ rows = {}
  BY <1>1, <1>2, <1>3, <1>4 DEF rows
<1>5. CASE ~(at \in rows \/ rows = {}) /\ \E r \in rows : r > at
  <2>0. rows \subseteq Nat
    BY <1>1
  <2>1. further \subseteq Nat /\ further # {}
    BY <2>0, <1>5, Zenon
  <2>2. Min(further) \in further
    <3>. HIDE DEF further
    <3>. QED
      BY <2>1, MinOK
  <2>3. Min(further) \in rows
    BY <2>2
  <2>. QED
    BY <1>1, <1>3, <1>5, <2>3 DEF rows
<1>6. CASE ~(at \in rows \/ rows = {}) /\ ~\E r \in rows : r > at
  <2>1. rows \subseteq 0..last /\ rows # {}
    BY <1>1, <1>6
  <2>2. Max(rows) \in rows
    BY <1>1, <2>1, MaxOK, Zenon
  <2>. QED
    BY <1>1, <1>3, <1>6, <2>2 DEF rows
<1>. QED
  BY <1>4, <1>5, <1>6


-----------------------------------------------------------------------------
(* What every operation on the screen keeps, and where it puts the panes.  *)
Focused(u) ==
  /\ u.focus = "Panes" => u.focusedPane # Nobody
  /\ u.focusedPane # Nobody => u.activeWs # Nobody /\ u.focusedPane \in ToSet(u.panes[u.activeWs])
Selecting(u) == AgentRows(u.data) # {} => u.agentSelected \in AgentRows(u.data)
Asked(u)     == u.view = "Confirm" => u.pending \in Questions
Coherent(u)  == u \in Models /\ Focused(u) /\ Selecting(u) /\ Asked(u)

LEMMA SelectedOK ==
  ASSUME NEW u \in Models
  PROVE  SelectedAgent(u) \in AgentIds \cup {Nobody}
<1>1. u.data \in Data
  BY DEF Models
<1>2. NavItems(u.data) \in Seq(AgentIds \cup {Nobody})
  BY <1>1, NavItemsOK
<1>. QED
  BY <1>2 DEF SelectedAgent

LEMMA TargetsOK ==
  ASSUME NEW u \in Models
  PROVE  {DefaultRepo(u), LaunchTarget(u), SplitTarget(u)} \subseteq ToSet(Folders) \cup {Nobody}
<1>1. u.data.workspaces \subseteq ToSet(Folders)
  BY DEF Models, Data
<1>2. \A g, other : other \in ToSet(Folders) \cup {Nobody} =>
        RepoOf(u, g, other) \in ToSet(Folders) \cup {Nobody}
  BY <1>1 DEF RepoOf
<1>3. DefaultRepo(u) \in ToSet(Folders) \cup {Nobody}
  BY <1>2, ConstantsOK DEF DefaultRepo
<1>4. LaunchTarget(u) \in ToSet(Folders) \cup {Nobody}
  BY <1>3, ConstantsOK DEF LaunchTarget
<1>5. SplitTarget(u) \in ToSet(Folders) \cup {Nobody}
  BY <1>2, <1>4 DEF SplitTarget
<1>. QED
  BY <1>3, <1>4, <1>5

LEMMA HeadOK ==
  ASSUME NEW A, NEW s \in Seq(A), s # <<>>
  PROVE  Head(s) \in A /\ Head(s) \in ToSet(s)
<1>1. Head(s) = s[1] /\ 1 \in DOMAIN s
  OBVIOUS
<1>. QED
  BY <1>1 DEF ToSet

LEMMA FirstPaneOK ==
  ASSUME NEW u \in Models, NEW g \in Groups
  PROVE  /\ FirstPane(u, g) \in AgentIds \cup {Nobody}
         /\ FirstPane(u, g) # Nobody => FirstPane(u, g) \in ToSet(u.panes[g])
         /\ u.panes[g] # <<>> => FirstPane(u, g) # Nobody
<1>1. u.panes[g] \in Seq(AgentIds)
  BY DEF Models
<1>. QED
  BY <1>1, HeadOK, ConstantsOK DEF FirstPane

(* Fetching: a selected agent stays one, and nothing else moves.           *)
LEMMA SetDataOK ==
  ASSUME NEW u \in Models, Focused(u), Asked(u), NEW data \in Data
  PROVE  LET v == SetData(u, data) IN Coherent(v) /\ v.data = data /\ v.panes = u.panes
<1>. DEFINE last == Len(WsItems(data))
            ws(n) == IF n > last THEN (IF last = 0 THEN 1 ELSE last) ELSE n
            v == SetData(u, data)
<1>1. last \in Nat
  BY WsItemsOK
<1>2. \A n \in Nat \ {0} : ws(n) \in Nat \ {0}
  <2>. HIDE DEF last
  <2>. QED
    BY <1>1
<1>3. Snapped(data, u.agentSelected) \in Nat \ {0}
      /\ (AgentRows(data) # {} => Snapped(data, u.agentSelected) \in AgentRows(data))
  <2>1. u.agentSelected \in Nat \ {0}
    BY DEF Models
  <2>. QED
    BY <2>1, SnappedOK
<1>4. v = [u EXCEPT !.data = data, !.wsSelected = ws(u.wsSelected),
                    !.agentSelected = Snapped(data, u.agentSelected)]
  BY DEF SetData
<1>. HIDE DEF ws, v
<1>5. v \in Models
  BY <1>2, <1>3, <1>4 DEF Models
<1>6. /\ v.data = data /\ v.agentSelected = Snapped(data, u.agentSelected)
      /\ v.panes = u.panes /\ v.activeWs = u.activeWs /\ v.focusedPane = u.focusedPane
      /\ v.focus = u.focus /\ v.view = u.view /\ v.pending = u.pending
  BY <1>4 DEF Models
<1>7. Selecting(v) /\ Focused(v) /\ Asked(v)
  BY <1>3, <1>6 DEF Selecting, Focused, Asked
<1>. QED
  BY <1>5, <1>6, <1>7 DEF v, Coherent

(* Showing the selected workspace's group.                                 *)
LEMMA SyncOK ==
  ASSUME NEW u, Coherent(u), u.focus = "Sidebar"
  PROVE  LET v == SyncActiveWs(u) IN Coherent(v) /\ v.panes = u.panes /\ v.data = u.data
<1>. DEFINE g == WsItems(u.data)[u.wsSelected]
            v == SyncActiveWs(u)
<1>0. u \in Models /\ Selecting(u) /\ Asked(u)
  BY DEF Coherent
<1>1. CASE u.wsSelected \notin DOMAIN WsItems(u.data)
  BY <1>1 DEF SyncActiveWs, Coherent
<1>2. CASE u.wsSelected \in DOMAIN WsItems(u.data)
  <2>1. u.data \in Data
    BY <1>0 DEF Models
  <2>2. WsItems(u.data) \in Seq(Groups)
    BY <2>1, WsItemsOK
  <2>3. g \in Groups
    BY <1>2, <2>2
  <2>4. v = [u EXCEPT !.activeWs = g, !.focusedPane = FirstPane(u, g)]
    BY <1>2 DEF SyncActiveWs
  <2>. HIDE DEF v, g
  <2>5. v \in Models
    BY <1>0, <2>3, <2>4, FirstPaneOK DEF Models
  <2>6. /\ v.activeWs = g /\ v.focusedPane = FirstPane(u, g) /\ v.focus = "Sidebar"
        /\ v.panes = u.panes /\ v.data = u.data /\ v.agentSelected = u.agentSelected
        /\ v.view = u.view /\ v.pending = u.pending
    BY <1>0, <2>4 DEF Models
  <2>7. Focused(v)
    BY <1>0, <2>3, <2>6, FirstPaneOK, ConstantsOK DEF Focused
  <2>8. Selecting(v) /\ Asked(v)
    BY <1>0, <2>6 DEF Selecting, Asked
  <2>. QED
    BY <2>5, <2>6, <2>7, <2>8 DEF Coherent, v
<1>. QED
  BY <1>1, <1>2


LEMMA InsertAtOK ==
  ASSUME NEW A, NEW s \in Seq(A), NEW at \in 0..Len(s), NEW t \in A
  PROVE  InsertAt(s, at + 1, t) \in Seq(A) /\ ToSet(InsertAt(s, at + 1, t)) = ToSet(s) \cup {t}
<1>. DEFINE n == Len(s)
            v == InsertAt(s, at + 1, t)
<1>1. n \in Nat /\ at \in Nat /\ at <= n
  OBVIOUS
<1>2. v = SubSeq(s, 1, at) \o <<t>> \o SubSeq(s, at + 1, n)
  <2>1. (at + 1) - 1 = at
    BY <1>1
  <2>2. v = SubSeq(s, 1, (at + 1) - 1) \o <<t>> \o SubSeq(s, at + 1, n)
    BY DEF InsertAt
  <2>. HIDE DEF v
  <2>. QED
    BY <2>1, <2>2
<1>. DEFINE front == SubSeq(s, 1, at)
            back  == SubSeq(s, at + 1, n)
<1>3. front \in Seq(A) /\ Len(front) = at /\ \A i \in 1..at : front[i] = s[i]
  BY <1>1
<1>4. back \in Seq(A) /\ Len(back) = n - at /\ \A i \in 1..(n - at) : back[i] = s[at + i]
  BY <1>1
<1>. HIDE DEF front, back
<1>5. /\ (front \o <<t>>) \in Seq(A) /\ Len(front \o <<t>>) = at + 1
      /\ \A i \in 1..(at + 1) : (front \o <<t>>)[i] = IF i <= at THEN s[i] ELSE t
  BY <1>1, <1>3
<1>6. v = (front \o <<t>>) \o back
  BY <1>2 DEF front, back
<1>7. v \in Seq(A) /\ Len(v) = n + 1
  <2>. DEFINE w == front \o <<t>>
  <2>1. w \in Seq(A) /\ Len(w) = at + 1
    BY <1>5
  <2>2. v = w \o back
    BY <1>6
  <2>. HIDE DEF v, w
  <2>3. w \o back \in Seq(A) /\ Len(w \o back) = Len(w) + Len(back)
    BY <1>4, <2>1, ConcatProperties, Zenon
  <2>. QED
    BY <1>1, <1>4, <2>1, <2>2, <2>3
<1>8. \A i \in 1..(n + 1) : v[i] = IF i <= at THEN s[i] ELSE IF i = at + 1 THEN t ELSE s[i - 1]
  <2>. SUFFICES ASSUME NEW i \in 1..(n + 1)
       PROVE v[i] = IF i <= at THEN s[i] ELSE IF i = at + 1 THEN t ELSE s[i - 1]
    OBVIOUS
  <2>. HIDE DEF v
  <2>1. v[i] = IF i <= at + 1 THEN (front \o <<t>>)[i] ELSE back[i - (at + 1)]
    BY <1>1, <1>4, <1>5, <1>6
  <2>2. i > at + 1 => back[i - (at + 1)] = s[i - 1]
    BY <1>1, <1>4
  <2>. QED
    BY <1>1, <1>5, <2>1, <2>2
<1>. HIDE DEF v
<1>9. ToSet(v) \subseteq ToSet(s) \cup {t}
  <2>. SUFFICES ASSUME NEW i \in 1..(n + 1) PROVE v[i] \in ToSet(s) \cup {t}
    BY <1>7 DEF ToSet
  <2>1. CASE i <= at
    BY <1>1, <1>8, <2>1 DEF ToSet
  <2>2. CASE i = at + 1
    BY <1>1, <1>8, <2>2
  <2>3. CASE i > at + 1
    <3>1. i - 1 \in DOMAIN s /\ v[i] = s[i - 1]
      BY <1>1, <1>8, <2>3
    <3>. QED
      BY <3>1 DEF ToSet
  <2>. QED
    BY <1>1, <2>1, <2>2, <2>3
<1>10. ToSet(s) \cup {t} \subseteq ToSet(v)
  <2>1. \A i \in 1..(n + 1) : v[i] \in ToSet(v)
    BY <1>7 DEF ToSet
  <2>2. t = v[at + 1]
    BY <1>1, <1>8
  <2>3. ASSUME NEW i \in 1..n PROVE s[i] \in ToSet(v)
    <3>1. CASE i <= at
      BY <1>1, <1>8, <2>1, <3>1
    <3>2. CASE i > at
      <4>1. i + 1 \in 1..(n + 1) /\ v[i + 1] = s[i]
        BY <1>1, <1>8, <3>2
      <4>. QED
        BY <2>1, <4>1
    <3>. QED
      BY <1>1, <3>1, <3>2
  <2>4. ToSet(s) \subseteq ToSet(v)
    <3>1. \A x \in ToSet(s) : \E i \in 1..n : x = s[i]
      BY DEF ToSet
    <3>. QED
      BY <2>3, <3>1
  <2>. QED
    BY <1>1, <2>1, <2>2, <2>4
<1>. QED
  BY <1>7, <1>9, <1>10 DEF v

(* Opening a pane puts it where the task belongs, on screen and focused.   *)
LEMMA OpenPaneOK ==
  ASSUME NEW u, Coherent(u), NEW t \in AgentIds
  PROVE  LET v == OpenPane(u, t) IN
         /\ Coherent(v) /\ v.data = u.data
         /\ \A g \in Groups : ToSet(v.panes[g]) =
              ToSet(u.panes[g]) \cup (IF g = WsKey(u.data, t) THEN {t} ELSE {})
<1>. DEFINE g     == WsKey(u.data, t)
            panes == u.panes[g]
            at    == IF u.focusedPane \in ToSet(panes)
                     THEN CHOOSE i \in DOMAIN panes : panes[i] = u.focusedPane ELSE Len(panes)
            next  == IF t \in ToSet(panes) THEN panes ELSE InsertAt(panes, at + 1, t)
            v     == OpenPane(u, t)
<1>1. u \in Models /\ u.panes \in [Groups -> Seq(AgentIds)] /\ g \in Groups
  BY WsKeyOK DEF Coherent, Models
<1>2. panes \in Seq(AgentIds)
  <2>. HIDE DEF g
  <2>. QED
    BY <1>1
<1>3. at \in 0..Len(panes)
  <2>. HIDE DEF g, panes
  <2>. QED
    BY <1>2 DEF ToSet
<1>4. next \in Seq(AgentIds) /\ ToSet(next) = ToSet(panes) \cup {t}
  <2>. HIDE DEF panes, at
  <2>. QED
    BY <1>2, <1>3, InsertAtOK
<1>5. v = [u EXCEPT !.focus = "Panes", !.activeWs = g, !.focusedPane = t, !.panes[g] = next]
  BY DEF OpenPane
<1>6. v = [u EXCEPT !.focus = "Panes", !.activeWs = g, !.focusedPane = t,
                    !.panes = [u.panes EXCEPT ![g] = next]]
  <2>. HIDE DEF v, g, next
  <2>. QED
    BY <1>1, <1>5 DEF Models
<1>. HIDE DEF v, next
<1>7. /\ v.focus = "Panes" /\ v.activeWs = g /\ v.focusedPane = t
      /\ v.panes = [u.panes EXCEPT ![g] = next] /\ v.data = u.data
      /\ v.agentSelected = u.agentSelected /\ v.view = u.view /\ v.pending = u.pending
  <2>. HIDE DEF g
  <2>. QED
    BY <1>1, <1>6 DEF Models
<1>8. v \in Models
  <2>. HIDE DEF g
  <2>1. [u.panes EXCEPT ![g] = next] \in [Groups -> Seq(AgentIds)]
    BY <1>1, <1>4
  <2>. QED
    BY <1>1, <1>6, <2>1 DEF Models
<1>9. \A k \in Groups : ToSet(v.panes[k]) = ToSet(u.panes[k]) \cup (IF k = g THEN {t} ELSE {})
  <2>1. \A k \in Groups : v.panes[k] = IF k = g THEN next ELSE u.panes[k]
    <3>. HIDE DEF g
    <3>. QED
      BY <1>1, <1>7
  <2>2. ToSet(v.panes[g]) = ToSet(u.panes[g]) \cup {t}
    BY <1>1, <1>4, <2>1
  <2>. HIDE DEF g, panes
  <2>. QED
    BY <2>1, <2>2
<1>10. Focused(v) /\ Selecting(v) /\ Asked(v)
  <2>1. Selecting(u) /\ Asked(u)
    BY DEF Coherent
  <2>2. t \in ToSet(v.panes[g])
    BY <1>1, <1>9
  <2>. HIDE DEF g
  <2>. QED
    BY <1>1, <1>7, <2>1, <2>2, ConstantsOK DEF Focused, Selecting, Asked
<1>. QED
  BY <1>7, <1>8, <1>9, <1>10 DEF Coherent, v

(* Whatever was focused, what is focused next is a pane on screen.         *)
LEMMA RefocusedOK ==
  ASSUME NEW u \in Models, Selecting(u), Asked(u)
  PROVE  LET v == Refocused(u) IN Coherent(v) /\ v.data = u.data /\ v.panes = u.panes
<1>. DEFINE others == {g \in Groups : u.panes[g] # <<>>}
            next   == IF OtherGroup \in others THEN OtherGroup ELSE Head(Filtered(Folders, others))
            v == Refocused(u)
<1>1. u.panes \in [Groups -> Seq(AgentIds)] /\ u.activeWs \in Groups \cup {Nobody}
      /\ u.focusedPane \in AgentIds \cup {Nobody}
  BY DEF Models
<1>2. ASSUME NEW w, w \in Models, Focused(w), w.data = u.data, w.agentSelected = u.agentSelected,
             w.view = u.view, w.pending = u.pending
      PROVE  Coherent(w)
  BY <1>2 DEF Coherent, Selecting, Asked
<1>3. CASE Open(u, u.activeWs) /\ u.focusedPane \in ToSet(u.panes[u.activeWs])
  <2>1. v = u
    BY <1>3 DEF Refocused
  <2>2. u.activeWs # Nobody /\ u.focusedPane # Nobody
    <3>1. u.activeWs \in Groups
      BY <1>1, <1>3 DEF Open
    <3>2. u.panes[u.activeWs] \in Seq(AgentIds)
      BY <1>1, <3>1
    <3>3. ToSet(u.panes[u.activeWs]) \subseteq AgentIds
      BY <3>2 DEF ToSet
    <3>. QED
      BY <1>3, <3>1, <3>3, ConstantsOK
  <2>. QED
    BY <1>2, <1>3, <2>1, <2>2 DEF Focused
<1>4. ASSUME NEW g \in Groups, u.panes[g] # <<>>,
             v = [u EXCEPT !.activeWs = g, !.focusedPane = FirstPane(u, g)]
      PROVE  Coherent(v) /\ v.data = u.data /\ v.panes = u.panes
  <2>. HIDE DEF v
  <2>1. /\ v.activeWs = g /\ v.focusedPane = FirstPane(u, g)
        /\ v.panes = u.panes /\ v.data = u.data /\ v.agentSelected = u.agentSelected
        /\ v.view = u.view /\ v.pending = u.pending
    BY <1>4 DEF Models
  <2>2. v \in Models
    BY <1>4, FirstPaneOK DEF Models
  <2>3. Focused(v)
    BY <1>4, <2>1, FirstPaneOK, ConstantsOK DEF Focused
  <2>. QED
    BY <1>2, <2>1, <2>2, <2>3
<1>5. CASE Open(u, u.activeWs) /\ u.focusedPane \notin ToSet(u.panes[u.activeWs])
  <2>1. v = [u EXCEPT !.focusedPane = FirstPane(u, u.activeWs)]
    BY <1>5 DEF Refocused
  <2>2. v = [u EXCEPT !.activeWs = u.activeWs, !.focusedPane = FirstPane(u, u.activeWs)]
    BY <2>1 DEF Models
  <2>. QED
    BY <1>1, <1>4, <1>5, <2>2 DEF Open
<1>6. CASE ~Open(u, u.activeWs) /\ others # {}
  <2>1. v = [u EXCEPT !.activeWs = next, !.focusedPane = FirstPane(u, next)]
    BY <1>6 DEF Refocused
  <2>2. next \in others
    <3>1. OtherGroup \notin others => ToSet(Folders) \cap others # {}
      BY <1>6 DEF Groups
    <3>2. OtherGroup \notin others => Head(Filtered(Folders, others)) \in others
      <4>. HIDE DEF others
      <4>. QED
        BY <3>1, ConstantsOK, FilteredOK
    <3>. QED
      BY <3>2
  <2>3. next \in Groups /\ u.panes[next] # <<>>
    BY <2>2
  <2>. HIDE DEF next
  <2>. QED
    BY <1>4, <2>1, <2>3
<1>7. CASE ~Open(u, u.activeWs) /\ others = {}
  <2>1. v = [u EXCEPT !.activeWs = Nobody, !.focusedPane = Nobody, !.focus = "Sidebar"]
    BY <1>7 DEF Refocused
  <2>. HIDE DEF v
  <2>2. v \in Models /\ v.focus = "Sidebar" /\ v.focusedPane = Nobody
        /\ v.panes = u.panes /\ v.data = u.data /\ v.agentSelected = u.agentSelected
        /\ v.view = u.view /\ v.pending = u.pending
    BY <2>1 DEF Models
  <2>. QED
    BY <1>2, <2>2 DEF Focused, v
<1>. QED
  BY <1>3, <1>5, <1>6, <1>7

(* Closing a pane takes it out of the group the task belongs to, adds no   *)
(* pane anywhere, and leaves the focus on an open one.                     *)
LEMMA ClosePaneOK ==
  ASSUME NEW u, u \in Models, Selecting(u), Asked(u), NEW t \in AgentIds
  PROVE  LET v == ClosePane(u, t) IN
         /\ Coherent(v) /\ v.data = u.data
         /\ \A g \in Groups : ToSet(v.panes[g]) \subseteq
              ToSet(u.panes[g]) \ (IF g = WsKey(u.data, t) THEN {t} ELSE {})
<1>. DEFINE g == WsKey(u.data, t)
            s == Without(u.panes[g], t)
            w == [u EXCEPT !.panes[g] = s]
<1>1. u.panes \in [Groups -> Seq(AgentIds)] /\ g \in Groups
  BY WsKeyOK DEF Models
<1>2. s \in Seq(AgentIds) /\ ToSet(s) \subseteq ToSet(u.panes[g]) \ {t}
  <2>1. u.panes[g] \in Seq(AgentIds)
    <3>. HIDE DEF g
    <3>. QED
      BY <1>1
  <2>2. s \in Seq(AgentIds \cap (AgentIds \ {t})) /\ ToSet(s) \subseteq ToSet(u.panes[g]) \cap (AgentIds \ {t})
    <3>1. s = Filtered(u.panes[g], AgentIds \ {t})
      BY DEF Without
    <3>2. \A x \in Seq(AgentIds) : \A S : /\ Filtered(x, S) \in Seq(AgentIds \cap S)
                                            /\ ToSet(Filtered(x, S)) \subseteq ToSet(x) \cap S
      BY FilteredOK
    <3>. HIDE DEF s, g
    <3>. QED
      BY <2>1, <3>1, <3>2, Zenon
  <2>3. AgentIds \cap (AgentIds \ {t}) \subseteq AgentIds
    OBVIOUS
  <2>. HIDE DEF s, g
  <2>. QED
    BY <2>2, <2>3
<1>3. ClosePane(u, t) = Refocused(w)
  BY DEF ClosePane
<1>. HIDE DEF g, s
<1>4. w = [u EXCEPT !.panes = [u.panes EXCEPT ![g] = s]]
  BY DEF Models
<1>5. [u.panes EXCEPT ![g] = s] \in [Groups -> Seq(AgentIds)]
  BY <1>1, <1>2
<1>6. w \in Models /\ w.panes = [u.panes EXCEPT ![g] = s] /\ w.data = u.data
      /\ w.agentSelected = u.agentSelected /\ w.view = u.view /\ w.pending = u.pending
  BY <1>4, <1>5 DEF Models
<1>. HIDE DEF w
<1>7. Selecting(w) /\ Asked(w)
  BY <1>6 DEF Selecting, Asked
<1>8. Coherent(Refocused(w)) /\ Refocused(w).data = u.data /\ Refocused(w).panes = w.panes
  BY <1>6, <1>7, RefocusedOK
<1>9. \A k \in Groups : ToSet(w.panes[k]) \subseteq ToSet(u.panes[k]) \ (IF k = g THEN {t} ELSE {})
  <2>1. \A k \in Groups : w.panes[k] = IF k = g THEN s ELSE u.panes[k]
    BY <1>1, <1>6
  <2>2. ToSet(w.panes[g]) \subseteq ToSet(u.panes[g]) \ {t}
    BY <1>1, <1>2, <2>1
  <2>. QED
    BY <2>1, <2>2
<1>. QED
  BY <1>3, <1>8, <1>9 DEF g


LEMMA MoveSelectionOK ==
  ASSUME NEW u, Coherent(u), u.focus = "Sidebar", NEW down \in BOOLEAN
  PROVE  LET v == MoveSelection(u, down) IN Coherent(v) /\ v.panes = u.panes
<1>. DEFINE rows  == AgentRows(u.data)
            ahead == {r \in rows : IF down THEN r > u.agentSelected ELSE r < u.agentSelected}
            step  == IF down THEN u.wsSelected + 1 ELSE u.wsSelected - 1
            n     == IF step \in DOMAIN WsItems(u.data) THEN step ELSE u.wsSelected
            w     == [u EXCEPT !.wsSelected = n]
            v     == MoveSelection(u, down)
<1>1. u \in Models /\ u.data \in Data /\ u.wsSelected \in Nat \ {0} /\ u.agentSelected \in Nat \ {0}
  BY DEF Coherent, Models
<1>2. CASE u.sidebar = "Workspaces"
  <2>1. n \in Nat \ {0}
    <3>1. WsItems(u.data) \in Seq(Groups)
      BY <1>1, WsItemsOK
    <3>. HIDE DEF step
    <3>. QED
      BY <1>1, <3>1
  <2>2. w \in Models /\ w.focus = "Sidebar" /\ w.panes = u.panes
        /\ w.focusedPane = u.focusedPane /\ w.activeWs = u.activeWs /\ w.data = u.data
        /\ w.agentSelected = u.agentSelected /\ w.view = u.view /\ w.pending = u.pending
    <3>. HIDE DEF n
    <3>. QED
      BY <1>1, <2>1 DEF Models
  <2>3. Coherent(w)
    <3>. HIDE DEF w
    <3>. QED
      BY <2>2 DEF Coherent, Focused, Selecting, Asked
  <2>4. v = SyncActiveWs(w)
    BY <1>2 DEF MoveSelection
  <2>. HIDE DEF v, w
  <2>. QED
    BY <2>2, <2>3, <2>4, SyncOK DEF v
<1>3. CASE u.sidebar # "Workspaces" /\ ahead = {}
  BY <1>3 DEF MoveSelection
<1>4. CASE u.sidebar # "Workspaces" /\ ahead # {}
  <2>. DEFINE row == IF down THEN Min(ahead) ELSE Max(ahead)
  <2>1. Len(NavItems(u.data)) \in Nat /\ rows \subseteq 1..Len(NavItems(u.data))
    BY <1>1, NavItemsOK
  <2>2. ahead \subseteq rows
    OBVIOUS
  <2>3. row \in rows /\ row \in Nat \ {0}
    <3>. HIDE DEF rows, ahead
    <3>1. ahead \subseteq Nat /\ ahead \subseteq 0..Len(NavItems(u.data))
      BY <2>1, <2>2
    <3>2. Min(ahead) \in ahead
      BY <1>4, <3>1, MinOK
    <3>3. Max(ahead) \in ahead
      BY <1>4, <2>1, <3>1, MaxOK
    <3>4. row \in ahead
      BY <3>2, <3>3
    <3>. HIDE DEF row
    <3>. QED
      BY <2>1, <2>2, <3>4
  <2>4. v = [u EXCEPT !.agentSelected = row]
    BY <1>4 DEF MoveSelection
  <2>. HIDE DEF v, row
  <2>5. v \in Models /\ v.panes = u.panes /\ v.data = u.data /\ v.agentSelected = row
        /\ v.focus = u.focus /\ v.focusedPane = u.focusedPane /\ v.activeWs = u.activeWs
        /\ v.view = u.view /\ v.pending = u.pending
    BY <1>1, <2>3, <2>4 DEF Models
  <2>. QED
    BY <2>3, <2>5 DEF Coherent, Focused, Selecting, Asked, v
<1>. QED
  BY <1>2, <1>3, <1>4

LEMMA HomeOK ==
  ASSUME NEW u, Coherent(u)
  PROVE  Coherent(Home(u)) /\ Home(u).panes = u.panes /\ Home(u).data = u.data
<1>. DEFINE v == Home(u)
<1>1. v \in Models /\ v.panes = u.panes /\ v.data = u.data /\ v.agentSelected = u.agentSelected
      /\ v.focus = u.focus /\ v.focusedPane = u.focusedPane /\ v.activeWs = u.activeWs /\ v.view = "Home"
  BY DEF Home, Coherent, Models
<1>. HIDE DEF v
<1>. QED
  BY <1>1 DEF v, Coherent, Focused, Selecting, Asked

LEMMA PaletteOK ==
  ASSUME NEW u, Coherent(u), NEW repo \in ToSet(Folders) \cup {Nobody}
  PROVE  Coherent(Palette(u, repo)) /\ Palette(u, repo).panes = u.panes
<1>. DEFINE v == Palette(u, repo)
<1>1. v \in Models /\ v.panes = u.panes /\ v.data = u.data /\ v.agentSelected = u.agentSelected
      /\ v.focus = u.focus /\ v.focusedPane = u.focusedPane /\ v.activeWs = u.activeWs /\ v.view = "Launch"
  BY DEF Palette, Coherent, Models
<1>. HIDE DEF v
<1>. QED
  BY <1>1 DEF v, Coherent, Focused, Selecting, Asked

LEMMA RefreshesOK ==
  ASSUME NEW u, Coherent(u), NEW reached, agentState' \in [AgentIds -> States],
         registered' \subseteq ToSet(Folders)
  PROVE  Coherent(Refreshes(u, reached)) /\ Refreshes(u, reached).panes = u.panes
<1>. DEFINE data == [tasks |-> agentState', workspaces |-> registered']
<1>1. data \in Data
  BY DEF Data
<1>. HIDE DEF data
<1>2. u \in Models /\ Focused(u) /\ Asked(u)
  BY DEF Coherent
<1>3. Coherent(SetData(u, data)) /\ SetData(u, data).panes = u.panes
  BY <1>1, <1>2, SetDataOK
<1>. QED
  BY <1>3 DEF Refreshes, data

-----------------------------------------------------------------------------
(* A task that never changed group while it was paned is in its own group, *)
(* with a session behind the pane.                                         *)
ScreenInv ==
  /\ agentState \in [AgentIds -> States] /\ registered \subseteq ToSet(Folders)
  /\ sessions \in [AgentIds -> {"none", "live", "dead"}] /\ regrouped \subseteq AgentIds
  /\ keys \in 0..MaxKeys /\ outside \in 0..MaxOutside
  /\ Coherent(ui)
  /\ \A t \in AgentIds \ regrouped, g \in Groups :
       t \in ToSet(ui.panes[g]) => g = WsKey(ui.data, t) /\ sessions[t] # "none"

Typed == /\ agentState \in [AgentIds -> States] /\ registered \subseteq ToSet(Folders)
         /\ outside \in 0..MaxOutside

(* The panes of the tasks that did not change group, at the end of a turn. *)
Placed(u, kept) ==
  \A t \in AgentIds \ regrouped, g \in Groups :
    t \in ToSet(u.panes[g]) /\ WsKey(u.data, t) = WsKey(ui.data, t)
      => g = WsKey(u.data, t) /\ kept[t] # "none"

LEMMA PanedOK ==
  ASSUME NEW u \in Models
  PROVE  /\ Paned(u) \subseteq AgentIds
         /\ \A t, g : g \in Groups /\ t \in ToSet(u.panes[g]) => t \in Paned(u)
<1>1. \A g \in Groups : u.panes[g] \in Seq(AgentIds)
  BY DEF Models
<1>2. \A g \in Groups : ToSet(u.panes[g]) \subseteq AgentIds
  BY <1>1 DEF ToSet
<1>. QED
  BY <1>2 DEF Paned

LEMMA EndsTurnOK ==
  ASSUME ScreenInv, Typed', NEW u, Coherent(u), NEW kept \in [AgentIds -> {"none", "live", "dead"}],
         EndsTurn(u, kept), Placed(u, kept)
  PROVE  ScreenInv'
<1>1. ui' = u /\ regrouped' = regrouped \cup Moved(ui, u)
      /\ sessions' = [t \in AgentIds |-> IF t \in Paned(u) THEN kept[t] ELSE "none"]
      /\ keys' = keys + 1 /\ keys < MaxKeys
  BY DEF EndsTurn
<1>2. ui \in Models /\ u \in Models
  BY DEF ScreenInv, Coherent
<1>3. Moved(ui, u) \subseteq AgentIds
  BY <1>2, PanedOK DEF Moved
<1>4. keys' \in 0..MaxKeys
  BY <1>1, TuiAssumption DEF ScreenInv
<1>5. sessions' \in [AgentIds -> {"none", "live", "dead"}] /\ regrouped' \subseteq AgentIds
  BY <1>1, <1>3 DEF ScreenInv
<1>6. ASSUME NEW t \in AgentIds \ regrouped', NEW g \in Groups, t \in ToSet(u.panes[g])
      PROVE  g = WsKey(u.data, t) /\ sessions'[t] # "none"
  <2>1. t \in Paned(u)
    BY <1>2, <1>6, PanedOK
  <2>2. t \notin regrouped /\ WsKey(u.data, t) = WsKey(ui.data, t)
    BY <1>1, <2>1 DEF Moved
  <2>3. g = WsKey(u.data, t) /\ kept[t] # "none"
    BY <1>6, <2>2 DEF Placed
  <2>. QED
    BY <1>1, <2>1, <2>3
<1>7. Coherent(ui)'
  BY <1>1
<1>8. \A t \in AgentIds \ regrouped', g \in Groups :
        t \in ToSet(ui'.panes[g]) => g = WsKey(ui'.data, t) /\ sessions'[t] # "none"
  BY <1>1, <1>6
<1>. QED
  BY <1>4, <1>5, <1>7, <1>8 DEF ScreenInv, Typed

(* A turn that leaves the panes where they are.                            *)
LEMMA TurnOK ==
  ASSUME ScreenInv, Typed', NEW u, Coherent(u), u.panes = ui.panes, EndsTurn(u, sessions)
  PROVE  ScreenInv'
<1>1. Placed(u, sessions)
  BY DEF Placed, ScreenInv
<1>2. sessions \in [AgentIds -> {"none", "live", "dead"}]
  BY DEF ScreenInv
<1>. QED
  BY <1>1, <1>2, EndsTurnOK

(* A turn that opens or closes panes of one task, where it belonged or     *)
(* belongs.                                                                *)
Touches(u, t) ==
  \A g \in Groups : ToSet(u.panes[g]) \subseteq
    ToSet(ui.panes[g]) \cup (IF g \in {WsKey(ui.data, t), WsKey(u.data, t)} THEN {t} ELSE {})
Closed(u, t) == \E g \in {WsKey(ui.data, t), WsKey(u.data, t)} : t \notin ToSet(u.panes[g])

LEMMA OneTaskTurnOK ==
  ASSUME ScreenInv, Typed', NEW u, Coherent(u), NEW t \in AgentIds, Touches(u, t),
         NEW s \in {"none", "live", "dead"}, s # "none" \/ Closed(u, t),
         EndsTurn(u, [sessions EXCEPT ![t] = s])
  PROVE  ScreenInv'
<1>. DEFINE kept == [sessions EXCEPT ![t] = s]
<1>1. kept \in [AgentIds -> {"none", "live", "dead"}]
      /\ \A x \in AgentIds : kept[x] = IF x = t THEN s ELSE sessions[x]
  BY DEF ScreenInv
<1>. HIDE DEF kept
<1>2. ASSUME NEW x \in AgentIds \ regrouped, NEW g \in Groups,
             x \in ToSet(u.panes[g]), WsKey(u.data, x) = WsKey(ui.data, x)
      PROVE  g = WsKey(u.data, x) /\ kept[x] # "none"
  <2>1. CASE x # t
    <3>1. x \in ToSet(ui.panes[g])
      BY <1>2, <2>1 DEF Touches
    <3>. QED
      BY <1>1, <1>2, <2>1, <3>1 DEF ScreenInv
  <2>2. CASE x = t
    <3>1. g = WsKey(u.data, x)
      <4>1. CASE x \in ToSet(ui.panes[g])
        BY <1>2, <4>1 DEF ScreenInv
      <4>2. CASE x \notin ToSet(ui.panes[g])
        BY <1>2, <2>2, <4>2 DEF Touches
      <4>. QED
        BY <4>1, <4>2
    <3>2. ~Closed(u, t)
      BY <1>2, <2>2, <3>1 DEF Closed
    <3>. QED
      BY <1>1, <2>2, <3>1, <3>2
  <2>. QED
    BY <2>1, <2>2
<1>3. Placed(u, kept)
  BY <1>2 DEF Placed
<1>. QED
  BY <1>1, <1>3, EndsTurnOK DEF kept


-----------------------------------------------------------------------------
(* The socket calls.                                                       *)
LEMMA OutsideOK ==
  ASSUME ScreenInv, NEW n \in Nat, Outside(n)
  PROVE  outside' \in 0..MaxOutside
<1>1. outside \in Nat /\ MaxOutside \in Nat
  BY TuiAssumption DEF ScreenInv
<1>. QED
  BY <1>1 DEF Outside

LEMMA FailedCallsOK ==
  ASSUME NEW reached, NEW attaches
  PROVE  Cardinality({call \in {<<"fetch", reached>>, <<"attach", attaches>>} : ~call[2]}) \in Nat
<1>. DEFINE calls == {<<"fetch", reached>>, <<"attach", attaches>>}
            failed == {call \in calls : ~call[2]}
<1>1. IsFiniteSet({<<"fetch", reached>>}) /\ calls = {<<"fetch", reached>>} \cup {<<"attach", attaches>>}
  BY FS_Singleton
<1>2. IsFiniteSet(calls)
  BY <1>1, FS_AddElement
<1>3. failed \in SUBSET calls
  OBVIOUS
<1>. HIDE DEF calls, failed
<1>4. IsFiniteSet(failed)
  BY <1>2, <1>3, FS_Subset
<1>5. Cardinality(failed) \in Nat
  BY <1>4, FS_CardinalityType
<1>. QED
  BY <1>5 DEF failed, calls

LEMMA StartOrRestartOK ==
  ASSUME ScreenInv, NEW t \in AgentIds, NEW ok \in BOOLEAN, StartOrRestart(t, ok)
  PROVE  agentState' \in [AgentIds -> States]
<1>1. agentState \in [AgentIds -> States]
  BY DEF ScreenInv
<1>2. CASE \E s \in {"Queued", "Active"} : agentState' = [agentState EXCEPT ![t] = s]
  BY <1>1, <1>2 DEF States
<1>3. CASE agentState' = [agentState EXCEPT ![t] = IF @ \in {"Hibernated", "Queued"} THEN "Failed" ELSE @]
  BY <1>1, <1>3 DEF States
<1>. QED
  BY <1>2, <1>3 DEF StartOrRestart

(* open_agent_pane: the pane ends up where the task belongs, with a        *)
(* session, or is closed again.                                            *)
LEMMA OpenAgentPaneOK ==
  ASSUME ScreenInv, NEW t \in AgentIds, UNCHANGED registered, OpenAgentPane(OpenPane(ui, t), t)
  PROVE  ScreenInv'
<1>. DEFINE u == OpenPane(ui, t)
<1>0. Coherent(ui) /\ registered' \subseteq ToSet(Folders)
      /\ sessions \in [AgentIds -> {"none", "live", "dead"}]
  BY DEF ScreenInv
<1>1. /\ Coherent(u) /\ u.data = ui.data
      /\ \A g \in Groups : ToSet(u.panes[g]) =
           ToSet(ui.panes[g]) \cup (IF g = WsKey(ui.data, t) THEN {t} ELSE {})
  BY <1>0, OpenPaneOK
<1>2. sessions[t] \in {"none", "live", "dead"} /\ sessions = [sessions EXCEPT ![t] = sessions[t]]
  BY <1>0
<1>3. OpenAgentPane(u, t)
  OBVIOUS
<1>. HIDE DEF u
<1>4. ASSUME NEW reached \in BOOLEAN, NEW attaches \in BOOLEAN, StartOrRestart(t, TRUE),
             Outside(Cardinality({call \in {<<"fetch", reached>>, <<"attach", attaches>>} : ~call[2]})),
             LET shown == OpenPane(Refreshes(u, reached), t) IN
               IF sessions[t] # "none" THEN EndsTurn(shown, sessions)
               ELSE IF attaches THEN EndsTurn(shown, [sessions EXCEPT ![t] = "live"])
               ELSE EndsTurn(ClosePane(shown, t), sessions)
      PROVE  ScreenInv'
  <2>. DEFINE r == Refreshes(u, reached)
              shown == OpenPane(r, t)
              closed == ClosePane(shown, t)
  <2>1. agentState' \in [AgentIds -> States] /\ outside' \in 0..MaxOutside
    BY <1>4, StartOrRestartOK, OutsideOK, FailedCallsOK
  <2>2. Typed'
    BY <1>0, <2>1 DEF Typed
  <2>3. Coherent(r) /\ r.panes = u.panes
    BY <1>0, <1>1, <2>1, RefreshesOK
  <2>4. IF sessions[t] # "none" THEN EndsTurn(shown, sessions)
        ELSE IF attaches THEN EndsTurn(shown, [sessions EXCEPT ![t] = "live"])
        ELSE EndsTurn(closed, sessions)
    BY <1>4
  <2>. HIDE DEF r
  <2>5. /\ Coherent(shown) /\ shown.data = r.data
        /\ \A g \in Groups : ToSet(shown.panes[g]) =
             ToSet(r.panes[g]) \cup (IF g = WsKey(r.data, t) THEN {t} ELSE {})
    BY <2>3, OpenPaneOK
  <2>. HIDE DEF shown
  <2>6. Touches(shown, t)
    <3>1. \A g \in Groups : ToSet(shown.panes[g]) = ToSet(ui.panes[g])
            \cup (IF g = WsKey(ui.data, t) THEN {t} ELSE {}) \cup (IF g = WsKey(shown.data, t) THEN {t} ELSE {})
      BY <1>1, <2>3, <2>5
    <3>. QED
      BY <3>1 DEF Touches
  <2>7. /\ Coherent(closed) /\ closed.data = shown.data
        /\ \A g \in Groups : ToSet(closed.panes[g]) \subseteq
             ToSet(shown.panes[g]) \ (IF g = WsKey(shown.data, t) THEN {t} ELSE {})
    BY <2>5, ClosePaneOK DEF Coherent
  <2>. HIDE DEF closed
  <2>8. Touches(closed, t) /\ Closed(closed, t)
    <3>1. Touches(closed, t)
      BY <2>6, <2>7 DEF Touches
    <3>2. t \notin ToSet(closed.panes[WsKey(closed.data, t)])
      BY <2>7, WsKeyOK
    <3>. QED
      BY <3>1, <3>2 DEF Closed
  <2>9. CASE sessions[t] # "none"
    <3>1. EndsTurn(shown, [sessions EXCEPT ![t] = sessions[t]])
      BY <1>2, <2>4, <2>9
    <3>. QED
      BY <1>2, <2>2, <2>5, <2>6, <2>9, <3>1, OneTaskTurnOK
  <2>10. CASE sessions[t] = "none" /\ attaches
    BY <2>2, <2>4, <2>5, <2>6, <2>10, OneTaskTurnOK
  <2>11. CASE sessions[t] = "none" /\ ~attaches
    <3>1. EndsTurn(closed, [sessions EXCEPT ![t] = sessions[t]])
      BY <1>2, <2>4, <2>11
    <3>. QED
      BY <1>2, <2>2, <2>7, <2>8, <3>1, OneTaskTurnOK
  <2>. QED
    BY <2>9, <2>10, <2>11
<1>5. ASSUME StartOrRestart(t, FALSE), Outside(IF agentState[t] \in Startable THEN 1 ELSE 0),
             EndsTurn(Refreshes(ClosePane(u, t), TRUE), sessions)
      PROVE  ScreenInv'
  <2>. DEFINE closed == ClosePane(u, t)
              r == Refreshes(closed, TRUE)
  <2>1. agentState' \in [AgentIds -> States] /\ outside' \in 0..MaxOutside
    BY <1>5, StartOrRestartOK, OutsideOK
  <2>2. Typed'
    BY <1>0, <2>1 DEF Typed
  <2>3. /\ Coherent(closed) /\ closed.data = u.data
        /\ \A g \in Groups : ToSet(closed.panes[g]) \subseteq
             ToSet(u.panes[g]) \ (IF g = WsKey(u.data, t) THEN {t} ELSE {})
    BY <1>1, ClosePaneOK DEF Coherent
  <2>4. EndsTurn(r, [sessions EXCEPT ![t] = sessions[t]])
    BY <1>2, <1>5
  <2>. HIDE DEF closed
  <2>5. Coherent(r) /\ r.panes = closed.panes
    BY <1>0, <2>1, <2>3, RefreshesOK
  <2>. HIDE DEF r
  <2>6. \A g \in Groups : ToSet(r.panes[g]) \subseteq
          ToSet(ui.panes[g]) \ (IF g = WsKey(ui.data, t) THEN {t} ELSE {})
    BY <1>1, <2>3, <2>5
  <2>7. Touches(r, t) /\ Closed(r, t)
    BY <2>6, WsKeyOK DEF Touches, Closed
  <2>. QED
    BY <1>2, <2>2, <2>4, <2>5, <2>7, OneTaskTurnOK
<1>. QED
  BY <1>3, <1>4, <1>5 DEF OpenAgentPane

-----------------------------------------------------------------------------
(* Keys that leave the panes where they are.                               *)
LEMMA SimpleTurnOK ==
  ASSUME ScreenInv, NEW u, Coherent(u), u.panes = ui.panes, Turn(u)
  PROVE  ScreenInv'
<1>1. Typed'
  BY DEF Turn, ScreenInv, Typed
<1>. QED
  BY <1>1, TurnOK DEF Turn

LEMMA RefreshTurnOK ==
  ASSUME ScreenInv, Typed', NEW u, Coherent(u), u.panes = ui.panes, EndsTurn(Refreshes(u, TRUE), sessions)
  PROVE  ScreenInv'
<1>1. Coherent(Refreshes(u, TRUE)) /\ Refreshes(u, TRUE).panes = u.panes
  BY RefreshesOK DEF Typed
<1>. QED
  BY <1>1, TurnOK


LEMMA SidebarKeyOK ==
  ASSUME ScreenInv, SidebarKey
  PROVE  ScreenInv'
<1>0. Coherent(ui) /\ ui \in Models
  BY DEF ScreenInv, Coherent
<1>1. ASSUME ToggleSection PROVE ScreenInv'
  <2>. DEFINE u == [ui EXCEPT !.sidebar = IF @ = "Agents" THEN "Workspaces" ELSE "Agents"]
  <2>1. u \in Models /\ u.panes = ui.panes /\ u.data = ui.data /\ u.agentSelected = ui.agentSelected
        /\ u.focus = ui.focus /\ u.focusedPane = ui.focusedPane /\ u.activeWs = ui.activeWs
        /\ u.view = ui.view /\ u.pending = ui.pending
    BY <1>0 DEF Models
  <2>2. Turn(u)
    BY <1>1 DEF ToggleSection
  <2>. HIDE DEF u
  <2>3. Coherent(u)
    BY <1>0, <2>1 DEF Coherent, Focused, Selecting, Asked
  <2>. QED
    BY <2>1, <2>2, <2>3, SimpleTurnOK
<1>2. ASSUME NEW down \in BOOLEAN, Select(down) PROVE ScreenInv'
  <2>1. Coherent(MoveSelection(ui, down)) /\ MoveSelection(ui, down).panes = ui.panes
    BY <1>0, <1>2, MoveSelectionOK DEF Select, AtSidebar
  <2>2. Turn(MoveSelection(ui, down))
    BY <1>2 DEF Select
  <2>. QED
    BY <2>1, <2>2, SimpleTurnOK
<1>3. ASSUME AskToClose PROVE ScreenInv'
  <2>. DEFINE t == SelectedAgent(ui)
              asked == [task |-> t, action |-> IF ui.data.tasks[t] \in {"Failed", "Terminated"}
                                               THEN "Forget" ELSE "Terminate"]
              u == [ui EXCEPT !.view = "Confirm", !.pending = asked]
  <2>1. t \in AgentIds
    BY <1>0, <1>3, SelectedOK DEF AskToClose
  <2>2. Turn(u)
    BY <1>3 DEF AskToClose
  <2>. HIDE DEF t
  <2>3. asked \in Questions
    BY <2>1 DEF Questions
  <2>. HIDE DEF asked
  <2>5. u \in Models /\ u.panes = ui.panes /\ u.data = ui.data /\ u.agentSelected = ui.agentSelected
        /\ u.focus = ui.focus /\ u.focusedPane = ui.focusedPane /\ u.activeWs = ui.activeWs
        /\ u.pending = asked
    BY <1>0, <2>3 DEF Models
  <2>. HIDE DEF u
  <2>6. Coherent(u)
    BY <1>0, <2>3, <2>5 DEF Coherent, Focused, Selecting, Asked
  <2>. QED
    BY <2>2, <2>5, <2>6, SimpleTurnOK
<1>4. ASSUME Activate PROVE ScreenInv'
  <2>1. CASE Turn(Palette(ui, DefaultRepo(ui)))
    <3>1. Coherent(Palette(ui, DefaultRepo(ui))) /\ Palette(ui, DefaultRepo(ui)).panes = ui.panes
      BY <1>0, TargetsOK, PaletteOK
    <3>. QED
      BY <2>1, <3>1, SimpleTurnOK
  <2>2. CASE LET t == SelectedAgent(ui) IN
             t # Nobody /\ UNCHANGED registered /\ OpenAgentPane(OpenPane(ui, t), t)
    <3>1. SelectedAgent(ui) \in AgentIds
      BY <1>0, <2>2, SelectedOK
    <3>. QED
      BY <2>2, <3>1, OpenAgentPaneOK
  <2>. QED
    BY <1>4, <2>1, <2>2 DEF Activate
<1>5. ASSUME NEW view \in {"Help", "OpenFolder", "Launch", "NewTask"}, OpenView(view) PROVE ScreenInv'
  <2>1. CASE view = "Launch"
    <3>1. Coherent(Palette(ui, LaunchTarget(ui))) /\ Palette(ui, LaunchTarget(ui)).panes = ui.panes
      BY <1>0, TargetsOK, PaletteOK
    <3>2. Turn(Palette(ui, LaunchTarget(ui)))
      BY <1>5, <2>1 DEF OpenView
    <3>. QED
      BY <3>1, <3>2, SimpleTurnOK
  <2>2. CASE view # "Launch"
    <3>. DEFINE u == [ui EXCEPT !.view = view]
    <3>1. u \in Models /\ u.panes = ui.panes /\ u.data = ui.data /\ u.agentSelected = ui.agentSelected
          /\ u.focus = ui.focus /\ u.focusedPane = ui.focusedPane /\ u.activeWs = ui.activeWs
          /\ u.view # "Confirm"
      BY <1>0, <1>5 DEF Models
    <3>2. Turn(u)
      BY <1>5, <2>2 DEF OpenView
    <3>. HIDE DEF u
    <3>3. Coherent(u)
      BY <1>0, <3>1 DEF Coherent, Focused, Selecting, Asked
    <3>. QED
      BY <3>1, <3>2, <3>3, SimpleTurnOK
  <2>. QED
    BY <2>1, <2>2
<1>. QED
  BY <1>1, <1>2, <1>3, <1>4, <1>5 DEF SidebarKey

LEMMA ConfirmCloseOK ==
  ASSUME ScreenInv, ConfirmClose
  PROVE  ScreenInv'
<1>. DEFINE t == ui.pending.task
            forgets == ui.pending.action = "Forget"
            allowed == IF forgets THEN agentState[t] \in {"Failed", "Terminated"}
                       ELSE agentState[t] \notin Absences
            h == Home(ui)
<1>1. Coherent(ui) /\ ui \in Models /\ registered' \subseteq ToSet(Folders)
      /\ agentState \in [AgentIds -> States]
  BY DEF ScreenInv, Coherent, ConfirmClose
<1>2. t \in AgentIds
  <2>1. ui.pending \in Questions
    BY <1>1 DEF ConfirmClose, Coherent, Asked
  <2>. QED
    BY <2>1 DEF Questions
<1>3. Coherent(h) /\ h.panes = ui.panes /\ h.data = ui.data
  BY <1>1, HomeOK
<1>4. ASSUME Outside(0), agentState' = [agentState EXCEPT ![t] = IF forgets THEN "gone" ELSE "Terminated"],
             EndsTurn(Refreshes(ClosePane(h, t), TRUE), [sessions EXCEPT ![t] = "none"])
      PROVE  ScreenInv'
  <2>. DEFINE closed == ClosePane(h, t)
              r == Refreshes(closed, TRUE)
  <2>. HIDE DEF t, forgets, h
  <2>1. agentState' \in [AgentIds -> States] /\ outside' \in 0..MaxOutside
    BY <1>1, <1>4, OutsideOK DEF States, Absences
  <2>2. Typed'
    BY <1>1, <2>1 DEF Typed
  <2>3. /\ Coherent(closed)
        /\ \A g \in Groups : ToSet(closed.panes[g]) \subseteq
             ToSet(h.panes[g]) \ (IF g = WsKey(h.data, t) THEN {t} ELSE {})
    BY <1>2, <1>3, ClosePaneOK DEF Coherent
  <2>4. EndsTurn(r, [sessions EXCEPT ![t] = "none"])
    BY <1>4
  <2>. HIDE DEF closed
  <2>5. Coherent(r) /\ r.panes = closed.panes
    BY <1>1, <2>1, <2>3, RefreshesOK
  <2>. HIDE DEF r
  <2>6. \A g \in Groups : ToSet(r.panes[g]) \subseteq
          ToSet(ui.panes[g]) \ (IF g = WsKey(ui.data, t) THEN {t} ELSE {})
    BY <1>3, <2>3, <2>5
  <2>7. Touches(r, t) /\ Closed(r, t)
    BY <1>2, <2>6, WsKeyOK DEF Touches, Closed
  <2>. QED
    BY <1>2, <2>2, <2>4, <2>5, <2>7, OneTaskTurnOK
<1>5. ASSUME Outside(IF allowed THEN 1 ELSE 0), UNCHANGED agentState, EndsTurn(Refreshes(h, TRUE), sessions)
      PROVE  ScreenInv'
  <2>1. outside' \in 0..MaxOutside
    <3>. HIDE DEF allowed
    <3>. QED
      BY <1>5, OutsideOK
  <2>2. Typed'
    BY <1>1, <1>5, <2>1 DEF Typed
  <2>. HIDE DEF h
  <2>. QED
    BY <1>3, <1>5, <2>2, RefreshTurnOK
<1>6. \/ /\ Outside(0) /\ agentState' = [agentState EXCEPT ![t] = IF forgets THEN "gone" ELSE "Terminated"]
         /\ EndsTurn(Refreshes(ClosePane(h, t), TRUE), [sessions EXCEPT ![t] = "none"])
      \/ Outside(IF allowed THEN 1 ELSE 0) /\ UNCHANGED agentState /\ EndsTurn(Refreshes(h, TRUE), sessions)
  BY Zenon DEF ConfirmClose
<1>. QED
  BY <1>4, <1>5, <1>6

LEMMA QuickLaunchOK ==
  ASSUME ScreenInv, QuickLaunch
  PROVE  ScreenInv'
<1>. DEFINE h == Home(ui)
            r(reached) == Refreshes(h, reached)
            shown(t, reached) == OpenPane(r(reached), t)
<1>0. Coherent(ui) /\ registered' \subseteq ToSet(Folders) /\ agentState \in [AgentIds -> States]
      /\ sessions \in [AgentIds -> {"none", "live", "dead"}]
  BY DEF ScreenInv, QuickLaunch
<1>1. Coherent(h) /\ h.panes = ui.panes
  BY <1>0, HomeOK
<1>2. PICK t \in AgentIds, s \in {"Queued", "Active"}, reached \in BOOLEAN, attaches \in BOOLEAN :
        /\ agentState' = [agentState EXCEPT ![t] = s]
        /\ Outside(Cardinality({call \in {<<"fetch", reached>>, <<"attach", attaches>>} : ~call[2]}))
        /\ IF attaches THEN EndsTurn(shown(t, reached), [sessions EXCEPT ![t] = "live"])
           ELSE EndsTurn(ClosePane(shown(t, reached), t), sessions)
  BY Zenon DEF QuickLaunch
<1>. DEFINE opened == shown(t, reached)
            closed == ClosePane(opened, t)
            fetched == r(reached)
<1>3. agentState' \in [AgentIds -> States] /\ outside' \in 0..MaxOutside
  BY <1>0, <1>2, OutsideOK, FailedCallsOK DEF States
<1>4. Typed'
  BY <1>0, <1>3 DEF Typed
<1>5. Coherent(fetched) /\ fetched.panes = ui.panes
  <2>. HIDE DEF h
  <2>. QED
    BY <1>0, <1>1, <1>3, RefreshesOK
<1>6. IF attaches THEN EndsTurn(opened, [sessions EXCEPT ![t] = "live"])
      ELSE EndsTurn(closed, [sessions EXCEPT ![t] = sessions[t]])
  <2>1. sessions = [sessions EXCEPT ![t] = sessions[t]]
    BY <1>0
  <2>. HIDE DEF opened
  <2>. QED
    BY <1>2, <2>1 DEF opened
<1>7. opened = OpenPane(fetched, t)
  OBVIOUS
<1>. HIDE DEF opened, fetched
<1>8. /\ Coherent(opened) /\ opened.data = fetched.data
      /\ \A g \in Groups : ToSet(opened.panes[g]) =
           ToSet(fetched.panes[g]) \cup (IF g = WsKey(fetched.data, t) THEN {t} ELSE {})
  BY <1>5, <1>7, OpenPaneOK
<1>9. Touches(opened, t)
  BY <1>5, <1>8 DEF Touches
<1>10. /\ Coherent(closed) /\ closed.data = opened.data
       /\ \A g \in Groups : ToSet(closed.panes[g]) \subseteq
            ToSet(opened.panes[g]) \ (IF g = WsKey(opened.data, t) THEN {t} ELSE {})
  BY <1>8, ClosePaneOK DEF Coherent
<1>. HIDE DEF closed
<1>11. Touches(closed, t) /\ Closed(closed, t)
  <2>1. t \notin ToSet(closed.panes[WsKey(closed.data, t)])
    BY <1>10, WsKeyOK
  <2>. QED
    BY <1>9, <1>10, <2>1 DEF Touches, Closed
<1>12. CASE attaches
  BY <1>4, <1>6, <1>8, <1>9, <1>12, OneTaskTurnOK
<1>13. CASE ~attaches
  BY <1>0, <1>4, <1>6, <1>10, <1>11, <1>13, OneTaskTurnOK
<1>. QED
  BY <1>12, <1>13

LEMMA QuickLaunchFailsOK ==
  ASSUME ScreenInv, QuickLaunchFails
  PROVE  ScreenInv'
<1>. DEFINE h == Home(ui)
<1>1. Coherent(ui) /\ registered' \subseteq ToSet(Folders) /\ agentState \in [AgentIds -> States]
      /\ sessions \in [AgentIds -> {"none", "live", "dead"}]
  BY DEF ScreenInv, QuickLaunchFails
<1>2. Coherent(h) /\ h.panes = ui.panes /\ h.data = ui.data
  BY <1>1, HomeOK
<1>3. PICK t \in AgentIds, s \in {"Queued", "Failed"} :
        /\ agentState' = [agentState EXCEPT ![t] = s] /\ Outside(1)
        /\ EndsTurn(Refreshes(ClosePane(h, t), TRUE), sessions)
  BY Zenon DEF QuickLaunchFails
<1>. DEFINE closed == ClosePane(h, t)
            r == Refreshes(closed, TRUE)
<1>. HIDE DEF h
<1>4. agentState' \in [AgentIds -> States] /\ outside' \in 0..MaxOutside
  BY <1>1, <1>3, OutsideOK DEF States
<1>5. Typed'
  BY <1>1, <1>4 DEF Typed
<1>6. /\ Coherent(closed)
      /\ \A g \in Groups : ToSet(closed.panes[g]) \subseteq
           ToSet(h.panes[g]) \ (IF g = WsKey(h.data, t) THEN {t} ELSE {})
  BY <1>2, ClosePaneOK DEF Coherent
<1>7. EndsTurn(r, [sessions EXCEPT ![t] = sessions[t]])
  <2>1. sessions = [sessions EXCEPT ![t] = sessions[t]]
    BY <1>1
  <2>2. EndsTurn(r, sessions)
    BY <1>3
  <2>. HIDE DEF r
  <2>. QED
    BY <2>1, <2>2
<1>. HIDE DEF closed
<1>8. Coherent(r) /\ r.panes = closed.panes
  BY <1>1, <1>4, <1>6, RefreshesOK
<1>. HIDE DEF r
<1>9. \A g \in Groups : ToSet(r.panes[g]) \subseteq
        ToSet(ui.panes[g]) \ (IF g = WsKey(ui.data, t) THEN {t} ELSE {})
  BY <1>2, <1>6, <1>8
<1>10. Touches(r, t) /\ Closed(r, t)
  BY <1>9, WsKeyOK DEF Touches, Closed
<1>. QED
  BY <1>1, <1>5, <1>7, <1>8, <1>10, OneTaskTurnOK


LEMMA ModalKeyOK ==
  ASSUME ScreenInv, ModalKey
  PROVE  ScreenInv'
<1>0. Coherent(ui) /\ registered \subseteq ToSet(Folders) /\ agentState \in [AgentIds -> States]
      /\ outside \in 0..MaxOutside
  BY DEF ScreenInv
<1>1. Coherent(Home(ui)) /\ Home(ui).panes = ui.panes
  BY <1>0, HomeOK
<1>2. ASSUME Turn(Home(ui)) PROVE ScreenInv'
  BY <1>1, <1>2, SimpleTurnOK
<1>3. ASSUME SubmitForm PROVE ScreenInv'
  <2>1. Typed' /\ EndsTurn(Refreshes(Home(ui), TRUE), sessions)
    BY <1>0, <1>3 DEF SubmitForm, Typed, States
  <2>. QED
    BY <1>1, <2>1, RefreshTurnOK
<1>4. ASSUME AddFolder PROVE ScreenInv'
  <2>1. Typed' /\ EndsTurn(Refreshes(Home(ui), TRUE), sessions)
    BY <1>0, <1>4 DEF AddFolder, Typed
  <2>. QED
    BY <1>1, <2>1, RefreshTurnOK
<1>. QED
  BY <1>2, <1>3, <1>4, ConfirmCloseOK, QuickLaunchOK, QuickLaunchFailsOK
     DEF ModalKey, Escape, LaunchNowhere

LEMMA PaneKeyOK ==
  ASSUME ScreenInv, PaneKey
  PROVE  ScreenInv'
<1>0. Coherent(ui) /\ ui \in Models /\ Selecting(ui) /\ Asked(ui) /\ Focused(ui)
  BY DEF ScreenInv, Coherent
<1>1. ASSUME LeaderCommand PROVE ScreenInv'
  <2>1. CASE Turn(Palette(ui, SplitTarget(ui)))
    <3>1. Coherent(Palette(ui, SplitTarget(ui))) /\ Palette(ui, SplitTarget(ui)).panes = ui.panes
      BY <1>0, TargetsOK, PaletteOK
    <3>. QED
      BY <2>1, <3>1, SimpleTurnOK
  <2>2. CASE Turn([ui EXCEPT !.focus = "Sidebar"])
    <3>. DEFINE u == [ui EXCEPT !.focus = "Sidebar"]
    <3>1. u \in Models /\ u.panes = ui.panes /\ u.data = ui.data /\ u.agentSelected = ui.agentSelected
          /\ u.focus = "Sidebar" /\ u.focusedPane = ui.focusedPane /\ u.activeWs = ui.activeWs
          /\ u.view = ui.view /\ u.pending = ui.pending
      BY <1>0 DEF Models
    <3>2. Turn(u)
      BY <2>2
    <3>. HIDE DEF u
    <3>3. Coherent(u)
      BY <1>0, <3>1 DEF Coherent, Focused, Selecting, Asked
    <3>. QED
      BY <3>1, <3>2, <3>3, SimpleTurnOK
  <2>. QED
    BY <1>1, <2>1, <2>2 DEF LeaderCommand
<1>2. ASSUME FocusDir PROVE ScreenInv'
  <2>1. PICK t \in ToSet(ui.panes[ui.activeWs]) \ {ui.focusedPane} : Turn([ui EXCEPT !.focusedPane = t])
    BY <1>2 DEF FocusDir
  <2>. DEFINE u == [ui EXCEPT !.focusedPane = t]
  <2>2. ui.activeWs \in Groups /\ ui.activeWs # Nobody
    BY <1>0, <1>2 DEF FocusDir, Models
  <2>3. t \in AgentIds
    <3>1. ui.panes[ui.activeWs] \in Seq(AgentIds)
      BY <1>0, <2>2 DEF Models
    <3>. QED
      BY <3>1 DEF ToSet
  <2>4. u \in Models /\ u.panes = ui.panes /\ u.data = ui.data /\ u.agentSelected = ui.agentSelected
        /\ u.focusedPane = t /\ u.activeWs = ui.activeWs /\ u.view = ui.view /\ u.pending = ui.pending
    BY <1>0, <2>3 DEF Models
  <2>5. Turn(u)
    BY <2>1
  <2>. HIDE DEF u
  <2>6. Coherent(u)
    BY <1>0, <2>1, <2>2, <2>3, <2>4, ConstantsOK DEF Coherent, Focused, Selecting, Asked
  <2>. QED
    BY <2>4, <2>5, <2>6, SimpleTurnOK
<1>3. ASSUME CloseFocused PROVE ScreenInv'
  <2>. DEFINE t == ui.focusedPane
              closed == ClosePane(ui, t)
  <2>1. t \in AgentIds
    BY <1>0, <1>3 DEF CloseFocused, Models
  <2>2. EndsTurn(closed, [sessions EXCEPT ![t] = "none"]) /\ Typed'
    BY <1>3 DEF CloseFocused, Typed, ScreenInv
  <2>. HIDE DEF t
  <2>3. /\ Coherent(closed)
        /\ \A g \in Groups : ToSet(closed.panes[g]) \subseteq
             ToSet(ui.panes[g]) \ (IF g = WsKey(ui.data, t) THEN {t} ELSE {})
    BY <1>0, <2>1, ClosePaneOK
  <2>. HIDE DEF closed
  <2>4. Touches(closed, t) /\ Closed(closed, t)
    BY <2>1, <2>3, WsKeyOK DEF Touches, Closed
  <2>. QED
    BY <2>1, <2>2, <2>3, <2>4, OneTaskTurnOK
<1>. QED
  BY <1>1, <1>2, <1>3 DEF PaneKey

LEMMA ClickOK ==
  ASSUME ScreenInv, Click
  PROVE  ScreenInv'
<1>0. Coherent(ui) /\ ui \in Models /\ ui.data \in Data /\ Selecting(ui) /\ Asked(ui) /\ Focused(ui)
  BY DEF ScreenInv, Coherent, Models
<1>1. ASSUME ClickWorkspace PROVE ScreenInv'
  <2>1. PICK row \in DOMAIN WsItems(ui.data) :
          Turn(SyncActiveWs([ui EXCEPT !.wsSelected = row, !.sidebar = "Workspaces", !.focus = "Sidebar"]))
    BY <1>1 DEF ClickWorkspace
  <2>. DEFINE u == [ui EXCEPT !.wsSelected = row, !.sidebar = "Workspaces", !.focus = "Sidebar"]
  <2>2. row \in Nat \ {0}
    <3>1. WsItems(ui.data) \in Seq(Groups)
      BY <1>0, WsItemsOK
    <3>. QED
      BY <3>1
  <2>3. u \in Models /\ u.panes = ui.panes /\ u.data = ui.data /\ u.agentSelected = ui.agentSelected
        /\ u.focus = "Sidebar" /\ u.focusedPane = ui.focusedPane /\ u.activeWs = ui.activeWs
        /\ u.view = ui.view /\ u.pending = ui.pending
    BY <1>0, <2>2 DEF Models
  <2>4. Turn(SyncActiveWs(u))
    BY <2>1
  <2>. HIDE DEF u
  <2>5. Coherent(u)
    BY <1>0, <2>3 DEF Coherent, Focused, Selecting, Asked
  <2>6. Coherent(SyncActiveWs(u)) /\ SyncActiveWs(u).panes = ui.panes
    BY <2>3, <2>5, SyncOK
  <2>. QED
    BY <2>4, <2>6, SimpleTurnOK
<1>2. ASSUME ClickAgent PROVE ScreenInv'
  <2>1. PICK row \in DOMAIN NavItems(ui.data) :
          Turn([ui EXCEPT !.agentSelected = Snapped(ui.data, row), !.sidebar = "Agents", !.focus = "Sidebar"])
    BY <1>2 DEF ClickAgent
  <2>. DEFINE at == Snapped(ui.data, row)
              u == [ui EXCEPT !.agentSelected = at, !.sidebar = "Agents", !.focus = "Sidebar"]
  <2>2. row \in Nat \ {0}
    <3>1. NavItems(ui.data) \in Seq(AgentIds \cup {Nobody})
      BY <1>0, NavItemsOK
    <3>. QED
      BY <3>1
  <2>3. at \in Nat \ {0} /\ (AgentRows(ui.data) # {} => at \in AgentRows(ui.data))
    BY <1>0, <2>2, SnappedOK
  <2>4. Turn(u)
    BY <2>1
  <2>. HIDE DEF at
  <2>5. u \in Models /\ u.panes = ui.panes /\ u.data = ui.data /\ u.agentSelected = at
        /\ u.focus = "Sidebar" /\ u.focusedPane = ui.focusedPane /\ u.activeWs = ui.activeWs
        /\ u.view = ui.view /\ u.pending = ui.pending
    BY <1>0, <2>3 DEF Models
  <2>. HIDE DEF u
  <2>6. Coherent(u)
    BY <1>0, <2>3, <2>5 DEF Coherent, Focused, Selecting, Asked
  <2>. QED
    BY <2>4, <2>5, <2>6, SimpleTurnOK
<1>3. ASSUME ClickPane PROVE ScreenInv'
  <2>1. PICK t \in ToSet(ui.panes[ui.activeWs]) : Turn([ui EXCEPT !.focusedPane = t, !.focus = "Panes"])
    BY <1>3 DEF ClickPane
  <2>. DEFINE u == [ui EXCEPT !.focusedPane = t, !.focus = "Panes"]
  <2>2. ui.activeWs \in Groups /\ ui.activeWs # Nobody
    BY <1>0, <1>3 DEF ClickPane, Models
  <2>3. t \in AgentIds
    <3>1. ui.panes[ui.activeWs] \in Seq(AgentIds)
      BY <1>0, <2>2 DEF Models
    <3>. QED
      BY <3>1 DEF ToSet
  <2>4. u \in Models /\ u.panes = ui.panes /\ u.data = ui.data /\ u.agentSelected = ui.agentSelected
        /\ u.focusedPane = t /\ u.activeWs = ui.activeWs /\ u.view = ui.view /\ u.pending = ui.pending
    BY <1>0, <2>3 DEF Models
  <2>5. Turn(u)
    BY <2>1
  <2>. HIDE DEF u
  <2>6. Coherent(u)
    BY <1>0, <2>1, <2>2, <2>3, <2>4, ConstantsOK DEF Coherent, Focused, Selecting, Asked
  <2>. QED
    BY <2>4, <2>5, <2>6, SimpleTurnOK
<1>. QED
  BY <1>1, <1>2, <1>3 DEF Click

(* A refresh between two keys.                                             *)
LEMMA RefreshTickOK ==
  ASSUME ScreenInv, RefreshTick
  PROVE  ScreenInv'
<1>1. ui \in Models /\ Focused(ui) /\ Asked(ui) /\ Fetched \in Data
  BY DEF ScreenInv, Coherent, Fetched, Data
<1>2. ui' = SetData(ui, Fetched) /\ regrouped' = regrouped \cup Moved(ui, ui')
      /\ UNCHANGED <<agentState, registered, sessions, keys, outside>>
  BY DEF RefreshTick
<1>3. Coherent(ui') /\ ui'.panes = ui.panes
  BY <1>1, <1>2, SetDataOK
<1>4. ui' \in Models
  BY <1>3 DEF Coherent
<1>5. regrouped' \subseteq AgentIds
  BY <1>1, <1>2, <1>4, PanedOK DEF Moved, ScreenInv
<1>6. ASSUME NEW t \in AgentIds \ regrouped', NEW g \in Groups, t \in ToSet(ui'.panes[g])
      PROVE  g = WsKey(ui'.data, t) /\ sessions'[t] # "none"
  <2>1. t \in Paned(ui)
    BY <1>1, <1>3, <1>6, PanedOK
  <2>2. t \notin regrouped /\ WsKey(ui'.data, t) = WsKey(ui.data, t)
    BY <1>2, <2>1 DEF Moved
  <2>. QED
    BY <1>2, <1>3, <1>6, <2>2 DEF ScreenInv
<1>7. Coherent(ui)'
  BY <1>3 DEF Coherent, Focused, Selecting, Asked
<1>. QED
  BY <1>2, <1>5, <1>6, <1>7 DEF ScreenInv

-----------------------------------------------------------------------------
LEMMA ScreenInitOK == TuiInit => ScreenInv
<1>. SUFFICES ASSUME TuiInit PROVE ScreenInv
  OBVIOUS
<1>. DEFINE u == [data |-> [tasks |-> [t \in AgentIds |-> "unborn"], workspaces |-> {}], view |-> "Home",
                  pending |-> Nobody, launchRepo |-> Nobody, sidebar |-> "Workspaces", wsSelected |-> 1,
                  agentSelected |-> 1, panes |-> [g \in Groups |-> <<>>], activeWs |-> Nobody,
                  focusedPane |-> Nobody, focus |-> "Sidebar"]
<1>1. u \in Models /\ u.focus = "Sidebar" /\ u.focusedPane = Nobody /\ u.view = "Home"
      /\ u.panes = [g \in Groups |-> <<>>]
  BY DEF Models, Data, States, Absences
<1>2. agentState \in [AgentIds -> States] /\ registered \subseteq ToSet(Folders)
  BY TuiAssumption DEF TuiInit, AgentIds, States, Absences
<1>3. ui = SetData(u, Fetched)
  BY DEF TuiInit
<1>. HIDE DEF u
<1>4. Focused(u) /\ Asked(u) /\ Fetched \in Data
  BY <1>1, <1>2 DEF Focused, Asked, Fetched, Data
<1>5. Coherent(ui) /\ ui.panes = u.panes
  BY <1>1, <1>3, <1>4, SetDataOK
<1>6. \A g \in Groups : ToSet(ui.panes[g]) = {}
  BY <1>1, <1>5 DEF ToSet
<1>7. sessions = [t \in AgentIds |-> "none"] /\ regrouped = {} /\ keys \in 0..MaxKeys /\ outside \in 0..MaxOutside
  BY TuiAssumption DEF TuiInit
<1>. QED
  BY <1>2, <1>5, <1>6, <1>7 DEF ScreenInv

LEMMA DaemonStepOK ==
  ASSUME ScreenInv,
         \/ \E t \in AgentIds : SessionEnds(t) \/ DaemonMoves(t)
         \/ \E f \in ToSet(Folders) : WorkspaceMoves(f)
  PROVE  ScreenInv'
<1>1. ASSUME NEW t \in AgentIds, SessionEnds(t) PROVE ScreenInv'
  <2>1. sessions' \in [AgentIds -> {"none", "live", "dead"}]
        /\ \A x \in AgentIds : sessions[x] # "none" => sessions'[x] # "none"
    BY <1>1 DEF SessionEnds, ScreenInv
  <2>2. ui' = ui /\ agentState' = agentState /\ registered' = registered /\ regrouped' = regrouped
        /\ keys' = keys /\ outside' = outside
    BY <1>1 DEF SessionEnds
  <2>. QED
    BY <2>1, <2>2 DEF ScreenInv
<1>2. ASSUME UNCHANGED <<ui, sessions, regrouped, keys>>, Typed' PROVE ScreenInv'
  BY <1>2 DEF ScreenInv, Typed
<1>3. ASSUME NEW t \in AgentIds, DaemonMoves(t) PROVE ScreenInv'
  <2>1. outside' \in 0..MaxOutside
    BY <1>3, OutsideOK DEF DaemonMoves
  <2>2. agentState' \in [AgentIds -> States]
    BY <1>3 DEF DaemonMoves, ScreenInv, States, Absences
  <2>. QED
    BY <1>2, <1>3, <2>1, <2>2 DEF DaemonMoves, Typed, ScreenInv
<1>4. ASSUME NEW f \in ToSet(Folders), WorkspaceMoves(f) PROVE ScreenInv'
  <2>1. outside' \in 0..MaxOutside
    BY <1>4, OutsideOK DEF WorkspaceMoves
  <2>. QED
    BY <1>2, <1>4, <2>1 DEF WorkspaceMoves, Typed, ScreenInv
<1>. QED
  BY <1>1, <1>3, <1>4

LEMMA ScreenStepOK ==
  ASSUME ScreenInv, [TuiNext]_tuiVars
  PROVE  ScreenInv'
<1>1. ASSUME UNCHANGED tuiVars PROVE ScreenInv'
  BY <1>1 DEF tuiVars, ScreenInv
<1>2. ASSUME TuiNext PROVE ScreenInv'
  BY <1>2, SidebarKeyOK, ModalKeyOK, PaneKeyOK, ClickOK, RefreshTickOK, DaemonStepOK DEF TuiNext
<1>. QED
  BY <1>1, <1>2

LEMMA ScreenInvHolds == TuiSpec => []ScreenInv
BY ScreenInitOK, ScreenStepOK, PTL DEF TuiSpec

(* Every variable of the client keeps its type: each selection is a row    *)
(* number, each pane a task, whatever app.rs makes of a key.               *)
THEOREM TuiTypeCorrect == TuiSpec => []TuiTypeOK
<1>1. ScreenInv => TuiTypeOK
  BY DEF ScreenInv, Coherent, Models, Data, Questions, TuiTypeOK
<1>. QED
  BY <1>1, ScreenInvHolds, PTL

(* Through every mix of keys, clicks, refreshes and moves of the daemon    *)
(* the focused pane of app.rs is on screen, the selection an agent when    *)
(* there is one, and a task that stayed in its group has one pane, with a  *)
(* session of pane.rs behind it.                                           *)
THEOREM ScreenStaysCoherent == TuiSpec => []ScreenIsCoherent
<1>1. ASSUME ScreenInv PROVE ScreenIsCoherent
  <2>1. FocusIsOpen /\ SelectionIsAnAgent
    BY <1>1 DEF ScreenInv, Coherent, Focused, Selecting, FocusIsOpen, SelectionIsAnAgent
  <2>2. ASSUME NEW t \in AgentIds \ regrouped
        PROVE  /\ Cardinality({g \in Groups : t \in ToSet(ui.panes[g])}) <= 1
               /\ t \in Paned(ui) => sessions[t] # "none"
    <3>. DEFINE own == WsKey(ui.data, t)
                at  == {g \in Groups : t \in ToSet(ui.panes[g])}
    <3>1. \A g \in Groups : t \in ToSet(ui.panes[g]) => g = own /\ sessions[t] # "none"
      BY <1>1 DEF ScreenInv
    <3>. HIDE DEF own
    <3>2. at \in SUBSET {own}
      BY <3>1
    <3>3. IsFiniteSet({own}) /\ Cardinality({own}) = 1
      BY FS_Singleton
    <3>. HIDE DEF at
    <3>4. Cardinality(at) <= 1
      BY <3>2, <3>3, FS_Subset
    <3>5. t \in Paned(ui) => sessions[t] # "none"
      BY <3>1 DEF Paned
    <3>. QED
      BY <3>4, <3>5 DEF at
  <2>. QED
    BY <2>1, <2>2 DEF ScreenIsCoherent, PanesAreCoherent
<1>. QED
  BY <1>1, ScreenInvHolds, PTL

-----------------------------------------------------------------------------
(* Lines cut from the output.                                              *)

Texts    == Seq(Characters)
Lines    == Seq(Texts)
Readings == [text : Texts, lines : Lines, open : Texts, breaks : Nat, longest : Nat,
             afterCR : BOOLEAN]

(* What a reading makes of a character of text, and of a terminator.       *)
TextRead(r2, r, char) ==
  /\ r2.text = Append(r.text, char) /\ r2.open = Append(r.open, char) /\ r2.lines = r.lines
  /\ r2.breaks = r.breaks /\ r2.afterCR = FALSE /\ r2.longest = Longer(r.longest, Append(r.open, char))
EndRead(r2, r, char) ==
  /\ r2.text = r.text /\ r2.open = <<>> /\ r2.lines = Filling(r.lines, r.open)
  /\ r2.breaks = (IF char = "LF" /\ r.afterCR THEN r.breaks ELSE r.breaks + 1)
  /\ r2.afterCR = (char = "CR") /\ r2.longest = r.longest

LEMMA SizeOK == Size(<<>>) = 0 /\ \A line \in Texts : Size(line) \in Nat
<1>. DEFINE lost(line) == {i \in DOMAIN line : line[i] = "lost"}
<1>1. lost(<<>>) = {} /\ Len(<<>>) = 0
  OBVIOUS
<1>2. Size(<<>>) = 0
  BY <1>1, FS_EmptySet DEF Size
<1>3. ASSUME NEW line \in Texts PROVE Size(line) \in Nat
  <2>1. PICK n \in Nat : n = Len(line) /\ DOMAIN line = 1..n
    BY DEF Texts
  <2>2. IsFiniteSet(1..n)
    BY <2>1, FS_Interval
  <2>3. lost(line) \in SUBSET (1..n)
    BY <2>1
  <2>. HIDE DEF lost
  <2>4. Cardinality(lost(line)) \in Nat
    BY <2>2, <2>3, FS_Subset, FS_CardinalityType
  <2>5. Size(line) = n + 2 * Cardinality(lost(line))
    BY <2>1 DEF Size, lost
  <2>. QED
    BY <2>4, <2>5
<1>. QED
  BY <1>2, <1>3

LEMMA AfreshOK == Afresh \in Readings
BY DEF Afresh, Readings, Texts, Lines

LEMMA FillingOK == \A texts \in Lines, line \in Texts : Filling(texts, line) \in Lines
BY DEF Filling, Lines

LEMMA ReadOnOK ==
  ASSUME NEW r \in Readings, NEW char \in Characters
  PROVE  /\ ReadOn(r, char) \in Readings
         /\ char \in Terminators => EndRead(ReadOn(r, char), r, char)
         /\ char \notin Terminators => TextRead(ReadOn(r, char), r, char)
<1>1. /\ r.text \in Texts /\ r.lines \in Lines /\ r.open \in Texts /\ r.breaks \in Nat
      /\ r.longest \in Nat /\ r.afterCR \in BOOLEAN
  BY DEF Readings
<1>2. /\ Append(r.text, char) \in Texts /\ Append(r.open, char) \in Texts
  BY <1>1 DEF Texts
<1>3. Filling(r.lines, r.open) \in Lines /\ Longer(r.longest, Append(r.open, char)) \in Nat
  BY <1>1, <1>2, FillingOK, SizeOK DEF Longer
<1>4. CASE char \in Terminators
  <2>1. (IF char = "LF" /\ r.afterCR THEN r.breaks ELSE r.breaks + 1) \in Nat /\ (char = "CR") \in BOOLEAN
    BY <1>1
  <2>2. <<>> \in Texts
    BY DEF Texts
  <2>3. ReadOn(r, char) \in Readings
    BY <1>1, <1>3, <1>4, <2>1, <2>2 DEF ReadOn, Readings
  <2>. QED
    BY <1>4, <2>3 DEF ReadOn, EndRead
<1>5. CASE char \notin Terminators
  <2>1. ReadOn(r, char) \in Readings
    BY <1>1, <1>2, <1>3, <1>5 DEF ReadOn, Readings
  <2>. QED
    BY <1>5, <2>1 DEF ReadOn, TextRead
<1>. QED
  BY <1>4, <1>5

(* A text, read on from nothing.                                           *)
Reads(w, s, n) ==
  w \in [0..n -> Readings] /\ w[0] = Afresh /\ \A k \in 1..n : w[k] = ReadOn(w[k - 1], s[k])

LEMMA ReadIsRow ==
  ASSUME NEW s \in Texts, NEW n \in Nat, n = Len(s)
  PROVE  \E w : Reads(w, s, n) /\ Read(s) = w[n]
<1>. DEFINE step == [k \in 1..n |-> [v \in Readings |-> ReadOn(v, s[k])]]
            Unrolled(h, S) == IF S = {} THEN Afresh ELSE ReadOn(h[S \ {Max(S)}], s[Max(S)])
            iter[S \in SUBSET (1..n)] ==
              IF S = {} THEN Afresh ELSE ReadOn(iter[S \ {Max(S)}], s[Max(S)])
<1>0. DOMAIN s = 1..n /\ \A k \in 1..n : s[k] \in Characters
  BY DEF Texts, Lines
<1>1. step \in [1..n -> [Readings -> Readings]] /\ Afresh \in Readings
  BY <1>0, ReadOnOK, AfreshOK
<1>2. PICK g \in [SUBSET (1..n) -> Readings] : FromTheEnd(g, n, Afresh, step)
  <2>. HIDE DEF step
  <2>. QED
    BY <1>1, FromTheEndExists
<1>3. Read(s) = iter[1..n]
  BY <1>0 DEF Read, FoldLeft, MapThenFoldSet
<1>4. \A S \in SUBSET (1..n) : g[S] = Unrolled(g, S)
  BY <1>2 DEF FromTheEnd
<1>5. g = [S \in SUBSET (1..n) |-> Unrolled(g, S)]
  BY <1>4
<1>6. iter = [S \in SUBSET (1..n) |-> Unrolled(iter, S)]
  <2>. HIDE DEF Unrolled
  <2>. QED
    BY <1>5, Zenon DEF Unrolled
<1>. HIDE DEF iter
<1>7. \A S \in SUBSET (1..n) : iter[S] = Unrolled(iter, S)
  <2>. HIDE DEF Unrolled
  <2>. QED
    BY <1>6, Zenon
<1>8. ASSUME NEW k \in 1..n, iter[1..(k - 1)] = g[1..(k - 1)] PROVE iter[1..k] = g[1..k]
  <2>1. /\ 1..k \in SUBSET (1..n) /\ 1..k # {}
        /\ Max(1..k) = k /\ (1..k) \ {k} = 1..(k - 1)
    BY FirstPlaces
  <2>2. g[1..k] = Unrolled(g, 1..k) /\ iter[1..k] = Unrolled(iter, 1..k)
    BY <1>4, <1>7, <2>1
  <2>. QED
    BY <1>8, <2>1, <2>2
<1>9. iter[{}] = Afresh
  BY <1>7
<1>. HIDE DEF Unrolled
<1>10. PICK w \in [0..n -> Readings] : Iterates(w, n, Afresh, step) /\ iter[1..n] = w[n]
  <2>1. Folds(iter, n, Readings, Afresh, step)
    BY <1>2, <1>8, <1>9 DEF GrowsLike, Folds
  <2>. HIDE DEF step
  <2>2. IteratesTo(iter[1..n], n, Readings, Afresh, step)
    BY ONLY n \in Nat, <2>1, FoldIterates
  <2>. QED
    BY <2>2 DEF IteratesTo
<1>11. ASSUME NEW k \in 1..n PROVE w[k] = ReadOn(w[k - 1], s[k])
  <2>1. k - 1 \in 0..n
    OBVIOUS
  <2>. QED
    BY <1>10, <2>1 DEF Iterates
<1>12. Reads(w, s, n)
  BY <1>10, <1>11 DEF Reads, Iterates
<1>. QED
  BY <1>3, <1>10, <1>12

(* Lines, joined one after the other, and those of them that hold any.     *)
Joins(w, s, n) == w \in [0..n -> Texts] /\ w[0] = <<>> /\ \A k \in 1..n : w[k] = w[k - 1] \o s[k]
Fills(w, s, n) ==
  w \in [0..n -> Lines] /\ w[0] = <<>> /\ \A k \in 1..n : w[k] = Filling(w[k - 1], s[k])

LEMMA JoinFolds ==
  ASSUME NEW s \in Lines, NEW n \in Nat, n = Len(s)
  PROVE  \E w : Joins(w, s, n) /\ Joined(s) = w[n]
<1>. DEFINE step == [k \in 1..n |-> [v \in Texts |-> v \o s[k]]]
            Unrolled(h, S) == IF S = {} THEN <<>> ELSE h[S \ {Max(S)}] \o s[Max(S)]
            iter[S \in SUBSET (1..n)] ==
              IF S = {} THEN <<>> ELSE iter[S \ {Max(S)}] \o s[Max(S)]
<1>0. DOMAIN s = 1..n /\ \A k \in 1..n : s[k] \in Texts
  BY DEF Texts, Lines
<1>1. step \in [1..n -> [Texts -> Texts]] /\ <<>> \in Texts
  BY <1>0 DEF Texts, Lines
<1>2. PICK g \in [SUBSET (1..n) -> Texts] : FromTheEnd(g, n, <<>>, step)
  <2>. HIDE DEF step
  <2>. QED
    BY <1>1, FromTheEndExists
<1>3. Joined(s) = iter[1..n]
  BY <1>0 DEF Joined, FoldLeft, MapThenFoldSet
<1>4. \A S \in SUBSET (1..n) : g[S] = Unrolled(g, S)
  BY <1>2 DEF FromTheEnd
<1>5. g = [S \in SUBSET (1..n) |-> Unrolled(g, S)]
  BY <1>4
<1>6. iter = [S \in SUBSET (1..n) |-> Unrolled(iter, S)]
  <2>. HIDE DEF Unrolled
  <2>. QED
    BY <1>5, Zenon DEF Unrolled
<1>. HIDE DEF iter
<1>7. \A S \in SUBSET (1..n) : iter[S] = Unrolled(iter, S)
  <2>. HIDE DEF Unrolled
  <2>. QED
    BY <1>6, Zenon
<1>8. ASSUME NEW k \in 1..n, iter[1..(k - 1)] = g[1..(k - 1)] PROVE iter[1..k] = g[1..k]
  <2>1. /\ 1..k \in SUBSET (1..n) /\ 1..k # {}
        /\ Max(1..k) = k /\ (1..k) \ {k} = 1..(k - 1)
    BY FirstPlaces
  <2>2. g[1..k] = Unrolled(g, 1..k) /\ iter[1..k] = Unrolled(iter, 1..k)
    BY <1>4, <1>7, <2>1
  <2>. QED
    BY <1>8, <2>1, <2>2
<1>9. iter[{}] = <<>>
  BY <1>7
<1>. HIDE DEF Unrolled
<1>10. PICK w \in [0..n -> Texts] : Iterates(w, n, <<>>, step) /\ iter[1..n] = w[n]
  <2>1. Folds(iter, n, Texts, <<>>, step)
    BY <1>2, <1>8, <1>9 DEF GrowsLike, Folds
  <2>. HIDE DEF step
  <2>2. IteratesTo(iter[1..n], n, Texts, <<>>, step)
    BY ONLY n \in Nat, <2>1, FoldIterates
  <2>. QED
    BY <2>2 DEF IteratesTo
<1>11. ASSUME NEW k \in 1..n PROVE w[k] = w[k - 1] \o s[k]
  <2>1. k - 1 \in 0..n
    OBVIOUS
  <2>. QED
    BY <1>10, <2>1 DEF Iterates
<1>12. Joins(w, s, n)
  BY <1>10, <1>11 DEF Joins, Iterates
<1>. QED
  BY <1>3, <1>10, <1>12

LEMMA FillFolds ==
  ASSUME NEW s \in Lines, NEW n \in Nat, n = Len(s)
  PROVE  \E w : Fills(w, s, n) /\ Filled(s) = w[n]
<1>. DEFINE step == [k \in 1..n |-> [v \in Lines |-> Filling(v, s[k])]]
            Unrolled(h, S) == IF S = {} THEN <<>> ELSE Filling(h[S \ {Max(S)}], s[Max(S)])
            iter[S \in SUBSET (1..n)] ==
              IF S = {} THEN <<>> ELSE Filling(iter[S \ {Max(S)}], s[Max(S)])
<1>0. DOMAIN s = 1..n /\ \A k \in 1..n : s[k] \in Texts
  BY DEF Texts, Lines
<1>1. step \in [1..n -> [Lines -> Lines]] /\ <<>> \in Lines
  BY <1>0, FillingOK DEF Lines
<1>2. PICK g \in [SUBSET (1..n) -> Lines] : FromTheEnd(g, n, <<>>, step)
  <2>. HIDE DEF step
  <2>. QED
    BY <1>1, FromTheEndExists
<1>3. Filled(s) = iter[1..n]
  BY <1>0 DEF Filled, FoldLeft, MapThenFoldSet
<1>4. \A S \in SUBSET (1..n) : g[S] = Unrolled(g, S)
  BY <1>2 DEF FromTheEnd
<1>5. g = [S \in SUBSET (1..n) |-> Unrolled(g, S)]
  BY <1>4
<1>6. iter = [S \in SUBSET (1..n) |-> Unrolled(iter, S)]
  <2>. HIDE DEF Unrolled
  <2>. QED
    BY <1>5, Zenon DEF Unrolled
<1>. HIDE DEF iter
<1>7. \A S \in SUBSET (1..n) : iter[S] = Unrolled(iter, S)
  <2>. HIDE DEF Unrolled
  <2>. QED
    BY <1>6, Zenon
<1>8. ASSUME NEW k \in 1..n, iter[1..(k - 1)] = g[1..(k - 1)] PROVE iter[1..k] = g[1..k]
  <2>1. /\ 1..k \in SUBSET (1..n) /\ 1..k # {}
        /\ Max(1..k) = k /\ (1..k) \ {k} = 1..(k - 1)
    BY FirstPlaces
  <2>2. g[1..k] = Unrolled(g, 1..k) /\ iter[1..k] = Unrolled(iter, 1..k)
    BY <1>4, <1>7, <2>1
  <2>. QED
    BY <1>8, <2>1, <2>2
<1>9. iter[{}] = <<>>
  BY <1>7
<1>. HIDE DEF Unrolled
<1>10. PICK w \in [0..n -> Lines] : Iterates(w, n, <<>>, step) /\ iter[1..n] = w[n]
  <2>1. Folds(iter, n, Lines, <<>>, step)
    BY <1>2, <1>8, <1>9 DEF GrowsLike, Folds
  <2>. HIDE DEF step
  <2>2. IteratesTo(iter[1..n], n, Lines, <<>>, step)
    BY ONLY n \in Nat, <2>1, FoldIterates
  <2>. QED
    BY <2>2 DEF IteratesTo
<1>11. ASSUME NEW k \in 1..n PROVE w[k] = Filling(w[k - 1], s[k])
  <2>1. k - 1 \in 0..n
    OBVIOUS
  <2>. QED
    BY <1>10, <2>1 DEF Iterates
<1>12. Fills(w, s, n)
  BY <1>10, <1>11 DEF Fills, Iterates
<1>. QED
  BY <1>3, <1>10, <1>12

(* Round after round of cuts.                                              *)
Pieces == [out : Lines, rest : Texts]
Uncut(text) == [out |-> <<>>, rest |-> text]
Cuts(w, s, n) ==
  w \in [0..n -> Pieces] /\ w[0] = Uncut(s) /\ \A k \in 1..n : w[k] = CutOnce(w[k - 1])

LEMMA FirstTerminatorOK ==
  ASSUME NEW s \in Texts
  PROVE  LET i == FirstTerminator(s) IN
         /\ i \in 0..Len(s)
         /\ i = 0 => \A j \in 1..Len(s) : s[j] \notin Terminators
         /\ i # 0 => /\ s[i] \in Terminators /\ \A j \in 1..(i - 1) : s[j] \notin Terminators
                    /\ TerminatorLength(s, i) \in {1, 2} /\ i + TerminatorLength(s, i) - 1 \in 1..Len(s)
<1>. DEFINE at == {i \in DOMAIN s : s[i] \in Terminators}
<1>1. Len(s) \in Nat /\ DOMAIN s = 1..Len(s)
  BY DEF Texts
<1>2. CASE at = {}
  BY <1>1, <1>2 DEF FirstTerminator
<1>3. CASE at # {}
  <2>1. at \subseteq Nat
    BY <1>1
  <2>2. \E n \in at : \A m \in at : n <= m
    <3>. HIDE DEF at
    <3>. QED
      BY <1>3, <2>1, LeastNat
  <2>3. /\ FirstTerminator(s) \in at /\ \A m \in at : FirstTerminator(s) <= m
    BY <1>3, <2>2 DEF FirstTerminator
  <2>4. PICK i \in 1..Len(s) : i = FirstTerminator(s)
    BY <1>1, <2>3
  <2>5. s[i] \in Terminators /\ \A j \in 1..(i - 1) : s[j] \notin Terminators
    BY <1>1, <2>3, <2>4
  <2>6. TerminatorLength(s, i) \in {1, 2} /\ i + TerminatorLength(s, i) - 1 \in 1..Len(s)
    BY <1>1 DEF TerminatorLength
  <2>. HIDE DEF at
  <2>. QED
    BY <1>1, <2>4, <2>5, <2>6
<1>. QED
  BY <1>2, <1>3

LEMMA CutOnceOK == ASSUME NEW c \in Pieces PROVE CutOnce(c) \in Pieces
<1>. DEFINE i == FirstTerminator(c.rest)
            k == i + TerminatorLength(c.rest, i)
<1>1. c.out \in Lines /\ c.rest \in Texts
  BY DEF Pieces
<1>2. Len(c.rest) \in Nat /\ \A j \in 1..Len(c.rest) : c.rest[j] \in Characters
  BY <1>1 DEF Texts
<1>3. CASE i = 0
  BY <1>3 DEF CutOnce
<1>4. CASE i # 0
  <2>1. i \in 1..Len(c.rest) /\ k \in Int /\ k >= 1
    BY <1>1, <1>2, <1>4, FirstTerminatorOK
  <2>. HIDE DEF k, i
  <2>2. SubSeq(c.rest, 1, i - 1) \in Texts
    BY <1>2, <2>1, SubSeqProperties DEF Texts
  <2>3. SubSeq(c.rest, k, Len(c.rest)) \in Texts
    BY <1>2, <2>1, SubSeqProperties DEF Texts
  <2>4. Append(c.out, SubSeq(c.rest, 1, i - 1)) \in Lines
    BY <1>1, <2>2 DEF Lines
  <2>. QED
    BY <1>4, <2>3, <2>4 DEF CutOnce, Pieces, i, k
<1>. QED
  BY <1>3, <1>4

LEMMA CutFolds ==
  ASSUME NEW s \in Texts, NEW n \in Nat, n = Len(s)
  PROVE  \E w : Cuts(w, s, n) /\ Cut(s) = w[n]
<1>. DEFINE step == [k \in 1..n |-> [v \in Pieces |-> CutOnce(v)]]
            Unrolled(h, S) == IF S = {} THEN Uncut(s) ELSE CutOnce(h[S \ {Max(S)}])
            iter[S \in SUBSET (1..n)] ==
              IF S = {} THEN Uncut(s) ELSE CutOnce(iter[S \ {Max(S)}])
<1>0. DOMAIN s = 1..n /\ \A k \in 1..n : s[k] \in Characters
  BY DEF Texts, Lines
<1>1. step \in [1..n -> [Pieces -> Pieces]] /\ Uncut(s) \in Pieces
  BY <1>0, CutOnceOK DEF Uncut, Pieces, Texts, Lines
<1>2. PICK g \in [SUBSET (1..n) -> Pieces] : FromTheEnd(g, n, Uncut(s), step)
  <2>. HIDE DEF step
  <2>. QED
    BY <1>1, FromTheEndExists
<1>3. Cut(s) = iter[1..n]
  BY <1>0 DEF Cut, Uncut, FoldLeft, MapThenFoldSet
<1>4. \A S \in SUBSET (1..n) : g[S] = Unrolled(g, S)
  BY <1>2 DEF FromTheEnd
<1>5. g = [S \in SUBSET (1..n) |-> Unrolled(g, S)]
  BY <1>4
<1>6. iter = [S \in SUBSET (1..n) |-> Unrolled(iter, S)]
  <2>. HIDE DEF Unrolled
  <2>. QED
    BY <1>5, Zenon DEF Unrolled
<1>. HIDE DEF iter
<1>7. \A S \in SUBSET (1..n) : iter[S] = Unrolled(iter, S)
  <2>. HIDE DEF Unrolled
  <2>. QED
    BY <1>6, Zenon
<1>8. ASSUME NEW k \in 1..n, iter[1..(k - 1)] = g[1..(k - 1)] PROVE iter[1..k] = g[1..k]
  <2>1. /\ 1..k \in SUBSET (1..n) /\ 1..k # {}
        /\ Max(1..k) = k /\ (1..k) \ {k} = 1..(k - 1)
    BY FirstPlaces
  <2>2. g[1..k] = Unrolled(g, 1..k) /\ iter[1..k] = Unrolled(iter, 1..k)
    BY <1>4, <1>7, <2>1
  <2>. QED
    BY <1>8, <2>1, <2>2
<1>9. iter[{}] = Uncut(s)
  BY <1>7
<1>. HIDE DEF Unrolled
<1>10. PICK w \in [0..n -> Pieces] : Iterates(w, n, Uncut(s), step) /\ iter[1..n] = w[n]
  <2>1. Folds(iter, n, Pieces, Uncut(s), step)
    BY <1>2, <1>8, <1>9 DEF GrowsLike, Folds
  <2>. HIDE DEF step
  <2>2. IteratesTo(iter[1..n], n, Pieces, Uncut(s), step)
    BY ONLY n \in Nat, <2>1, FoldIterates
  <2>. QED
    BY <2>2 DEF IteratesTo
<1>11. ASSUME NEW k \in 1..n PROVE w[k] = CutOnce(w[k - 1])
  <2>1. k - 1 \in 0..n
    OBVIOUS
  <2>. QED
    BY <1>10, <2>1 DEF Iterates
<1>12. Cuts(w, s, n)
  BY <1>10, <1>11 DEF Cuts, Iterates
<1>. QED
  BY <1>3, <1>10, <1>12

-----------------------------------------------------------------------------
(* Joining and filling a list of lines goes line by line.                  *)
Cat(c, a, b)  == c = a \o b
More(c, a, e) == c = Append(a, e)

LEMMA CatMore ==
  ASSUME NEW S, NEW a \in Seq(S), NEW b \in Seq(S), NEW e \in S, NEW b2, NEW c, NEW c2,
         More(b2, b, e), Cat(c, a, b), More(c2, c, e)
  PROVE  Cat(c2, a, b2)
<1>1. <<e>> \in Seq(S) /\ a \o b \in Seq(S)
  OBVIOUS
<1>2. Append(b, e) = b \o <<e>> /\ Append(a \o b, e) = (a \o b) \o <<e>>
  BY <1>1, AppendIsConcat
<1>3. (a \o b) \o <<e>> = a \o (b \o <<e>>)
  BY <1>1, ConcatAssociative
<1>. QED
  BY <1>2, <1>3 DEF More, Cat

LEMMA CatNone == ASSUME NEW S, NEW a \in Seq(S) PROVE Cat(a, a, <<>>) /\ Cat(a, <<>>, a)
BY ConcatEmptySeq DEF Cat

LEMMA CatCat ==
  ASSUME NEW S, NEW a \in Seq(S), NEW b \in Seq(S), NEW e \in Seq(S), NEW ab, NEW be, NEW c,
         Cat(ab, a, b), Cat(be, b, e), Cat(c, ab, e) \/ Cat(c, a, be)
  PROVE  Cat(c, a, be) /\ Cat(c, ab, e)
<1>1. (a \o b) \o e = a \o (b \o e)
  BY ConcatAssociative
<1>. QED
  BY <1>1 DEF Cat

LEMMA JoinedPrefix ==
  ASSUME NEW a \in Lines, NEW c \in Lines, NEW n \in Nat, n = Len(c), NEW m \in 0..n, m = Len(a),
         \A k \in 1..m : c[k] = a[k], NEW w, Joins(w, c, n)
  PROVE  w[m] = Joined(a)
<1>1. m \in Nat /\ \A k \in 1..m : k \in 1..n
  OBVIOUS
<1>2. PICK u : Joins(u, a, m) /\ Joined(a) = u[m]
  BY <1>1, JoinFolds
<1>3. w[0] = u[0] /\ \A k \in 1..m : w[k - 1] = u[k - 1] => w[k] = u[k]
  BY <1>1, <1>2 DEF Joins
<1>4. \A k \in 0..m : w[k] = u[k]
  BY ONLY <1>1, <1>3, SameIterates
<1>5. m \in 0..m
  OBVIOUS
<1>. QED
  BY <1>2, <1>4, <1>5

LEMMA JoinedOK ==
  /\ \A a \in Lines : Joined(a) \in Texts
  /\ Joined(<<>>) = <<>>
<1>1. ASSUME NEW a \in Lines PROVE Joined(a) \in Texts /\ (Len(a) = 0 => Joined(a) = <<>>)
  <2>1. PICK n \in Nat : n = Len(a)
    BY DEF Lines
  <2>2. PICK u : Joins(u, a, n) /\ Joined(a) = u[n]
    BY <2>1, JoinFolds
  <2>3. n \in 0..n
    OBVIOUS
  <2>. QED
    BY <2>1, <2>2, <2>3 DEF Joins
<1>2. <<>> \in Lines /\ Len(<<>>) = 0
  BY DEF Lines
<1>. QED
  BY <1>1, <1>2

LEMMA JoinedMore ==
  ASSUME NEW a \in Lines, NEW e \in Texts, NEW c, More(c, a, e)
  PROVE  c \in Lines /\ Cat(Joined(c), Joined(a), e)
<1>1. PICK m \in Nat : m = Len(a)
  BY DEF Lines
<1>2. c \in Lines /\ Len(c) = m + 1 /\ c[m + 1] = e /\ \A k \in 1..m : c[k] = a[k]
  BY <1>1 DEF Lines, More
<1>3. PICK n \in Nat : n = m + 1
  OBVIOUS
<1>4. PICK w : Joins(w, c, n) /\ Joined(c) = w[n]
  BY <1>2, <1>3, JoinFolds
<1>5. w[m] = Joined(a)
  <2>1. m \in 0..n /\ n = Len(c)
    BY <1>2, <1>3
  <2>. QED
    BY <1>1, <1>2, <1>4, <2>1, JoinedPrefix
<1>6. n \in 1..n /\ n - 1 = m
  BY <1>3
<1>. QED
  BY <1>2, <1>3, <1>4, <1>5, <1>6 DEF Joins, Cat

LEMMA JoinedCat ==
  ASSUME NEW a \in Lines, NEW b \in Lines, NEW c, Cat(c, a, b)
  PROVE  c \in Lines /\ Cat(Joined(c), Joined(a), Joined(b))
<1>1. PICK m \in Nat : m = Len(a)
  BY DEF Lines
<1>2. PICK l \in Nat : l = Len(b)
  BY DEF Lines
<1>3. PICK n \in Nat : n = m + l
  OBVIOUS
<1>4. /\ c \in Lines /\ Len(c) = n /\ \A k \in 1..m : c[k] = a[k]
      /\ \A k \in 1..l : c[m + k] = b[k] /\ b[k] \in Texts
  <2>1. /\ c \in Lines /\ Len(c) = n
        /\ \A i \in 1..n : c[i] = IF i <= m THEN a[i] ELSE b[i - m]
    BY <1>1, <1>2, <1>3, ConcatProperties DEF Lines, Cat
  <2>2. \A k \in 1..m : k \in 1..n /\ k <= m
    BY <1>3
  <2>3. \A k \in 1..l : m + k \in 1..n /\ ~(m + k <= m) /\ (m + k) - m = k
    BY <1>3
  <2>4. \A k \in 1..l : b[k] \in Texts
    BY <1>2 DEF Lines
  <2>. QED
    BY <2>1, <2>2, <2>3, <2>4
<1>5. PICK w : Joins(w, c, n) /\ Joined(c) = w[n]
  BY <1>4, JoinFolds
<1>6. PICK v : Joins(v, b, l) /\ Joined(b) = v[l]
  BY <1>2, JoinFolds
<1>7. w[m] = Joined(a)
  <2>1. m \in 0..n /\ n = Len(c)
    BY <1>3, <1>4
  <2>. QED
    BY <1>1, <1>4, <1>5, <2>1, JoinedPrefix
<1>. DEFINE P == {k \in 0..l : Cat(w[m + k], Joined(a), v[k])}
<1>8. 0 \in P
  <2>1. Joined(a) \in Seq(Characters)
    BY JoinedOK DEF Texts
  <2>2. Cat(Joined(a), Joined(a), <<>>)
    BY <2>1, CatNone
  <2>3. m + 0 = m /\ 0 \in 0..l
    OBVIOUS
  <2>. QED
    BY <1>6, <1>7, <2>2, <2>3 DEF Joins
<1>9. ASSUME NEW k \in 0..(l - 1), k \in P PROVE k + 1 \in P
  <2>1. k + 1 \in 1..l /\ k + 1 \in 0..l /\ k \in 0..l /\ (k + 1) - 1 = k
    OBVIOUS
  <2>2. m + (k + 1) \in 1..n /\ (m + (k + 1)) - 1 = m + k
    BY <1>3
  <2>3. /\ Joined(a) \in Seq(Characters) /\ v[k] \in Seq(Characters) /\ b[k + 1] \in Seq(Characters)
    BY <1>4, <1>6, <2>1, JoinedOK DEF Joins, Texts
  <2>4. Cat(w[m + k], Joined(a), v[k])
    BY <1>9
  <2>5. w[m + (k + 1)] = w[m + k] \o b[k + 1]
    BY <1>4, <1>5, <2>1, <2>2 DEF Joins
  <2>6. v[k + 1] = v[k] \o b[k + 1]
    BY <1>6, <2>1 DEF Joins
  <2>7. Cat(w[m + (k + 1)], w[m + k], b[k + 1]) /\ Cat(v[k + 1], v[k], b[k + 1])
    BY <2>5, <2>6 DEF Cat
  <2>8. Cat(w[m + (k + 1)], Joined(a), v[k + 1])
    BY <2>3, <2>4, <2>7, CatCat
  <2>. QED
    BY <2>1, <2>8
<1>. HIDE DEF P
<1>10. \A k \in 0..l : k \in P
  BY ONLY l \in Nat, <1>8, <1>9, UpTo
<1>11. l \in 0..l
  OBVIOUS
<1>12. Cat(w[m + l], Joined(a), v[l])
  BY <1>10, <1>11 DEF P
<1>. QED
  BY <1>3, <1>4, <1>5, <1>6, <1>12

LEMMA FilledPrefix ==
  ASSUME NEW a \in Lines, NEW c \in Lines, NEW n \in Nat, n = Len(c), NEW m \in 0..n, m = Len(a),
         \A k \in 1..m : c[k] = a[k], NEW w, Fills(w, c, n)
  PROVE  w[m] = Filled(a)
<1>1. m \in Nat /\ \A k \in 1..m : k \in 1..n
  OBVIOUS
<1>2. PICK u : Fills(u, a, m) /\ Filled(a) = u[m]
  BY <1>1, FillFolds
<1>3. w[0] = u[0] /\ \A k \in 1..m : w[k - 1] = u[k - 1] => w[k] = u[k]
  BY <1>1, <1>2 DEF Fills
<1>4. \A k \in 0..m : w[k] = u[k]
  BY ONLY <1>1, <1>3, SameIterates
<1>5. m \in 0..m
  OBVIOUS
<1>. QED
  BY <1>2, <1>4, <1>5

LEMMA FilledOK ==
  /\ \A a \in Lines : Filled(a) \in Lines
  /\ Filled(<<>>) = <<>>
<1>1. ASSUME NEW a \in Lines PROVE Filled(a) \in Lines /\ (Len(a) = 0 => Filled(a) = <<>>)
  <2>1. PICK n \in Nat : n = Len(a)
    BY DEF Lines
  <2>2. PICK u : Fills(u, a, n) /\ Filled(a) = u[n]
    BY <2>1, FillFolds
  <2>3. n \in 0..n
    OBVIOUS
  <2>. QED
    BY <2>1, <2>2, <2>3 DEF Fills
<1>2. <<>> \in Lines /\ Len(<<>>) = 0
  BY DEF Lines
<1>. QED
  BY <1>1, <1>2

LEMMA FilledMore ==
  ASSUME NEW a \in Lines, NEW e \in Texts, NEW c, More(c, a, e)
  PROVE  Filled(c) = Filling(Filled(a), e)
<1>1. PICK m \in Nat : m = Len(a)
  BY DEF Lines
<1>2. c \in Lines /\ Len(c) = m + 1 /\ c[m + 1] = e /\ \A k \in 1..m : c[k] = a[k]
  BY <1>1 DEF Lines, More
<1>3. PICK n \in Nat : n = m + 1
  OBVIOUS
<1>4. PICK w : Fills(w, c, n) /\ Filled(c) = w[n]
  BY <1>2, <1>3, FillFolds
<1>5. w[m] = Filled(a)
  <2>1. m \in 0..n /\ n = Len(c)
    BY <1>2, <1>3
  <2>. QED
    BY <1>1, <1>2, <1>4, <2>1, FilledPrefix
<1>6. n \in 1..n /\ n - 1 = m
  BY <1>3
<1>. QED
  BY <1>2, <1>3, <1>4, <1>5, <1>6 DEF Fills

LEMMA FillingCat ==
  ASSUME NEW a \in Lines, NEW b \in Lines, NEW e \in Texts, NEW c, Cat(c, a, b)
  PROVE  Cat(Filling(c, e), a, Filling(b, e))
<1>1. CASE e = <<>>
  BY <1>1 DEF Filling
<1>2. CASE e # <<>>
  <2>1. More(Append(b, e), b, e) /\ More(Append(c, e), c, e)
    BY DEF More
  <2>2. Cat(Append(c, e), a, Append(b, e))
    BY <2>1, CatMore DEF Lines
  <2>. QED
    BY <1>2, <2>2 DEF Filling
<1>. QED
  BY <1>1, <1>2

LEMMA FilledCat ==
  ASSUME NEW a \in Lines, NEW b \in Lines, NEW c, Cat(c, a, b)
  PROVE  Cat(Filled(c), Filled(a), Filled(b))
<1>1. PICK m \in Nat : m = Len(a)
  BY DEF Lines
<1>2. PICK l \in Nat : l = Len(b)
  BY DEF Lines
<1>3. PICK n \in Nat : n = m + l
  OBVIOUS
<1>4. /\ c \in Lines /\ Len(c) = n /\ \A k \in 1..m : c[k] = a[k]
      /\ \A k \in 1..l : c[m + k] = b[k] /\ b[k] \in Texts
  <2>1. /\ c \in Lines /\ Len(c) = n
        /\ \A i \in 1..n : c[i] = IF i <= m THEN a[i] ELSE b[i - m]
    BY <1>1, <1>2, <1>3, ConcatProperties DEF Lines, Cat
  <2>2. \A k \in 1..m : k \in 1..n /\ k <= m
    BY <1>3
  <2>3. \A k \in 1..l : m + k \in 1..n /\ ~(m + k <= m) /\ (m + k) - m = k
    BY <1>3
  <2>4. \A k \in 1..l : b[k] \in Texts
    BY <1>2 DEF Lines
  <2>. QED
    BY <2>1, <2>2, <2>3, <2>4
<1>5. PICK w : Fills(w, c, n) /\ Filled(c) = w[n]
  BY <1>4, FillFolds
<1>6. PICK v : Fills(v, b, l) /\ Filled(b) = v[l]
  BY <1>2, FillFolds
<1>7. w[m] = Filled(a)
  <2>1. m \in 0..n /\ n = Len(c)
    BY <1>3, <1>4
  <2>. QED
    BY <1>1, <1>4, <1>5, <2>1, FilledPrefix
<1>. DEFINE P == {k \in 0..l : Cat(w[m + k], Filled(a), v[k])}
<1>8. 0 \in P
  <2>1. Filled(a) \in Seq(Texts)
    BY FilledOK DEF Lines
  <2>2. Cat(Filled(a), Filled(a), <<>>)
    BY <2>1, CatNone
  <2>3. m + 0 = m /\ 0 \in 0..l
    OBVIOUS
  <2>. QED
    BY <1>6, <1>7, <2>2, <2>3 DEF Fills
<1>9. ASSUME NEW k \in 0..(l - 1), k \in P PROVE k + 1 \in P
  <2>1. k + 1 \in 1..l /\ k + 1 \in 0..l /\ k \in 0..l /\ (k + 1) - 1 = k
    OBVIOUS
  <2>2. m + (k + 1) \in 1..n /\ (m + (k + 1)) - 1 = m + k
    BY <1>3
  <2>3. Filled(a) \in Lines /\ v[k] \in Lines /\ b[k + 1] \in Texts
    BY <1>4, <1>6, <2>1, FilledOK DEF Fills
  <2>4. Cat(w[m + k], Filled(a), v[k])
    BY <1>9
  <2>5. w[m + (k + 1)] = Filling(w[m + k], b[k + 1])
    BY <1>4, <1>5, <2>1, <2>2 DEF Fills
  <2>6. v[k + 1] = Filling(v[k], b[k + 1])
    BY <1>6, <2>1 DEF Fills
  <2>7. Cat(w[m + (k + 1)], Filled(a), v[k + 1])
    BY <2>3, <2>4, <2>5, <2>6, FillingCat
  <2>. QED
    BY <2>1, <2>7
<1>. HIDE DEF P
<1>10. \A k \in 0..l : k \in P
  BY ONLY l \in Nat, <1>8, <1>9, UpTo
<1>11. l \in 0..l
  OBVIOUS
<1>12. Cat(w[m + l], Filled(a), v[l])
  BY <1>10, <1>11 DEF P
<1>. QED
  BY <1>3, <1>5, <1>6, <1>12

LEMMA ReadPrefix ==
  ASSUME NEW a \in Texts, NEW c \in Texts, NEW n \in Nat, n = Len(c), NEW m \in 0..n, m = Len(a),
         \A k \in 1..m : c[k] = a[k], NEW w, Reads(w, c, n)
  PROVE  w[m] = Read(a)
<1>1. m \in Nat /\ \A k \in 1..m : k \in 1..n
  OBVIOUS
<1>2. PICK u : Reads(u, a, m) /\ Read(a) = u[m]
  BY <1>1, ReadIsRow
<1>3. w[0] = u[0] /\ \A k \in 1..m : w[k - 1] = u[k - 1] => w[k] = u[k]
  BY <1>1, <1>2 DEF Reads
<1>4. \A k \in 0..m : w[k] = u[k]
  BY ONLY <1>1, <1>3, SameIterates
<1>5. m \in 0..m
  OBVIOUS
<1>. QED
  BY <1>2, <1>4, <1>5

-----------------------------------------------------------------------------
(* The characters behind place a, up to place b.                           *)
Sub(t, a, b) == SubSeq(t, a + 1, b)

LEMMA SubOK ==
  ASSUME NEW t \in Texts, NEW n \in Nat, n = Len(t), NEW a \in 0..n, NEW b \in a..n
  PROVE  /\ Sub(t, a, b) \in Texts /\ Len(Sub(t, a, b)) = b - a
         /\ \A i \in 1..(b - a) : Sub(t, a, b)[i] = t[a + i]
<1>1. a \in Nat /\ b \in Nat /\ a + 1 \in Int /\ \A i \in (a + 1)..b : t[i] \in Characters
  BY DEF Texts
<1>2. /\ Sub(t, a, b) \in Texts
      /\ Len(Sub(t, a, b)) = IF a + 1 <= b THEN b - (a + 1) + 1 ELSE 0
      /\ \A i \in 1..(b - (a + 1) + 1) : Sub(t, a, b)[i] = t[(a + 1) + i - 1]
  BY <1>1, SubSeqProperties DEF Sub, Texts
<1>3. b - (a + 1) + 1 = b - a /\ \A i \in 1..(b - a) : (a + 1) + i - 1 = a + i
  BY <1>1
<1>. QED
  BY <1>1, <1>2, <1>3

LEMMA SubNone == ASSUME NEW t, NEW a \in Nat PROVE Sub(t, a, a) = <<>>
BY SubSeqEmpty DEF Sub

LEMMA SubAll == ASSUME NEW t \in Texts, NEW n, n = Len(t) PROVE Sub(t, 0, n) = t
BY SubSeqFull DEF Sub, Texts

LEMMA SubMore ==
  ASSUME NEW t \in Texts, NEW n \in Nat, n = Len(t), NEW a \in 0..n, NEW b \in a..(n - 1)
  PROVE  More(Sub(t, a, b + 1), Sub(t, a, b), t[b + 1])
<1>1. a + 1 \in 1..Len(t) /\ b + 1 \in (a + 1)..Len(t) /\ (b + 1) - 1 = b /\ b + 1 \in 1..n /\ b \in a..n
  OBVIOUS
<1>2. SubSeq(t, a + 1, b + 1) = SubSeq(t, a + 1, b) \o <<t[b + 1]>>
  BY <1>1, SubSeqRecursiveSecond DEF Texts
<1>3. SubSeq(t, a + 1, b) \in Seq(Characters) /\ t[b + 1] \in Characters
  BY <1>1, SubOK DEF Sub, Texts
<1>4. Append(SubSeq(t, a + 1, b), t[b + 1]) = SubSeq(t, a + 1, b) \o <<t[b + 1]>>
  BY <1>3, AppendIsConcat
<1>. QED
  BY <1>2, <1>4 DEF More, Sub

LEMMA SubSub ==
  ASSUME NEW t \in Texts, NEW n \in Nat, n = Len(t), NEW a \in 0..n,
         NEW p \in 0..(n - a), NEW q \in p..(n - a)
  PROVE  Sub(Sub(t, a, n), p, q) = Sub(t, a + p, a + q)
<1>. DEFINE r == Sub(t, a, n)
            m == n - a
<1>1. a + p \in 0..n /\ a + q \in (a + p)..n /\ (a + q) - (a + p) = q - p /\ n \in a..n
      /\ m \in Nat /\ p \in 0..m /\ q \in p..m
  OBVIOUS
<1>2. r \in Texts /\ m = Len(r) /\ \A i \in 1..m : r[i] = t[a + i]
  BY <1>1, SubOK
<1>3. /\ Sub(t, a + p, a + q) \in Texts /\ Len(Sub(t, a + p, a + q)) = q - p
      /\ \A i \in 1..(q - p) : Sub(t, a + p, a + q)[i] = t[(a + p) + i]
  <2>1. PICK x \in 0..n : x = a + p
    BY <1>1
  <2>2. PICK y \in x..n : y = a + q
    BY <1>1, <2>1
  <2>3. y - x = q - p
    BY <1>1, <2>1, <2>2
  <2>4. /\ Sub(t, x, y) \in Texts /\ Len(Sub(t, x, y)) = y - x
        /\ \A i \in 1..(y - x) : Sub(t, x, y)[i] = t[x + i]
    BY SubOK
  <2>. QED
    BY <2>1, <2>2, <2>3, <2>4
<1>. HIDE DEF r, m
<1>4. /\ Sub(r, p, q) \in Texts /\ Len(Sub(r, p, q)) = q - p
      /\ \A i \in 1..(q - p) : Sub(r, p, q)[i] = r[p + i]
  BY <1>1, <1>2, SubOK
<1>5. \A i \in 1..(q - p) : p + i \in 1..m /\ a + (p + i) = (a + p) + i
  BY <1>1
<1>6. \A i \in 1..(q - p) : Sub(r, p, q)[i] = Sub(t, a + p, a + q)[i]
  BY <1>2, <1>3, <1>4, <1>5
<1>7. Sub(r, p, q) = Sub(t, a + p, a + q)
  BY <1>3, <1>4, <1>6, SeqEqual DEF Texts
<1>. QED
  BY <1>7 DEF r

(* Reading nothing but text, from the beginning of a line.                 *)
RunTo(w, t, a, b) ==
  /\ Cat(w[b].text, w[a].text, Sub(t, a, b)) /\ w[b].open = Sub(t, a, b)
  /\ w[b].lines = w[a].lines /\ w[b].breaks = w[a].breaks /\ (a < b => w[b].afterCR = FALSE)

LEMMA ReadStep ==
  ASSUME NEW t \in Texts, NEW n \in Nat, n = Len(t), NEW w, Reads(w, t, n), NEW k \in 1..n
  PROVE  /\ k - 1 \in 0..n /\ w[k] \in Readings /\ w[k - 1] \in Readings /\ t[k] \in Characters
         /\ t[k] \in Terminators => EndRead(w[k], w[k - 1], t[k])
         /\ t[k] \notin Terminators => TextRead(w[k], w[k - 1], t[k])
<1>1. k - 1 \in 0..n /\ k \in 0..n /\ t[k] \in Characters
  BY DEF Texts
<1>2. w[k - 1] \in Readings /\ w[k] = ReadOn(w[k - 1], t[k])
  BY <1>1 DEF Reads
<1>. QED
  BY <1>1, <1>2, ReadOnOK

LEMMA RunRead ==
  ASSUME NEW t \in Texts, NEW n \in Nat, n = Len(t), NEW w, Reads(w, t, n),
         NEW a \in 0..n, NEW b \in a..n, w[a].open = <<>>,
         \A j \in (a + 1)..b : t[j] \notin Terminators
  PROVE  RunTo(w, t, a, b)
<1>. DEFINE P == {k \in 0..(b - a) : RunTo(w, t, a, a + k)}
<1>1. a \in Nat /\ b \in Nat /\ b - a \in Nat /\ a <= b /\ b <= n
  OBVIOUS
<1>2. w[a] \in Readings /\ w[a].text \in Texts
  BY DEF Reads, Readings
<1>3. 0 \in P
  <2>1. Cat(w[a].text, w[a].text, <<>>)
    BY <1>2, CatNone DEF Texts
  <2>2. Sub(t, a, a) = <<>>
    BY <1>1, SubNone
  <2>3. a + 0 = a /\ ~(a < a)
    BY <1>1
  <2>. QED
    BY <1>1, <2>1, <2>2, <2>3 DEF RunTo
<1>4. ASSUME NEW k \in 0..((b - a) - 1), k \in P PROVE k + 1 \in P
  <2>. DEFINE i == a + k
  <2>1. /\ k + 1 \in 0..(b - a) /\ i \in a..(n - 1) /\ i + 1 \in 1..n /\ i + 1 \in (a + 1)..b
        /\ a + (k + 1) = i + 1 /\ (i + 1) - 1 = i /\ i \in a..n
    BY <1>1
  <2>2. RunTo(w, t, a, i)
    BY <1>4
  <2>. HIDE DEF i
  <2>3. t[i + 1] \in Characters /\ TextRead(w[i + 1], w[i], t[i + 1])
    BY <2>1, ReadStep
  <2>4. More(Sub(t, a, i + 1), Sub(t, a, i), t[i + 1])
    BY <2>1, SubMore
  <2>5. Cat(w[i].text, w[a].text, Sub(t, a, i)) /\ More(w[i + 1].text, w[i].text, t[i + 1])
    BY <2>2, <2>3 DEF RunTo, TextRead, More
  <2>6. Sub(t, a, i) \in Texts
    BY <2>1, SubOK
  <2>7. Cat(w[i + 1].text, w[a].text, Sub(t, a, i + 1))
    BY <1>2, <2>3, <2>4, <2>5, <2>6, CatMore DEF Texts
  <2>8. w[i + 1].open = Sub(t, a, i + 1)
    BY <2>2, <2>3, <2>4 DEF RunTo, TextRead, More
  <2>9. w[i + 1].lines = w[a].lines /\ w[i + 1].breaks = w[a].breaks /\ w[i + 1].afterCR = FALSE
    BY <2>2, <2>3 DEF RunTo, TextRead
  <2>10. RunTo(w, t, a, i + 1)
    BY <2>7, <2>8, <2>9 DEF RunTo
  <2>. QED
    BY <2>1, <2>10
<1>. HIDE DEF P
<1>5. \A k \in 0..(b - a) : k \in P
  <2>. DEFINE m == b - a
  <2>1. m \in Nat
    BY <1>1
  <2>2. \A k \in 0..(m - 1) : k \in P => k + 1 \in P
    BY <1>4
  <2>. HIDE DEF m
  <2>3. \A k \in 0..m : k \in P
    BY ONLY <2>1, <1>3, <2>2, UpTo
  <2>. QED
    BY <2>3 DEF m
<1>6. b - a \in 0..(b - a) /\ a + (b - a) = b
  BY <1>1
<1>. QED
  BY <1>5, <1>6 DEF P

(* So far cut, at a place where a line begins.                             *)
AtPlace(c, w, t, n, p) ==
  /\ c.rest = Sub(t, p, n) /\ w[p].open = <<>>
  /\ Joined(c.out) = w[p].text /\ Filled(c.out) = w[p].lines /\ Len(c.out) = w[p].breaks
  /\ w[p].afterCR /\ p < n => t[p + 1] # "LF"

Over(c) == FirstTerminator(c.rest) = 0

LEMMA CutStep ==
  ASSUME NEW t \in Texts, NEW n \in Nat, n = Len(t), NEW w, Reads(w, t, n),
         NEW c \in Pieces, NEW p \in 0..n, AtPlace(c, w, t, n, p), ~Over(c)
  PROVE  \E q \in (p + 1)..n : AtPlace(CutOnce(c), w, t, n, q)
<1>. DEFINE r == c.rest
            l == TerminatorLength(c.rest, FirstTerminator(c.rest))
<1>1. p \in Nat /\ n - p \in Nat /\ n \in p..n /\ r = Sub(t, p, n) /\ c.out \in Lines
  BY DEF AtPlace, Pieces
<1>2. r \in Texts /\ Len(r) = n - p /\ \A j \in 1..(n - p) : r[j] = t[p + j]
  <2>1. /\ Sub(t, p, n) \in Texts /\ Len(Sub(t, p, n)) = n - p
        /\ \A j \in 1..(n - p) : Sub(t, p, n)[j] = t[p + j]
    BY <1>1, SubOK
  <2>. HIDE DEF r
  <2>. QED
    BY <1>1, <2>1
<1>3. PICK i \in 1..(n - p) : i = FirstTerminator(r)
  BY <1>1, <1>2, FirstTerminatorOK DEF Over
<1>4. /\ r[i] \in Terminators /\ \A j \in 1..(i - 1) : r[j] \notin Terminators
      /\ l \in {1, 2} /\ i + l - 1 \in 1..(n - p)
  BY <1>2, <1>3, FirstTerminatorOK
<1>5. l = (IF r[i] = "CR" /\ i < n - p /\ r[i + 1] = "LF" THEN 2 ELSE 1)
  BY <1>2, <1>3 DEF TerminatorLength
<1>. HIDE DEF l, r
<1>6. PICK e \in p..(n - 1) : e = p + i - 1
  BY <1>1
<1>7. PICK z \in 1..n : z = p + i
  BY <1>1
<1>8. e \in 0..n /\ e \in p..n /\ z = e + 1 /\ z - 1 = e /\ e = p + (i - 1)
  BY <1>6, <1>7
<1>9. t[z] = r[i] /\ t[z] \in Terminators /\ t[z] \in Characters
  BY <1>2, <1>4, <1>7 DEF Texts
<1>10. RunTo(w, t, p, e)
  <2>1. \A j \in (p + 1)..e : j - p \in 1..(i - 1) /\ j - p \in 1..(n - p) /\ p + (j - p) = j
    BY <1>1, <1>8
  <2>2. ASSUME NEW j \in (p + 1)..e PROVE t[j] \notin Terminators
    <3>1. PICK k \in 1..(n - p) : k = j - p /\ k \in 1..(i - 1) /\ p + k = j
      BY <2>1
    <3>. QED
      BY <1>2, <1>4, <3>1
  <2>3. w[p].open = <<>>
    BY DEF AtPlace
  <2>. QED
    BY <1>8, <2>2, <2>3, RunRead
<1>11. EndRead(w[z], w[e], t[z])
  BY <1>8, <1>9, ReadStep
<1>. DEFINE run == Sub(t, p, e)
            d == CutOnce(c)
<1>12. run \in Texts
  BY <1>8, SubOK
<1>13. SubSeq(r, 1, i - 1) = run
  <2>1. 0 \in 0..(n - p) /\ i - 1 \in 0..(n - p) /\ p + 0 = p
    BY <1>1
  <2>2. Sub(Sub(t, p, n), 0, i - 1) = Sub(t, p + 0, p + (i - 1))
    BY <2>1, SubSub
  <2>. QED
    BY <1>1, <1>8, <2>1, <2>2 DEF Sub
<1>14. PICK q \in z..n : q = z + l - 1
  BY <1>4, <1>7, <1>8
<1>15. SubSeq(r, i + l, Len(r)) = Sub(t, q, n)
  <2>1. PICK x \in 0..(n - p) : x = i + l - 1
    BY <1>4
  <2>2. n - p \in x..(n - p) /\ p + x = q /\ p + (n - p) = n /\ x + 1 = i + l
    BY <1>1, <1>4, <1>7, <1>14, <2>1
  <2>3. Sub(Sub(t, p, n), x, n - p) = Sub(t, p + x, p + (n - p))
    BY <2>2, SubSub
  <2>4. Sub(r, x, n - p) = SubSeq(r, i + l, Len(r))
    BY <1>2, <2>2 DEF Sub
  <2>. QED
    BY <1>1, <2>2, <2>3, <2>4
<1>16. d = [out |-> Append(c.out, run), rest |-> Sub(t, q, n)]
  <2>1. FirstTerminator(c.rest) = i /\ i # 0
    BY <1>3 DEF r
  <2>2. d = [out  |-> Append(c.out, SubSeq(c.rest, 1, i - 1)),
             rest |-> SubSeq(c.rest, i + l, Len(c.rest))]
    BY <2>1 DEF CutOnce, l
  <2>. QED
    BY <1>13, <1>15, <2>2 DEF r
<1>17. d.rest = Sub(t, q, n) /\ More(d.out, c.out, run)
  BY <1>16 DEF More
<1>. HIDE DEF d, run
<1>18. Joined(d.out) = w[e].text
  <2>1. Cat(Joined(d.out), Joined(c.out), run)
    BY <1>1, <1>12, <1>17, JoinedMore
  <2>2. Cat(w[e].text, w[p].text, run) /\ Joined(c.out) = w[p].text
    BY <1>10 DEF RunTo, AtPlace, run
  <2>. QED
    BY <2>1, <2>2 DEF Cat
<1>19. Filled(d.out) = w[z].lines
  <2>1. Filled(d.out) = Filling(Filled(c.out), run)
    BY <1>1, <1>12, <1>17, FilledMore
  <2>. QED
    BY <1>10, <1>11, <2>1 DEF RunTo, AtPlace, EndRead, run
<1>20. Len(d.out) = w[z].breaks
  <2>1. Len(d.out) = Len(c.out) + 1
    BY <1>1, <1>12, <1>17 DEF More, Lines
  <2>2. ~(t[z] = "LF" /\ w[e].afterCR)
    <3>1. CASE p < e
      BY <1>10, <3>1 DEF RunTo
    <3>2. CASE p = e
      BY <1>8, <3>2 DEF AtPlace
    <3>. QED
      BY <1>8, <3>1, <3>2
  <2>3. w[z].breaks = w[e].breaks + 1
    BY <1>11, <2>2 DEF EndRead
  <2>. QED
    BY <1>10, <2>1, <2>3 DEF RunTo, AtPlace
<1>21. w[z].open = <<>> /\ w[z].text = w[e].text /\ w[z].afterCR = (t[z] = "CR")
  BY <1>11 DEF EndRead
<1>22. CASE l = 1
  <2>1. q = z
    BY <1>14, <1>22
  <2>2. w[z].afterCR /\ z < n => t[z + 1] # "LF"
    <3>. SUFFICES ASSUME w[z].afterCR, z < n PROVE t[z + 1] # "LF"
      OBVIOUS
    <3>1. t[z] = "CR"
      BY <1>21
    <3>2. i < n - p /\ i + 1 \in 1..(n - p) /\ p + (i + 1) = z + 1
      BY <1>7
    <3>. QED
      BY <1>2, <1>5, <1>9, <1>22, <3>1, <3>2
  <2>3. AtPlace(d, w, t, n, q)
    BY <1>17, <1>18, <1>19, <1>20, <1>21, <2>1, <2>2 DEF AtPlace
  <2>4. q \in (p + 1)..n
    BY <1>7, <2>1
  <2>. QED
    BY <2>3, <2>4 DEF d
<1>23. CASE l = 2
  <2>1. r[i] = "CR" /\ i < n - p /\ r[i + 1] = "LF"
    BY <1>5, <1>23
  <2>2. q = z + 1 /\ q \in 1..n /\ q - 1 = z /\ i + 1 \in 1..(n - p) /\ p + (i + 1) = q
    BY <1>7, <1>14, <1>23, <2>1
  <2>3. t[q] = "LF" /\ t[z] = "CR"
    BY <1>2, <1>9, <2>1, <2>2
  <2>4. EndRead(w[q], w[z], t[q])
    BY <2>2, <2>3, ReadStep DEF Terminators
  <2>5. /\ w[q].text = w[z].text /\ w[q].open = <<>> /\ w[q].lines = w[z].lines
        /\ w[q].breaks = w[z].breaks /\ w[q].afterCR = FALSE
    BY <1>21, <2>3, <2>4 DEF EndRead, Filling
  <2>6. AtPlace(d, w, t, n, q)
    BY <1>17, <1>18, <1>19, <1>20, <1>21, <2>5 DEF AtPlace
  <2>7. q \in (p + 1)..n
    BY <1>7, <2>2
  <2>. QED
    BY <2>6, <2>7 DEF d
<1>. QED
  BY <1>4, <1>22, <1>23

(* What is cut is what a reader has read.                                  *)
CutIs(c, r) ==
  /\ c \in Pieces /\ Cat(r.text, Joined(c.out), c.rest) /\ c.rest = r.open
  /\ Filled(c.out) = r.lines /\ Len(c.out) = r.breaks
  /\ \A j \in 1..Len(c.rest) : c.rest[j] \notin Terminators

LEMMA CutReads ==
  ASSUME NEW t \in Texts, NEW n \in Nat, n = Len(t), NEW w, Reads(w, t, n)
  PROVE  CutIs(Cut(t), w[n])
<1>1. PICK v : Cuts(v, t, n) /\ Cut(t) = v[n]
  BY CutFolds
<1>. DEFINE P == {k \in 0..n : \E p \in 0..n : AtPlace(v[k], w, t, n, p) /\ (p >= k \/ Over(v[k]))}
<1>2. 0 \in P
  <2>1. v[0].rest = t /\ v[0].out = <<>>
    BY <1>1 DEF Cuts, Uncut
  <2>2. w[0].open = <<>> /\ w[0].text = <<>> /\ w[0].lines = <<>> /\ w[0].breaks = 0 /\ w[0].afterCR = FALSE
    BY DEF Reads, Afresh
  <2>3. Sub(t, 0, n) = t /\ Len(<<>>) = 0
    BY SubAll
  <2>4. AtPlace(v[0], w, t, n, 0)
    BY <2>1, <2>2, <2>3, JoinedOK, FilledOK DEF AtPlace
  <2>. QED
    BY <2>4
<1>3. ASSUME NEW k \in 0..(n - 1), k \in P PROVE k + 1 \in P
  <2>1. PICK p \in 0..n : AtPlace(v[k], w, t, n, p) /\ (p >= k \/ Over(v[k]))
    BY <1>3
  <2>2. k + 1 \in 1..n /\ k + 1 \in 0..n /\ (k + 1) - 1 = k /\ k \in 0..n
    OBVIOUS
  <2>3. v[k + 1] = CutOnce(v[k]) /\ v[k] \in Pieces
    BY <1>1, <2>2 DEF Cuts
  <2>4. CASE Over(v[k])
    <3>1. v[k + 1] = v[k]
      BY <2>3, <2>4 DEF Over, CutOnce
    <3>. QED
      BY <2>1, <2>2, <2>4, <3>1
  <2>5. CASE ~Over(v[k])
    <3>1. PICK q \in (p + 1)..n : AtPlace(CutOnce(v[k]), w, t, n, q)
      BY <2>1, <2>3, <2>5, CutStep
    <3>2. q >= k + 1 /\ q \in 0..n
      BY <2>1, <2>5
    <3>. QED
      BY <2>2, <2>3, <3>1, <3>2
  <2>. QED
    BY <2>4, <2>5
<1>. HIDE DEF P
<1>4. \A k \in 0..n : k \in P
  BY ONLY n \in Nat, <1>2, <1>3, UpTo
<1>5. PICK p \in 0..n : AtPlace(v[n], w, t, n, p) /\ (p >= n \/ Over(v[n]))
  BY <1>4 DEF P
<1>. DEFINE c == v[n]
<1>6. c \in Pieces /\ c = Cut(t) /\ c.rest \in Texts /\ c.out \in Lines
  BY <1>1 DEF Cuts, Pieces
<1>. HIDE DEF c
<1>7. AtPlace(c, w, t, n, p) /\ (p >= n \/ Over(c)) /\ c.rest = Sub(t, p, n)
  BY <1>5 DEF c, AtPlace
<1>8. Len(c.rest) = n - p /\ \A j \in 1..(n - p) : c.rest[j] = t[p + j]
  <2>1. n \in p..n
    OBVIOUS
  <2>2. Len(Sub(t, p, n)) = n - p /\ \A j \in 1..(n - p) : Sub(t, p, n)[j] = t[p + j]
    BY <2>1, SubOK
  <2>. QED
    BY <1>7, <2>2
<1>9. \A j \in 1..Len(c.rest) : c.rest[j] \notin Terminators
  <2>1. CASE p >= n
    BY <1>8, <2>1
  <2>2. CASE Over(c)
    BY <1>6, <2>2, FirstTerminatorOK DEF Over
  <2>. QED
    BY <1>7, <2>1, <2>2
<1>10. RunTo(w, t, p, n)
  <2>1. \A j \in (p + 1)..n : j - p \in 1..(n - p) /\ p + (j - p) = j
    OBVIOUS
  <2>2. \A j \in (p + 1)..n : t[j] \notin Terminators
    BY <1>8, <1>9, <2>1
  <2>3. w[p].open = <<>> /\ n \in p..n
    BY <1>7 DEF AtPlace
  <2>. QED
    BY <2>2, <2>3, RunRead
<1>11. /\ Cat(w[n].text, w[p].text, c.rest) /\ w[n].open = c.rest
       /\ w[n].lines = w[p].lines /\ w[n].breaks = w[p].breaks
  BY <1>7, <1>10 DEF RunTo
<1>12. Joined(c.out) = w[p].text /\ Filled(c.out) = w[p].lines /\ Len(c.out) = w[p].breaks
  BY <1>7 DEF AtPlace
<1>. QED
  BY <1>6, <1>9, <1>11, <1>12 DEF CutIs

-----------------------------------------------------------------------------
(* Reading on after an earlier chunk, and after what is pending of it.     *)

LEMMA ReadOK == \A s \in Texts : Read(s) \in Readings
<1>. SUFFICES ASSUME NEW s \in Texts PROVE Read(s) \in Readings
  OBVIOUS
<1>1. PICK n \in Nat : n = Len(s)
  BY DEF Texts
<1>2. PICK w : Reads(w, s, n) /\ Read(s) = w[n]
  BY <1>1, ReadIsRow
<1>3. n \in 0..n
  OBVIOUS
<1>. QED
  BY <1>2, <1>3 DEF Reads

(* No line is longer than the longest so far, which never shrinks.         *)
Reached(r) == Size(r.open) <= r.longest

LEMMA LongestStep ==
  ASSUME NEW r \in Readings, NEW r2 \in Readings, NEW char \in Characters,
         EndRead(r2, r, char) \/ TextRead(r2, r, char)
  PROVE  r.longest <= r2.longest /\ Reached(r2) /\ r.longest \in Nat /\ r2.longest \in Nat
<1>1. r.longest \in Nat /\ r2.longest \in Nat /\ r.open \in Texts
  BY DEF Readings
<1>2. CASE EndRead(r2, r, char)
  BY <1>1, <1>2, SizeOK DEF EndRead, Reached
<1>3. CASE TextRead(r2, r, char)
  <2>1. Append(r.open, char) \in Texts
    BY <1>1 DEF Texts
  <2>2. Size(Append(r.open, char)) \in Nat
    BY <2>1, SizeOK
  <2>. QED
    BY <1>1, <1>3, <2>2 DEF TextRead, Longer, Reached
<1>. QED
  BY <1>2, <1>3

(* Two readers of the same characters, one with something behind it.       *)
Behind(r, q, texts, breaks) ==
  /\ Cat(r.lines, texts, q.lines) /\ r.open = q.open /\ r.breaks <= breaks + q.breaks
  /\ q.afterCR => r.afterCR

LEMMA BehindStep ==
  ASSUME NEW r \in Readings, NEW r2 \in Readings, NEW q \in Readings, NEW q2 \in Readings,
         NEW char \in Characters, NEW texts \in Lines, NEW breaks \in Nat, Behind(r, q, texts, breaks),
         \/ EndRead(r2, r, char) /\ EndRead(q2, q, char)
         \/ TextRead(r2, r, char) /\ TextRead(q2, q, char)
  PROVE  Behind(r2, q2, texts, breaks)
<1>1. /\ q.lines \in Lines /\ q.open \in Texts /\ r.breaks \in Nat /\ q.breaks \in Nat
      /\ r.afterCR \in BOOLEAN /\ q.afterCR \in BOOLEAN
  BY DEF Readings
<1>2. CASE EndRead(r2, r, char) /\ EndRead(q2, q, char)
  <2>1. Cat(r2.lines, texts, q2.lines)
    BY <1>1, <1>2, FillingCat DEF Behind, EndRead
  <2>2. r2.breaks <= breaks + q2.breaks
    BY <1>1, <1>2 DEF Behind, EndRead
  <2>. QED
    BY <1>2, <2>1, <2>2 DEF Behind, EndRead
<1>3. CASE TextRead(r2, r, char) /\ TextRead(q2, q, char)
  BY <1>3 DEF Behind, TextRead
<1>. QED
  BY <1>2, <1>3

LEMMA TextStep ==
  ASSUME NEW r, NEW r2, NEW q \in Readings, NEW q2,
         NEW char \in Characters, NEW text \in Texts, Cat(r.text, text, q.text),
         \/ EndRead(r2, r, char) /\ EndRead(q2, q, char)
         \/ TextRead(r2, r, char) /\ TextRead(q2, q, char)
  PROVE  Cat(r2.text, text, q2.text)
<1>1. q.text \in Texts
  BY DEF Readings
<1>2. CASE EndRead(r2, r, char) /\ EndRead(q2, q, char)
  BY <1>2 DEF EndRead
<1>3. CASE TextRead(r2, r, char) /\ TextRead(q2, q, char)
  <2>1. More(r2.text, r.text, char) /\ More(q2.text, q.text, char)
    BY <1>3 DEF TextRead, More
  <2>. QED
    BY <1>1, <2>1, CatMore DEF Texts
<1>. QED
  BY <1>2, <1>3

\* where the characters of two joined texts stand
Standing(c, a, b, m, l, n) ==
  /\ c \in Texts /\ Len(c) = n /\ \A k \in 1..m : c[k] = a[k]
  /\ \A k \in 1..l : m + k \in 1..n /\ (m + k) - 1 \in 0..n /\ c[m + k] = b[k] /\ b[k] \in Characters

LEMMA PlacesOfCat ==
  ASSUME NEW a \in Texts, NEW b \in Texts, NEW c, Cat(c, a, b),
         NEW m \in Nat, m = Len(a), NEW l \in Nat, l = Len(b), NEW n \in Nat, n = m + l
  PROVE  Standing(c, a, b, m, l, n)
<1>1. /\ c \in Texts /\ Len(c) = n
      /\ \A i \in 1..n : c[i] = IF i <= m THEN a[i] ELSE b[i - m]
  BY ConcatProperties DEF Texts, Cat
<1>2. \A k \in 1..m : k \in 1..n /\ k <= m
  OBVIOUS
<1>3. \A k \in 1..l : m + k \in 1..n /\ ~(m + k <= m) /\ (m + k) - m = k /\ (m + k) - 1 \in 0..n
  OBVIOUS
<1>4. \A k \in 1..l : b[k] \in Characters
  BY DEF Texts
<1>. QED
  BY <1>1, <1>2, <1>3, <1>4 DEF Standing

LEMMA ReadAlong ==
  ASSUME NEW f \in Texts, NEW x \in Texts, NEW chunk \in Texts, NEW g, NEW t,
         Cat(g, f, chunk), Cat(t, x, chunk), \A j \in 1..Len(x) : x[j] \notin Terminators,
         NEW text \in Texts, Cat(Read(f).text, text, x)
  PROVE  /\ g \in Texts /\ t \in Texts
         /\ Cat(Read(g).text, text, Read(t).text)
         /\ Read(f).longest <= Read(g).longest
         /\ Read(f).open = x => Behind(Read(g), Read(t), Read(f).lines, Read(f).breaks)
<1>1. PICK m \in Nat : m = Len(f)
  BY DEF Texts
<1>2. PICK p \in Nat : p = Len(x)
  BY DEF Texts
<1>3. PICK l \in Nat : l = Len(chunk)
  BY DEF Texts
<1>4. PICK n \in Nat : n = m + l
  OBVIOUS
<1>5. PICK o \in Nat : o = p + l
  OBVIOUS
<1>6. /\ g \in Texts /\ Len(g) = n /\ \A k \in 1..m : g[k] = f[k]
      /\ \A k \in 1..l : m + k \in 1..n /\ (m + k) - 1 \in 0..n /\ g[m + k] = chunk[k] /\ chunk[k] \in Characters
  <2>1. Standing(g, f, chunk, m, l, n)
    BY <1>1, <1>3, <1>4, PlacesOfCat
  <2>. QED
    BY <2>1 DEF Standing
<1>7. /\ t \in Texts /\ Len(t) = o /\ \A k \in 1..p : t[k] = x[k]
      /\ \A k \in 1..l : p + k \in 1..o /\ (p + k) - 1 \in 0..o /\ t[p + k] = chunk[k]
  <2>1. Standing(t, x, chunk, p, l, o)
    BY <1>2, <1>3, <1>5, PlacesOfCat
  <2>. QED
    BY <2>1 DEF Standing
<1>8. PICK u : Reads(u, g, n) /\ Read(g) = u[n]
  BY <1>6, ReadIsRow
<1>9. PICK w : Reads(w, t, o) /\ Read(t) = w[o]
  BY <1>7, ReadIsRow
<1>10. m \in 0..n /\ p \in 0..o /\ 0 \in 0..o /\ p \in 0..o
  BY <1>4, <1>5
<1>11. u[m] = Read(f) /\ u[m] \in Readings
  BY <1>1, <1>6, <1>8, <1>10, ReadPrefix, ReadOK
<1>12. w[p].text = x /\ w[p].open = x /\ w[p].lines = <<>> /\ w[p].breaks = 0 /\ w[p].afterCR = FALSE
  <2>1. w[0] = Afresh
    BY <1>9 DEF Reads
  <2>2. RunTo(w, t, 0, p)
    <3>1. \A j \in (0 + 1)..p : t[j] \notin Terminators
      BY <1>2, <1>7
    <3>2. w[0].open = <<>>
      BY <2>1 DEF Afresh
    <3>. QED
      BY <1>7, <1>9, <1>10, <3>1, <3>2, RunRead
  <2>3. Sub(t, 0, p) = x
    <3>1. /\ Sub(t, 0, p) \in Texts /\ Len(Sub(t, 0, p)) = p - 0
          /\ \A i \in 1..(p - 0) : Sub(t, 0, p)[i] = t[0 + i]
      BY <1>7, <1>10, SubOK
    <3>2. Len(Sub(t, 0, p)) = Len(x) /\ \A i \in 1..Len(Sub(t, 0, p)) : Sub(t, 0, p)[i] = x[i]
      BY <1>2, <1>7, <3>1
    <3>. QED
      BY <3>1, <3>2, SeqEqual DEF Texts
  <2>4. Cat(w[p].text, <<>>, x)
    BY <2>1, <2>2, <2>3 DEF RunTo, Afresh
  <2>5. w[p].text = x
    BY <2>4, ConcatEmptySeq DEF Cat, Texts
  <2>6. w[p].afterCR = FALSE
    BY <2>1, <2>2 DEF RunTo, Afresh
  <2>. QED
    BY <2>1, <2>2, <2>3, <2>5, <2>6 DEF RunTo, Afresh
<1>. DEFINE texts == Read(f).lines
            breaks == Read(f).breaks
            P == {k \in 0..l : /\ Cat(u[m + k].text, text, w[p + k].text)
                               /\ u[m].longest <= u[m + k].longest
                               /\ Read(f).open = x => Behind(u[m + k], w[p + k], texts, breaks)}
<1>13. texts \in Lines /\ breaks \in Nat /\ u[m].longest \in Nat
  BY <1>11 DEF Readings
<1>14. 0 \in P
  <2>1. m + 0 = m /\ p + 0 = p /\ 0 \in 0..l
    OBVIOUS
  <2>2. Cat(u[m].text, text, w[p].text)
    BY <1>11, <1>12
  <2>3. Cat(texts, texts, <<>>)
    BY <1>13, CatNone DEF Lines
  <2>4. Read(f).open = x => Behind(u[m], w[p], texts, breaks)
    BY <1>11, <1>12, <1>13, <2>3 DEF Behind
  <2>. QED
    BY <1>13, <2>1, <2>2, <2>4
<1>. HIDE DEF texts, breaks
<1>15. ASSUME NEW k \in 0..(l - 1), k \in P PROVE k + 1 \in P
  <2>1. k + 1 \in 1..l /\ k + 1 \in 0..l
    OBVIOUS
  <2>2. PICK i \in 1..n : i = m + (k + 1)
    BY <1>6, <2>1
  <2>3. PICK j \in 1..o : j = p + (k + 1)
    BY <1>7, <2>1
  <2>4. i - 1 = m + k /\ j - 1 = p + k
    BY <2>2, <2>3
  <2>5. g[i] = chunk[k + 1] /\ t[j] = chunk[k + 1]
    BY <1>6, <1>7, <2>1, <2>2, <2>3
  <2>6. /\ u[i] \in Readings /\ u[i - 1] \in Readings /\ g[i] \in Characters
        /\ g[i] \in Terminators => EndRead(u[i], u[i - 1], g[i])
        /\ g[i] \notin Terminators => TextRead(u[i], u[i - 1], g[i])
    BY <1>6, <1>8, ReadStep
  <2>7. /\ w[j] \in Readings /\ w[j - 1] \in Readings
        /\ t[j] \in Terminators => EndRead(w[j], w[j - 1], t[j])
        /\ t[j] \notin Terminators => TextRead(w[j], w[j - 1], t[j])
    BY <1>7, <1>9, ReadStep
  <2>8. PICK char \in Characters : char = chunk[k + 1]
    BY <2>5, <2>6
  <2>9. \/ EndRead(u[i], u[i - 1], char) /\ EndRead(w[j], w[j - 1], char)
        \/ TextRead(u[i], u[i - 1], char) /\ TextRead(w[j], w[j - 1], char)
    BY <2>5, <2>6, <2>7, <2>8
  <2>10. /\ Cat(u[i - 1].text, text, w[j - 1].text) /\ u[m].longest <= u[i - 1].longest
         /\ Read(f).open = x => Behind(u[i - 1], w[j - 1], texts, breaks)
    BY <1>15, <2>4
  <2>11. Cat(u[i].text, text, w[j].text)
    BY <2>6, <2>7, <2>9, <2>10, TextStep
  <2>12. u[m].longest <= u[i].longest
    <3>1. u[i - 1].longest <= u[i].longest /\ u[i - 1].longest \in Nat /\ u[i].longest \in Nat
      BY <2>6, <2>9, LongestStep
    <3>. QED
      BY <1>13, <2>10, <3>1
  <2>13. Read(f).open = x => Behind(u[i], w[j], texts, breaks)
    BY <1>13, <2>6, <2>7, <2>9, <2>10, BehindStep
  <2>. QED
    BY <2>1, <2>2, <2>3, <2>11, <2>12, <2>13
<1>. HIDE DEF P
<1>16. \A k \in 0..l : k \in P
  BY ONLY l \in Nat, <1>14, <1>15, UpTo
<1>17. l \in 0..l
  OBVIOUS
<1>18. /\ Cat(u[m + l].text, text, w[p + l].text) /\ u[m].longest <= u[m + l].longest
       /\ Read(f).open = x => Behind(u[m + l], w[p + l], texts, breaks)
  BY <1>16, <1>17 DEF P
<1>. QED
  BY <1>4, <1>5, <1>6, <1>7, <1>8, <1>9, <1>11, <1>18 DEF texts, breaks

LEMMA LongestRead == \A s \in Texts : Reached(Read(s))
<1>. SUFFICES ASSUME NEW s \in Texts PROVE Reached(Read(s))
  OBVIOUS
<1>1. PICK n \in Nat : n = Len(s)
  BY DEF Texts
<1>2. PICK w : Reads(w, s, n) /\ Read(s) = w[n]
  BY <1>1, ReadIsRow
<1>3. CASE n = 0
  <2>1. Read(s) = Afresh
    BY <1>2, <1>3 DEF Reads
  <2>. QED
    BY <2>1, SizeOK DEF Reached, Afresh
<1>4. CASE n # 0
  <2>1. n \in 1..n
    BY <1>4
  <2>2. /\ w[n] \in Readings /\ w[n - 1] \in Readings /\ s[n] \in Characters
        /\ EndRead(w[n], w[n - 1], s[n]) \/ TextRead(w[n], w[n - 1], s[n])
    BY <1>1, <1>2, <2>1, ReadStep
  <2>. QED
    BY <1>2, <2>2, LongestStep
<1>. QED
  BY <1>3, <1>4

-----------------------------------------------------------------------------
(* A chunk is decoded where it stands: its first byte has nothing to do    *)
(* with the byte before it, nor its last with the byte behind it.          *)
Outputs == Seq(Bytes)

FedInv ==
  /\ fed \in Outputs /\ ends \in SUBSET (1..Len(fed))
  /\ fed # <<>> => Len(fed) \in ends

LEMMA DecodedOK ==
  ASSUME NEW bytes \in Outputs, NEW breaks
  PROVE  /\ Decoded(bytes, breaks) \in Texts /\ Len(Decoded(bytes, breaks)) = Len(bytes)
         /\ \A i \in 1..Len(bytes) :
              Decoded(bytes, breaks)[i] = IF Intact(bytes, i, breaks) THEN bytes[i] ELSE "lost"
<1>. DEFINE d == Decoded(bytes, breaks)
            Shows(i) == IF Intact(bytes, i, breaks) THEN bytes[i] ELSE "lost"
<1>1. PICK n \in Nat : n = Len(bytes) /\ bytes \in [1..n -> Bytes]
  BY DEF Outputs
<1>2. \A i \in 1..n : Shows(i) \in Characters
  <2>. HIDE DEF Bytes
  <2>. QED
    BY <1>1, Zenon DEF Characters
<1>3. d = [i \in 1..n |-> Shows(i)]
  BY <1>1 DEF Decoded
<1>4. d \in [1..n -> Characters]
  <2>. HIDE DEF Shows, d
  <2>. QED
    BY <1>2, <1>3
<1>5. \A i \in 1..n : d[i] = Shows(i)
  <2>. HIDE DEF Shows, d
  <2>. QED
    BY <1>3
<1>. HIDE DEF d
<1>6. d \in Texts /\ Len(d) = n
  BY <1>4 DEF Texts
<1>. QED
  BY <1>1, <1>5, <1>6 DEF d

LEMMA ShownGrows ==
  ASSUME FedInv, NEW chunk \in Outputs, chunk # <<>>, Ingest(chunk)
  PROVE  FedInv' /\ Shown \in Texts /\ Lossy(chunk) \in Texts /\ Cat(Shown', Shown, Lossy(chunk))
<1>1. PICK m \in Nat : m = Len(fed)
  BY DEF FedInv, Outputs
<1>2. PICK l \in Nat : l = Len(chunk) /\ l > 0
  BY DEF Outputs
<1>3. fed \in Outputs /\ ends \in SUBSET (1..m) /\ (m > 0 => m \in ends)
  <2>1. m > 0 => fed # <<>>
    <3>1. Len(<<>>) = 0
      OBVIOUS
    <3>. QED
      BY <1>1, <3>1
  <2>2. /\ fed \in Outputs /\ ends \in SUBSET (1..Len(fed))
        /\ fed # <<>> => Len(fed) \in ends
    BY Zenon DEF FedInv
  <2>3. ends \in SUBSET (1..m)
    BY <1>1, <2>2, Zenon
  <2>4. m > 0 => m \in ends
    BY <1>1, <2>1, <2>2
  <2>. QED
    BY <2>2, <2>3, <2>4
<1>4. fed' = fed \o chunk /\ ends' = ends \cup {m + l}
  BY <1>1, <1>2 DEF Ingest
<1>5. /\ fed' \in Outputs /\ Len(fed') = m + l
      /\ \A i \in 1..m : fed'[i] = fed[i]
      /\ \A i \in 1..l : fed'[m + i] = chunk[i]
  BY <1>1, <1>2, <1>3, <1>4 DEF Outputs
<1>6. FedInv'
  <2>1. m + l \in 1..(m + l) /\ 1..m \subseteq 1..(m + l)
    BY <1>2
  <2>2. ends' \in SUBSET (1..(m + l)) /\ m + l \in ends'
    BY <1>3, <1>4, <2>1
  <2>. QED
    BY <1>5, <2>2 DEF FedInv
<1>7. ASSUME NEW i \in 1..m PROVE Intact(fed', i, ends') <=> Intact(fed, i, ends)
  <2>1. fed'[i] = fed[i] /\ (i > 1 => i - 1 \in 1..m) /\ (i < m => i + 1 \in 1..m)
    BY <1>5
  <2>2. (i > 1 => fed'[i - 1] = fed[i - 1]) /\ (i < m => fed'[i + 1] = fed[i + 1])
    BY <1>5, <2>1
  <2>3. (i \in ends' <=> i \in ends) /\ (i - 1 \in ends' <=> i - 1 \in ends)
    BY <1>2, <1>4
  <2>4. (i < m + l /\ i \notin ends') => i < m
    BY <1>3, <1>4
  <2>5. i < m => i < m + l
    BY <1>2
  <2>. QED
    BY <1>1, <1>5, <2>1, <2>2, <2>3, <2>4, <2>5 DEF Intact
<1>8. ASSUME NEW i \in 1..l PROVE Intact(fed', m + i, ends') <=> Intact(chunk, i, {})
  <2>1. /\ fed'[m + i] = chunk[i] /\ (i > 1 => i - 1 \in 1..l) /\ (i < l => i + 1 \in 1..l)
        /\ (m + i) + 1 = m + (i + 1) /\ (m + i) - 1 = m + (i - 1)
    BY <1>5
  <2>2. /\ i > 1 => fed'[(m + i) - 1] = chunk[i - 1]
        /\ i < l => fed'[(m + i) + 1] = chunk[i + 1]
    BY <1>5, <2>1
  <2>3. /\ i < l => m + i \notin ends'
        /\ i > 1 => (m + i) - 1 \notin ends'
    BY <1>3, <1>4
  <2>4. (m + i < m + l <=> i < l) /\ (i > 1 => m + i > 1)
    OBVIOUS
  <2>5. (m + i > 1 /\ ~(i > 1)) => (m + i) - 1 \in ends'
    BY <1>3, <1>4
  <2>. QED
    BY <1>2, <1>5, <2>1, <2>2, <2>3, <2>4, <2>5 DEF Intact
<1>9. /\ Shown \in Texts /\ Len(Shown) = m
      /\ \A i \in 1..m : Shown[i] = IF Intact(fed, i, ends) THEN fed[i] ELSE "lost"
  BY <1>1, <1>3, DecodedOK DEF Shown
<1>10. /\ Lossy(chunk) \in Texts /\ Len(Lossy(chunk)) = l
       /\ \A i \in 1..l : Lossy(chunk)[i] = IF Intact(chunk, i, {}) THEN chunk[i] ELSE "lost"
  BY <1>2, DecodedOK DEF Lossy
<1>11. /\ Shown' \in Texts /\ Len(Shown') = m + l
       /\ \A i \in 1..(m + l) : Shown'[i] = IF Intact(fed', i, ends') THEN fed'[i] ELSE "lost"
  <2>1. Shown' = Decoded(fed', ends')
    BY DEF Shown, Decoded, Intact
  <2>. QED
    BY <1>5, <2>1, DecodedOK
<1>. DEFINE c == Shown \o Lossy(chunk)
<1>12. /\ c \in Texts /\ Len(c) = m + l
       /\ \A i \in 1..m : c[i] = Shown[i]
       /\ \A i \in 1..l : c[m + i] = Lossy(chunk)[i]
  BY <1>9, <1>10 DEF Texts
<1>13. ASSUME NEW i \in 1..(m + l) PROVE Shown'[i] = c[i]
  <2>. HIDE DEF c
  <2>1. CASE i <= m
    <3>1. i \in 1..m
      BY <2>1
    <3>. QED
      BY <1>5, <1>7, <1>9, <1>11, <1>12, <3>1
  <2>2. CASE i > m
    <3>1. PICK k \in 1..l : i = m + k
      BY <2>2
    <3>. QED
      BY <1>5, <1>8, <1>10, <1>11, <1>12, <3>1
  <2>. QED
    BY <2>1, <2>2
<1>14. Shown' = c
  <2>. HIDE DEF c
  <2>1. Len(Shown') = Len(c) /\ \A i \in 1..Len(Shown') : Shown'[i] = c[i]
    BY <1>11, <1>12, <1>13
  <2>. QED
    BY <1>11, <1>12, <2>1, SeqEqual DEF Texts
<1>. QED
  BY <1>6, <1>9, <1>10, <1>14 DEF Cat

(* What is pending holds no terminator; lines and what is pending are what *)
(* a reader of the whole output has, the lines up to those that broke off. *)
SplitInv ==
  /\ FedInv /\ Shown \in Texts /\ splitLines \in Lines /\ pendingText \in Texts
  /\ \A j \in 1..Len(pendingText) : pendingText[j] \notin Terminators
  /\ Cat(Read(Shown).text, Joined(splitLines), pendingText)
  /\ Read(Shown).longest <= PartialCap =>
       /\ Filled(splitLines) = Read(Shown).lines /\ pendingText = Read(Shown).open
       /\ Len(splitLines) >= Read(Shown).breaks

LEMMA SplitInitOK == ASSUME SplitInit PROVE SplitInv
<1>1. /\ fed = <<>> /\ ends = {} /\ splitLines = <<>> /\ pendingText = <<>>
      /\ <<>> \in Texts /\ <<>> \in Lines /\ Len(<<>>) = 0
  BY DEF SplitInit, Texts, Lines
<1>4. Shown = <<>> /\ FedInv
  <2>1. <<>> \in Outputs
    BY DEF Outputs
  <2>2. Decoded(<<>>, ends) = <<>>
    BY DEF Decoded
  <2>. QED
    BY <1>1, <2>1, <2>2 DEF FedInv, Shown
<1>2. Read(<<>>) = Afresh
  <2>1. PICK n \in Nat : n = Len(<<>>)
    OBVIOUS
  <2>2. PICK w : Reads(w, <<>>, n) /\ Read(<<>>) = w[n]
    BY <1>1, <2>1, ReadIsRow
  <2>. QED
    BY <1>1, <2>1, <2>2 DEF Reads
<1>3. Cat(<<>>, <<>>, <<>>)
  BY <1>1, CatNone DEF Texts
<1>. QED
  BY <1>1, <1>2, <1>3, <1>4, JoinedOK, FilledOK DEF SplitInv, Afresh

LEMMA IngestOK ==
  ASSUME SplitInv, NEW chunk \in Outputs, chunk # <<>>, Ingest(chunk) PROVE SplitInv'
<1>. DEFINE t == pendingText \o Lossy(chunk)
            cut == Cut(t)
            all == splitLines \o cut.out
            old == Read(Shown)
            new == Read(Shown')
            here == Read(t)
<1>1. /\ splitLines \in Lines /\ pendingText \in Texts
      /\ \A j \in 1..Len(pendingText) : pendingText[j] \notin Terminators
      /\ Cat(old.text, Joined(splitLines), pendingText)
      /\ old.longest <= PartialCap =>
           /\ Filled(splitLines) = old.lines /\ pendingText = old.open /\ Len(splitLines) >= old.breaks
  BY DEF SplitInv
<1>0. FedInv' /\ Shown \in Texts /\ Lossy(chunk) \in Texts /\ Cat(Shown', Shown, Lossy(chunk))
  BY ShownGrows DEF SplitInv
<1>2. Cat(t, pendingText, Lossy(chunk)) /\ Cat(all, splitLines, cut.out)
  BY DEF Ingest, Cat
<1>3. \/ Size(cut.rest) <= PartialCap /\ pendingText' = cut.rest /\ splitLines' = all
      \/ Size(cut.rest) > PartialCap /\ pendingText' = <<>> /\ More(splitLines', all, cut.rest)
  BY DEF Ingest, More
<1>. HIDE DEF t
<1>4. Joined(splitLines) \in Texts
  BY <1>1, JoinedOK
<1>5. /\ Shown' \in Texts /\ t \in Texts /\ Cat(new.text, Joined(splitLines), here.text)
      /\ old.longest <= new.longest
      /\ old.open = pendingText => Behind(new, here, old.lines, old.breaks)
  BY <1>0, <1>1, <1>2, <1>4, ReadAlong
<1>6. CutIs(cut, here)
  <2>1. PICK n \in Nat : n = Len(t)
    BY <1>5 DEF Texts
  <2>2. PICK w : Reads(w, t, n) /\ here = w[n]
    BY <1>5, <2>1, ReadIsRow
  <2>. QED
    BY <1>5, <2>1, <2>2, CutReads
<1>7. old \in Readings /\ new \in Readings /\ here \in Readings /\ Reached(new)
  BY <1>0, <1>1, <1>5, ReadOK, LongestRead
<1>. HIDE DEF cut, old, new, here, all
<1>8. cut.out \in Lines /\ cut.rest \in Texts
  BY <1>6 DEF CutIs, Pieces
<1>9. all \in Lines /\ Cat(Joined(all), Joined(splitLines), Joined(cut.out))
  BY <1>1, <1>2, <1>8, JoinedCat
<1>10. Cat(new.text, Joined(all), cut.rest)
  <2>1. Cat(here.text, Joined(cut.out), cut.rest)
    BY <1>6 DEF CutIs
  <2>2. Joined(cut.out) \in Texts
    BY <1>8, JoinedOK
  <2>. QED
    BY <1>4, <1>5, <1>8, <1>9, <2>1, <2>2, CatCat DEF Texts
<1>11. ASSUME new.longest <= PartialCap
       PROVE  /\ Filled(all) = new.lines /\ cut.rest = new.open /\ Len(all) >= new.breaks
              /\ Size(cut.rest) <= PartialCap
  <2>1. new.longest \in Nat /\ old.longest \in Nat /\ new.breaks \in Nat /\ old.breaks \in Nat /\ here.breaks \in Nat
    BY <1>7 DEF Readings
  <2>2. Filled(splitLines) = old.lines /\ pendingText = old.open /\ Len(splitLines) >= old.breaks
    BY <1>1, <1>5, <1>11, <2>1, SplitAssumption
  <2>3. Behind(new, here, old.lines, old.breaks)
    BY <1>5, <2>2
  <2>4. Cat(Filled(all), Filled(splitLines), Filled(cut.out))
    BY <1>1, <1>2, <1>8, FilledCat
  <2>5. Filled(all) = new.lines
    BY <1>6, <2>2, <2>3, <2>4 DEF CutIs, Behind, Cat
  <2>6. cut.rest = new.open
    BY <1>6, <2>3 DEF CutIs, Behind
  <2>7. Len(all) >= new.breaks
    <3>1. Len(all) = Len(splitLines) + Len(cut.out) /\ Len(splitLines) \in Nat /\ Len(cut.out) \in Nat
      BY <1>1, <1>2, <1>8, ConcatProperties DEF Cat, Lines
    <3>. QED
      BY <1>6, <2>1, <2>2, <2>3, <3>1 DEF CutIs, Behind
  <2>8. Size(cut.rest) <= PartialCap
    <3>1. Size(cut.rest) \in Nat /\ Size(cut.rest) <= new.longest
      BY <1>7, <1>8, <2>6, SizeOK DEF Reached
    <3>. QED
      BY <1>11, <2>1, <3>1, SplitAssumption
  <2>. QED
    BY <2>5, <2>6, <2>7, <2>8
<1>12. CASE Size(cut.rest) <= PartialCap /\ pendingText' = cut.rest /\ splitLines' = all
  <2>1. \A j \in 1..Len(cut.rest) : cut.rest[j] \notin Terminators
    BY <1>6 DEF CutIs
  <2>. QED
    BY <1>0, <1>5, <1>8, <1>9, <1>10, <1>11, <1>12, <2>1 DEF SplitInv, new
<1>13. CASE Size(cut.rest) > PartialCap /\ pendingText' = <<>> /\ More(splitLines', all, cut.rest)
  <2>1. splitLines' \in Lines /\ Cat(Joined(splitLines'), Joined(all), cut.rest)
    BY <1>8, <1>9, <1>13, JoinedMore
  <2>2. Joined(splitLines') = new.text /\ new.text \in Texts
    BY <1>7, <1>10, <2>1 DEF Cat, Readings
  <2>3. Cat(new.text, Joined(splitLines'), <<>>)
    BY <2>2, CatNone DEF Texts
  <2>4. ~(new.longest <= PartialCap)
    <3>1. Size(cut.rest) \in Nat
      BY <1>8, SizeOK
    <3>. QED
      BY <1>11, <1>13, <3>1, SplitAssumption
  <2>5. <<>> \in Texts /\ Len(<<>>) = 0
    BY DEF Texts
  <2>. QED
    BY <1>0, <1>5, <1>13, <2>1, <2>3, <2>4, <2>5 DEF SplitInv, new
<1>. QED
  BY <1>3, <1>12, <1>13

(* However the output is chunked, nothing is lost, doubled or moved but a  *)
(* character cut in two by an end of a chunk, whose bytes are replaced     *)
(* where they stand, and the lines are those of a reader of all of it,     *)
(* with nothing but empty lines besides, unless a run outgrew the cap      *)
(* (runtime.rs:70, capture.rs:74).                                         *)
THEOREM LinesStayFaithful == SplitSpec => []LinesAreFaithful
<1>1. SplitInit => SplitInv
  BY SplitInitOK
<1>2. SplitInv /\ [SplitNext]_splitVars => SplitInv'
  <2>1. ASSUME SplitInv, SplitNext PROVE SplitInv'
    <3>1. PICK n \in 1..MaxChunkLen : \E chunk \in [1..n -> Bytes] : Ingest(chunk)
      BY <2>1 DEF SplitNext
    <3>2. PICK chunk \in [1..n -> Bytes] : Ingest(chunk)
      BY <3>1
    <3>3. chunk \in Outputs /\ chunk # <<>>
      BY SplitAssumption DEF Outputs
    <3>. QED
      BY <2>1, <3>2, <3>3, IngestOK
  <2>2. ASSUME SplitInv, UNCHANGED splitVars PROVE SplitInv'
    BY <2>2 DEF SplitInv, splitVars, FedInv, Shown, Decoded, Intact
  <2>. QED
    BY <2>1, <2>2
<1>3. SplitInv => LinesAreFaithful
  BY DEF SplitInv, LinesAreFaithful, Cat
<1>. QED
  BY <1>1, <1>2, <1>3, PTL DEF SplitSpec

=============================================================================
