--------------------------- MODULE OutputCapture ---------------------------
(***************************************************************************)
(* The bounded capture of one provider's output (memmux-pty): every line   *)
(* passes the governor (rate sampling, artifact quota), is truncated when  *)
(* oversized, and enters a ring buffer that collapses repeated lines and   *)
(* evicts its oldest entries.  The daemon's pump drains what was evicted.  *)
(***************************************************************************)
EXTENDS Integers, Sequences, SequencesExt

CONSTANTS
  MaxLines, MaxBytes,   \* RingCaps
  MaxLineBytes,         \* the per-line cap above which a line is truncated
  ArtifactQuota,                \* max_log_artifact_bytes
  RateThreshold,        \* sample_above_lines_per_sec
  SampleRatio,          \* keep one of so many lines when sampling
  RateWindow,               \* the rate window (1000 ms), in clock ticks
  OutputLines,                \* the lines a provider may print: [text, bytes]
  ClockReadings,                \* what the wall clock may read; it may step back
  MaxIngested               \* bound: how many lines are ever printed

ASSUME CaptureCapsAssumption ==
  /\ MaxLines \in Nat /\ MaxBytes \in Nat /\ MaxLineBytes \in Nat
  /\ ArtifactQuota \in Nat /\ RateThreshold \in Nat /\ SampleRatio \in Nat
  /\ RateWindow \in Nat \ {0}
ASSUME CaptureInputAssumption ==
  /\ \A l \in OutputLines : l.bytes \in Nat
  /\ ClockReadings \subseteq Nat /\ MaxIngested \in Nat

VARIABLES
  lines,          \* BoundedBuffer: the resident entries, oldest first
  residentBytes,  \* its running byte count
  totalIngested,  \* its count of lines ever pushed
  evicted,        \* entries evicted since the last drain
  governor,       \* OutputGovernor
  events,         \* governance breaches, with the window they belong to
  artifacts,      \* sizes of the oversized lines kept for a disk artifact
  ingested,           \* how many lines the provider printed
  spilled         \* terminal rows handed to the chunk store so far

captureVars == <<lines, residentBytes, totalIngested, evicted, governor, events, artifacts,
          ingested, spilled>>

LineOverhead == 24
ArtifactRefBytes == 5

(* Size of an entry with a payload of n bytes.                             *)
EntryBytes(n) == n + LineOverhead

Entry == [kind : {"Text", "Repeated", "Truncated"}, text : STRING, rows : Nat \ {0}, bytes : Nat]

CaptureTypeOK ==
  /\ lines \in Seq(Entry) /\ evicted \in Seq(Entry)
  /\ residentBytes \in Nat /\ totalIngested \in Nat
  /\ governor \in [windowStart : Nat, linesThisWindow : Nat, linesSinceSample : Nat,
                   artifactBytes : Nat, rateActive : BOOLEAN, quotaBreached : BOOLEAN]
  /\ events \in Seq({"RateSampling", "ArtifactQuota"} \X Nat)
  /\ artifacts \in Seq(Nat)
  /\ ingested \in 0..MaxIngested /\ spilled \in Nat

CaptureInit ==
  /\ lines = <<>> /\ evicted = <<>> /\ residentBytes = 0 /\ totalIngested = 0
  /\ governor = [windowStart |-> 0, linesThisWindow |-> 0, linesSinceSample |-> 0,
                 artifactBytes |-> 0, rateActive |-> FALSE, quotaBreached |-> FALSE]
  /\ events = <<>> /\ artifacts = <<>> /\ ingested = 0 /\ spilled = 0

SumBytes(entries) == FoldLeft(LAMBDA n, e : n + e.bytes, 0, entries)
SumRows(entries)  == FoldLeft(LAMBDA n, e : n + e.rows, 0, entries)

-----------------------------------------------------------------------------
(* The governor.                                                           *)

(* The window slides after a second; a clock that steps back never slides  *)
(* it (saturating_sub).                                                    *)
Slide(g, now) ==
  IF now - g.windowStart >= RateWindow
  THEN [g EXCEPT !.windowStart = now, !.linesThisWindow = 0, !.rateActive = FALSE]
  ELSE g

Counted(now) == [Slide(governor, now) EXCEPT !.linesThisWindow = @ + 1]

(* Refuses only once the quota is already used up.                         *)
OverQuotaLate(g, bytes) == g.artifactBytes >= ArtifactQuota

OverQuota(g, bytes) == g.artifactBytes + bytes > ArtifactQuota
OverRate(g)         == g.linesThisWindow > RateThreshold
NthSinceSample(g)   ==
  (g.linesSinceSample + 1) % (IF SampleRatio = 0 THEN 1 ELSE SampleRatio) = 0

(* A breach is announced once: the quota for good, the rate once a window. *)
AnnounceQuota(g) ==
  events' = IF g.quotaBreached THEN events ELSE Append(events, <<"ArtifactQuota", g.windowStart>>)
(* Announces a breach of the rate the first time only.                     *)
AnnounceRateOnce(g) ==
  events' = IF g.rateActive \/ \E i \in DOMAIN events : events[i][1] = "RateSampling"
            THEN events ELSE Append(events, <<"RateSampling", g.windowStart>>)

AnnounceRate(g) ==
  events' = IF g.rateActive THEN events ELSE Append(events, <<"RateSampling", g.windowStart>>)

-----------------------------------------------------------------------------
(* The ring.                                                               *)

(* Looks at the line cap alone.                                            *)
EvictableByLines(entries, bytes, k) == Len(entries) - k <= MaxLines

(* enforce_caps: the fewest oldest entries whose eviction satisfies both   *)
(* caps; the byte cap never evicts the last entry.                         *)
Evictable(entries, bytes, k) ==
  /\ Len(entries) - k <= MaxLines
  /\ \/ bytes - SumBytes(SubSeq(entries, 1, k)) <= MaxBytes
     \/ Len(entries) - k <= 1

EnforceCaps(entries, bytes) ==
  LET k == CHOOSE k \in 0..Len(entries) :
             /\ Evictable(entries, bytes, k)
             /\ \A j \in 0..(k - 1) : ~Evictable(entries, bytes, j)
      out == SubSeq(entries, 1, k)
  IN  /\ lines' = SubSeq(entries, k + 1, Len(entries))
      /\ residentBytes' = bytes - SumBytes(out)
      /\ evicted' = evicted \o out

(* A text line folds into an equal last entry; a truncated one never does. *)
Collapses(entry) ==
  /\ entry.kind # "Truncated"
  /\ lines # <<>> /\ Last(lines).kind # "Truncated" /\ Last(lines).text = entry.text

(* The entry after one more line equal to it.                              *)
Repeated(entry) == [entry EXCEPT !.kind = "Repeated", !.rows = @ + 1]

Push(entry) ==
  /\ totalIngested' = totalIngested + 1
  /\ \/ /\ Collapses(entry)
        /\ lines' = [lines EXCEPT ![Len(lines)] = Repeated(@)]
        /\ UNCHANGED <<residentBytes, evicted>>
     \/ /\ ~Collapses(entry)
        /\ EnforceCaps(Append(lines, entry), residentBytes + entry.bytes)

(* truncate_line: the head ends on a character boundary, so it may be up   *)
(* to three bytes shorter than the cap; the full line becomes an artifact. *)
TruncateAndPush(line) ==
  \/ /\ line.bytes <= MaxLineBytes
     /\ Push([kind |-> "Text", text |-> line.text, rows |-> 1, bytes |-> EntryBytes(line.bytes)])
     /\ UNCHANGED artifacts
  \/ /\ line.bytes > MaxLineBytes
     /\ \E short \in 0..3 :
          LET cap == IF MaxLineBytes = 0 THEN 1 ELSE MaxLineBytes IN
          /\ short <= cap
          /\ Push([kind |-> "Truncated", text |-> line.text, rows |-> 1,
                   bytes |-> EntryBytes(cap - short + ArtifactRefBytes)])
     /\ artifacts' = Append(artifacts, line.bytes)

-----------------------------------------------------------------------------
(* ingest_line: govern the line, then store it, sample it out, or drop it. *)

Arrives == ingested < MaxIngested /\ ingested' = ingested + 1

DropOverQuota(line, now) ==
  LET g == Counted(now) IN
  /\ Arrives
  /\ OverQuota(g, line.bytes)
  /\ governor' = [g EXCEPT !.quotaBreached = TRUE]
  /\ AnnounceQuota(g)
  /\ UNCHANGED <<lines, residentBytes, totalIngested, evicted, artifacts, spilled>>

SampleOut(line, now) ==
  LET g == Counted(now) IN
  /\ Arrives
  /\ ~OverQuota(g, line.bytes) /\ OverRate(g) /\ ~NthSinceSample(g)
  /\ governor' = [g EXCEPT !.linesSinceSample = @ + 1, !.rateActive = TRUE]
  /\ AnnounceRate(g)
  /\ UNCHANGED <<lines, residentBytes, totalIngested, evicted, artifacts, spilled>>

StoreSampled(line, now) ==
  LET g == Counted(now) IN
  /\ Arrives
  /\ ~OverQuota(g, line.bytes) /\ OverRate(g) /\ NthSinceSample(g)
  /\ governor' = [g EXCEPT !.linesSinceSample = @ + 1, !.rateActive = TRUE,
                           !.artifactBytes = @ + line.bytes]
  /\ AnnounceRate(g)
  /\ TruncateAndPush(line)
  /\ UNCHANGED spilled

Store(line, now) ==
  LET g == Counted(now) IN
  /\ Arrives
  /\ ~OverQuota(g, line.bytes) /\ ~OverRate(g)
  /\ governor' = [g EXCEPT !.artifactBytes = @ + line.bytes]
  /\ TruncateAndPush(line)
  /\ UNCHANGED <<events, spilled>>

(* RuntimeInstance::take_evicted, from the pump: the evicted entries go to *)
(* the chunk store.  Nothing in the daemon drains artifacts or events.     *)
TakeEvicted ==
  /\ evicted # <<>>
  /\ spilled' = spilled + SumRows(evicted)
  /\ evicted' = <<>>
  /\ UNCHANGED <<lines, residentBytes, totalIngested, governor, events, artifacts, ingested>>

IngestLine(line, now) ==
  \/ DropOverQuota(line, now)
  \/ SampleOut(line, now)
  \/ StoreSampled(line, now)
  \/ Store(line, now)

CaptureNext ==
  \/ \E line \in OutputLines, now \in ClockReadings : IngestLine(line, now)
  \/ TakeEvicted

CaptureSpec == CaptureInit /\ [][CaptureNext]_captureVars

-----------------------------------------------------------------------------
(* Safety.                                                                 *)

(* The resident window obeys both caps whatever was printed: the entry     *)
(* count always, the bytes unless a single entry exceeds them alone.  The  *)
(* bytes are those really there, not the running count eviction goes by.   *)
CapsHold ==
  /\ Len(lines) <= MaxLines
  /\ SumBytes(lines) <= MaxBytes \/ Len(lines) <= 1

(* Every stored line is still accounted for: rows in the ring, rows        *)
(* awaiting the chunk store, rows handed to it.                            *)
RowsAreConserved == totalIngested = SumRows(lines) + SumRows(evicted) + spilled

(* What was persisted never exceeds the quota, sampled or not.             *)
QuotaIsKept == governor.artifactBytes <= ArtifactQuota

(* What of the output is kept stays within its bounds and adds up, however *)
(* lines repeat, overflow and are evicted (ring.rs:57).                    *)
CaptureIsAccounted == CapsHold /\ RowsAreConserved /\ QuotaIsKept

(* A line is never dropped in silence: whenever one is, a breach of the    *)
(* quota, or of the rate in the very window of the line, is on record.     *)
DropsAreAnnounced ==
  [][(ingested' # ingested /\ totalIngested' = totalIngested) =>
       \E i \in DOMAIN events' :
          \/ events'[i][1] = "ArtifactQuota"
          \/ events'[i] = <<"RateSampling", governor'.windowStart>>]_captureVars

=============================================================================
