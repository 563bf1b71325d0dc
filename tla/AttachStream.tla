---------------------------- MODULE AttachStream ----------------------------
(***************************************************************************)
(* From a provider's terminal to the attached clients and back: the reader *)
(* thread of the PTY session, the pump that tees output for an attach, and *)
(* one attach loop per client that drains the tee on a tick and reads the  *)
(* client's frames in between.  Output is counted in chunks, numbered in   *)
(* the order the provider prints them.  Whoever drops a session waits for  *)
(* its reader thread, under the mutex that every attach loop needs, and    *)
(* the reader reads until nobody holds the terminal.                       *)
(***************************************************************************)
EXTENDS Integers, Sequences, FiniteSets

CONSTANTS
  Clients,       \* the clients that may attach to the task
  BufferCap,     \* ATTACH_BUF_CAP, in chunks
  MaxChunks,     \* bound: chunks ever printed
  MaxLaunches,   \* bound: providers ever launched for the task
  Typists,       \* bound: the clients that send frames
  MaxFrames      \* bound: frames a client sends

ASSUME AttachAssumption ==
  /\ BufferCap \in Nat /\ MaxChunks \in Nat /\ MaxLaunches \in Nat /\ MaxFrames \in Nat
  /\ Typists \subseteq Clients

VARIABLES
  provider,    \* "running" or "exited"
  printed,     \* chunks printed so far
  tty,         \* printed, not yet read by the session's reader thread
  channel,     \* read, not yet pumped
  runtime,     \* "live" or "gone": whether the daemon still holds the instance
  launch,      \* which launch of the provider the instance belongs to
  attached,    \* RuntimeInstance::attached
  attachBuf,   \* RuntimeInstance::attach_buf
  pumped,      \* the chunks the pump has drained, in order
  joining,     \* whether the holder of the mutex waits for a reader thread
  overflowed,  \* the clients for which the tee dropped its oldest chunks
  client,      \* per client: the phase of its attach loop, and what it was sent
  wire,        \* per client: frame parts sent and not yet read by the daemon
  frames       \* per client: frames sent, one half sent, frames forwarded

providerVars == <<provider, printed, tty>>
runtimeVars  == <<channel, runtime, launch, attached, attachBuf, pumped, joining>>
attachVars   == <<providerVars, runtimeVars, overflowed, client, wire, frames>>

Phases == {"idle", "streaming", "ending", "ended"}

AttachTypeOK ==
  /\ provider \in {"running", "exited"} /\ printed \in 0..MaxChunks
  /\ tty \in Seq(Nat) /\ channel \in Seq(Nat) /\ attachBuf \in Seq(Nat)
  /\ runtime \in {"live", "gone"} /\ launch \in Nat /\ attached \in BOOLEAN
  /\ pumped \in Seq(Nat) /\ joining \in BOOLEAN
  /\ overflowed \subseteq Clients
  /\ client \in [Clients -> [phase : Phases, got : Seq(Nat), begun : Nat, since : Nat]]
  /\ wire \in [Clients -> Seq({"header", "body"})]
  /\ frames \in [Clients -> [sent : Nat, halfway : BOOLEAN, forwarded : Nat]]

AttachInit ==
  /\ provider = "running" /\ printed = 0 /\ tty = <<>> /\ joining = FALSE
  /\ channel = <<>> /\ runtime = "live" /\ launch = 1
  /\ attached = FALSE /\ attachBuf = <<>> /\ pumped = <<>> /\ overflowed = {}
  /\ client = [c \in Clients |-> [phase |-> "idle", got |-> <<>>, begun |-> 0, since |-> 0]]
  /\ wire = [c \in Clients |-> <<>>]
  /\ frames = [c \in Clients |-> [sent |-> 0, halfway |-> FALSE, forwarded |-> 0]]

Streaming == {c \in Clients : client[c].phase = "streaming"}

-----------------------------------------------------------------------------
(* The provider and the reader thread of its session.                      *)

PrintChunk ==
  /\ provider = "running" /\ printed < MaxChunks
  /\ printed' = printed + 1 /\ tty' = Append(tty, printed + 1)
  /\ UNCHANGED <<provider, runtimeVars, overflowed, client, wire, frames>>

ProviderExits ==
  /\ provider = "running" /\ provider' = "exited"
  /\ UNCHANGED <<printed, tty, runtimeVars, overflowed, client, wire, frames>>

ReadTty ==
  /\ runtime = "live" /\ tty # <<>>
  /\ channel' = Append(channel, Head(tty)) /\ tty' = Tail(tty)
  /\ UNCHANGED <<provider, printed, runtime, launch, attached, attachBuf, pumped,
                 joining, overflowed, client, wire, frames>>

-----------------------------------------------------------------------------
(* The daemon's pump and whatever replaces the instance.                   *)

(* Keeps the newest BufferCap chunks.                                      *)
Teed == LET all == attachBuf \o channel IN
  IF Len(all) > BufferCap THEN SubSeq(all, Len(all) - BufferCap + 1, Len(all)) ELSE all

(* An instance dropped from the map takes what it still buffers with it.   *)
Dropped == channel' = <<>> /\ tty' = <<>> /\ attached' = FALSE /\ attachBuf' = <<>>

(* PtySession::drop waits for the reader, which reads until nobody holds   *)
(* the terminal; whoever drops an instance may have to wait (joining' is   *)
(* TRUE), with the mutex that everybody else needs, until this happens.    *)
JoinReader ==
  /\ joining /\ joining' = FALSE
  /\ UNCHANGED <<providerVars, channel, runtime, launch, attached, attachBuf, pumped, overflowed,
                 client, wire, frames>>

Pump ==
  /\ ~joining /\ runtime = "live" /\ provider = "running" /\ channel # <<>>
  /\ pumped' = pumped \o channel /\ channel' = <<>>
  /\ attachBuf' = IF attached THEN Teed ELSE attachBuf
  /\ overflowed' = IF attached /\ Len(attachBuf \o channel) > BufferCap
                   THEN overflowed \cup Streaming ELSE overflowed
  /\ UNCHANGED <<providerVars, runtime, launch, attached, joining, client, wire, frames>>

(* Keeps a dead provider as long as it was never attached to.              *)
PumpRetiresUnattached ==
  /\ ~joining /\ runtime = "live" /\ provider = "exited" /\ ~attached
  /\ pumped' = pumped \o channel /\ runtime' = "gone"
  /\ Dropped /\ joining' \in BOOLEAN
  /\ UNCHANGED <<provider, printed, launch, overflowed, client, wire, frames>>

(* The provider has exited: the pump retires the instance in the same call. *)
PumpRetires ==
  /\ ~joining /\ runtime = "live" /\ provider = "exited"
  /\ pumped' = pumped \o channel /\ runtime' = "gone"
  /\ Dropped /\ joining' \in BOOLEAN
  /\ UNCHANGED <<provider, printed, launch, overflowed, client, wire, frames>>

(* Hibernate, terminate, and a recycle whose join has to wait: the         *)
(* provider is stopped and its instance dropped, without a last drain.     *)
StopInstance ==
  /\ ~joining /\ runtime = "live"
  /\ provider' = "exited" /\ runtime' = "gone"
  /\ Dropped /\ joining' \in BOOLEAN
  /\ UNCHANGED <<printed, launch, pumped, overflowed, client, wire, frames>>

(* Recycle, resume, restart: a new instance, not attached, after the old   *)
(* one's reader has ended.                                                 *)
Relaunch ==
  /\ ~joining /\ launch < MaxLaunches
  /\ launch' = launch + 1 /\ runtime' = "live" /\ provider' = "running"
  /\ Dropped
  /\ UNCHANGED <<printed, pumped, joining, overflowed, client, wire, frames>>

-----------------------------------------------------------------------------
(* The attach loop of one client.                                          *)

(* set_attached clears the tee, whoever it was buffered for.               *)
SetAttached(value) ==
  IF runtime = "live" THEN attached' = value /\ attachBuf' = <<>> ELSE UNCHANGED <<attached, attachBuf>>

AttachBegin(c) ==
  /\ ~joining /\ client[c].phase = "idle"
  /\ SetAttached(TRUE)
  /\ client' = [client EXCEPT ![c].phase = "streaming", ![c].since = Len(pumped),
                              ![c].begun = IF runtime = "live" THEN launch ELSE 0]
  /\ UNCHANGED <<providerVars, channel, runtime, launch, pumped, joining, overflowed, wire, frames>>

(* A client writes a frame's header and its body separately.               *)
SendHeader(c) ==
  /\ c \in Typists /\ client[c].phase = "streaming" /\ ~frames[c].halfway /\ frames[c].sent < MaxFrames
  /\ wire' = [wire EXCEPT ![c] = Append(@, "header")]
  /\ frames' = [frames EXCEPT ![c].halfway = TRUE]
  /\ UNCHANGED <<providerVars, runtimeVars, overflowed, client>>

SendBody(c) ==
  /\ client[c].phase = "streaming" /\ frames[c].halfway
  /\ wire' = [wire EXCEPT ![c] = Append(@, "body")]
  /\ frames' = [frames EXCEPT ![c].halfway = FALSE, ![c].sent = @ + 1]
  /\ UNCHANGED <<providerVars, runtimeVars, overflowed, client>>

FrameReady(c)  == Len(wire[c]) >= 2 /\ wire[c][1] = "header"
Misaligned(c)  == wire[c] # <<>> /\ wire[c][1] = "body"

(* A whole frame: input or a resize, forwarded to the PTY if there is one.  *)
ReadFrame(c) ==
  /\ ~joining /\ client[c].phase = "streaming" /\ FrameReady(c)
  /\ wire' = [wire EXCEPT ![c] = SubSeq(@, 3, Len(@))]
  /\ frames' = [frames EXCEPT ![c].forwarded = @ + 1]
  /\ UNCHANGED <<providerVars, runtimeVars, overflowed, client>>

(* Takes a body without a header for one more malformed frame.             *)
ReadGarbageSkipping(c) ==
  /\ client[c].phase = "streaming" /\ Misaligned(c)
  /\ wire' = [wire EXCEPT ![c] = Tail(@)]
  /\ UNCHANGED <<providerVars, runtimeVars, overflowed, client, frames>>

(* A body where a header is expected: its first four characters read as a  *)
(* length far above the limit, and the error ends the loop.                *)
ReadGarbage(c) ==
  /\ client[c].phase = "streaming" /\ Misaligned(c)
  /\ client' = [client EXCEPT ![c].phase = "ending"]
  /\ UNCHANGED <<providerVars, runtimeVars, overflowed, wire, frames>>

(* A Detach frame, or the end of the client's stream.                      *)
Detach(c) ==
  /\ client[c].phase = "streaming" /\ ~FrameReady(c) /\ ~Misaligned(c)
  /\ client' = [client EXCEPT ![c].phase = "ending"]
  /\ UNCHANGED <<providerVars, runtimeVars, overflowed, wire, frames>>

(* Sends without taking: the tee is only read.                             *)
TickCopying(c) ==
  /\ ~joining /\ client[c].phase = "streaming" /\ ~FrameReady(c) /\ ~Misaligned(c)
  /\ wire' = [wire EXCEPT ![c] = <<>>]
  /\ client' = [client EXCEPT ![c].got = @ \o attachBuf,
                 ![c].phase = IF runtime = "gone" THEN "ending" ELSE @]
  /\ UNCHANGED <<providerVars, runtimeVars, overflowed, frames>>

(* The frame timer fires while no whole frame is waiting: select! drops the *)
(* pending read_frame together with the part of a frame it had consumed,   *)
(* sends what was teed, and ends the loop when the task has no runtime.     *)
Tick(c) ==
  /\ ~joining /\ client[c].phase = "streaming" /\ ~FrameReady(c) /\ ~Misaligned(c)
  /\ wire' = [wire EXCEPT ![c] = <<>>]
  /\ client' = [client EXCEPT ![c].got = @ \o attachBuf,
                 ![c].phase = IF runtime = "gone" THEN "ending" ELSE @]
  /\ attachBuf' = <<>>
  /\ UNCHANGED <<providerVars, channel, runtime, launch, attached, pumped, joining, overflowed,
                 frames>>

(* attach_end, after the loop and under a lock of its own; the connection  *)
(* closes with what is still in it.                                        *)
AttachEnd(c) ==
  /\ ~joining /\ client[c].phase = "ending"
  /\ SetAttached(FALSE)
  /\ client' = [client EXCEPT ![c].phase = "ended"]
  /\ wire' = [wire EXCEPT ![c] = <<>>]
  /\ frames' = [frames EXCEPT ![c] = [sent |-> 0, halfway |-> FALSE, forwarded |-> 0]]
  /\ UNCHANGED <<providerVars, channel, runtime, launch, pumped, joining, overflowed>>

AttachNext ==
  \/ PrintChunk \/ ProviderExits \/ ReadTty
  \/ Pump \/ PumpRetires \/ StopInstance \/ JoinReader \/ Relaunch
  \/ \E c \in Clients :
       \/ AttachBegin(c) \/ SendHeader(c) \/ SendBody(c) \/ ReadFrame(c) \/ ReadGarbage(c)
       \/ Detach(c) \/ Tick(c) \/ AttachEnd(c)

AttachSpec == AttachInit /\ [][AttachNext]_attachVars

(* The pump's timer, the frame timer of an attach loop, and a loop that    *)
(* goes on once something is there for it: the runtime polls all of them.  *)
(* JoinReader is up to whoever holds the terminal.                         *)
AttachFairness ==
  /\ WF_attachVars(Pump \/ PumpRetires)
  /\ \A c \in Clients :
       WF_attachVars(ReadFrame(c) \/ ReadGarbage(c) \/ Tick(c)) /\ WF_attachVars(AttachEnd(c))

-----------------------------------------------------------------------------
(* Properties.                                                             *)

Increasing(s) == \A i \in 1..(Len(s) - 1) : s[i] < s[i + 1]

(* Output reaches the clients in the order it was printed, and no chunk    *)
(* reaches anybody twice, however attaches overlap and providers change.   *)
DeliveredOnce ==
  /\ \A c \in Clients : Increasing(client[c].got \o attachBuf \o channel)
  /\ \A c, d \in Clients : c # d =>
       {client[c].got[i] : i \in DOMAIN client[c].got}
         \cap {client[d].got[i] : i \in DOMAIN client[d].got} = {}

(* A client that is the only one ever to attach, to one provider and with  *)
(* a tee that never overflowed, misses nothing: what it was sent and what  *)
(* is buffered for it are all the chunks pumped since it attached.         *)
AloneMissesNothing ==
  \A c \in Streaming :
    (/\ \A d \in Clients \ {c} : client[d].phase = "idle"
     /\ runtime = "live" /\ launch = client[c].begun /\ c \notin overflowed)
      => client[c].got \o attachBuf = SubSeq(pumped, client[c].since + 1, Len(pumped))

(* Once its provider is gone too, what such a client has been sent is how  *)
(* the output since its attach begins (server.rs:128): it never gets what  *)
(* the last pump drained, but nothing is missing before that.              *)
OnlyTheEndIsLost ==
  \A c \in Clients :
    (/\ \A d \in Clients \ {c} : client[d].phase = "idle"
     /\ launch = client[c].begun /\ c \notin overflowed)
      => \A i \in DOMAIN client[c].got :
           /\ client[c].since + i \in DOMAIN pumped
           /\ client[c].got[i] = pumped[client[c].since + i]

(* A client that streams from a live provider without a tee (it will see   *)
(* nothing more) lost it in one of two ways: the provider was replaced, or *)
(* another client's attach ended.                                          *)
TeeLossIsExplained ==
  \A c \in Streaming : (runtime = "live" /\ ~attached) =>
    \/ launch # client[c].begun
    \/ \E d \in Clients \ {c} : client[d].phase = "ended"

(* Whatever attaches and providers come and go (daemon.rs:1817), the tee   *)
(* neither repeats nor reorders, a client alone misses nothing but the end *)
(* of a provider's output, and one whose tee has gone has somebody to      *)
(* blame for it.                                                           *)
StreamIsFaithful ==
  DeliveredOnce /\ AloneMissesNothing /\ OnlyTheEndIsLost /\ TeeLossIsExplained

(* A frame torn by the timer is never swallowed in silence: as long as the *)
(* stream is aligned every frame sent was forwarded or is still on the     *)
(* wire, otherwise the loop is about to end.                               *)
TornFrameEndsTheStream ==
  \A c \in Streaming :
    \/ \E i \in DOMAIN wire[c] : wire[c][i] = "body" /\ (i = 1 \/ wire[c][i - 1] = "body")
    \/ frames[c].sent = frames[c].forwarded + Cardinality({i \in DOMAIN wire[c] : wire[c][i] = "body"})

(* When the provider exits, an attached client's loop ends, unless a new   *)
(* provider takes its place first: the client is told, not left hanging,   *)
(* as long as no join waits for good for a terminal (session.rs:186).      *)
ExitReachesClient ==
  []<>~joining =>
    \A c \in Clients :
      (client[c].phase = "streaming" /\ provider = "exited")
        ~> (client[c].phase = "ended" \/ provider = "running")

=============================================================================
