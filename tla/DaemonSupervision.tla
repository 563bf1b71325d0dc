-------------------------- MODULE DaemonSupervision --------------------------
(***************************************************************************)
(* How clients get a daemon: memmux reuses the one that answers on the     *)
(* socket and starts one otherwise; memmuxd recovers the store, takes the  *)
(* socket path from whoever had it, and serves.  Nothing but the socket    *)
(* path tells one daemon of another.                                       *)
(***************************************************************************)
EXTENDS Naturals, FiniteSets

CONSTANTS
  Users,     \* memmux processes
  Daemons,   \* memmuxd processes that may ever be started
  NoSocket,  \* nothing at the socket path
  MaxDeaths  \* bound: daemons that die before or while they serve

ASSUME SupervisionAssumption == NoSocket \notin Daemons /\ MaxDeaths \in Nat

VARIABLES
  socket,     \* the daemon whose listener the path leads to, dead or alive
  memmuxd,    \* how far each daemon is
  memmux,     \* how far each client is with ensure_daemon
  unwatched,  \* a client once probed or started a daemon while another was on
              \* its way or about to be started, or one was started by hand
              \* beside another
  deaths

supervisionVars == <<socket, memmuxd, memmux, unwatched, deaths>>

Starting == {"started", "recovered", "unlink", "bind"}

SupervisionTypeOK ==
  /\ socket \in Daemons \cup {NoSocket}
  /\ memmuxd \in [Daemons -> Starting \cup {"unborn", "serving", "dead"}]
  /\ memmux \in [Users -> {"idle", "spawn", "waiting", "connected", "failed"}]
  /\ unwatched \in BOOLEAN /\ deaths \in 0..MaxDeaths

SupervisionInit ==
  /\ socket = NoSocket /\ unwatched = FALSE /\ deaths = 0
  /\ memmuxd = [d \in Daemons |-> "unborn"] /\ memmux = [u \in Users |-> "idle"]

Serving   == {d \in Daemons : memmuxd[d] = "serving"}
Reachable == socket \in Serving
Underway  == \E d \in Daemons : memmuxd[d] \in Starting
Becomes(d, state) == memmuxd' = [memmuxd EXCEPT ![d] = state]

-----------------------------------------------------------------------------
(* memmux: ensure_daemon.                                                  *)

(* Starts a daemon whatever the probe says.                                *)
ProbeNothing(u) ==
  /\ memmux[u] \in {"idle", "failed"}
  /\ memmux' = [memmux EXCEPT ![u] = "spawn"]
  /\ unwatched' = (unwatched \/ Underway)
  /\ UNCHANGED <<socket, memmuxd, deaths>>

(* daemon_is_up: connect and ask.                                          *)
Probe(u) ==
  /\ memmux[u] \in {"idle", "failed"}
  /\ memmux' = [memmux EXCEPT ![u] = IF Reachable THEN "connected" ELSE "spawn"]
  /\ unwatched' = (unwatched \/ (~Reachable /\ Underway))
  /\ UNCHANGED <<socket, memmuxd, deaths>>

StartDaemon(d) ==
  /\ memmuxd[d] = "unborn"
  /\ Becomes(d, "started")

(* A process of its own, whose fate the client does not watch; the binary  *)
(* may be missing.                                                         *)
SpawnDaemon(u) ==
  /\ memmux[u] = "spawn"
  /\ \/ /\ \E d \in Daemons : StartDaemon(d)
        /\ memmux' = [memmux EXCEPT ![u] = "waiting"]
        /\ unwatched' = (unwatched \/ Underway \/ \E v \in Users \ {u} : memmux[v] = "spawn")
     \/ /\ memmux' = [memmux EXCEPT ![u] = "failed"]
        /\ UNCHANGED <<memmuxd, unwatched, deaths>>
  /\ UNCHANGED <<socket, deaths>>

PollUp(u) ==
  /\ memmux[u] = "waiting" /\ Reachable
  /\ memmux' = [memmux EXCEPT ![u] = "connected"]
  /\ UNCHANGED <<socket, memmuxd, unwatched, deaths>>

PollExpires(u) ==
  /\ memmux[u] = "waiting" /\ ~Reachable
  /\ memmux' = [memmux EXCEPT ![u] = "failed"]
  /\ UNCHANGED <<socket, memmuxd, unwatched, deaths>>

(* The user leaves; the daemon stays.                                      *)
Quits(u) ==
  /\ memmux[u] = "connected"
  /\ memmux' = [memmux EXCEPT ![u] = "idle"]
  /\ UNCHANGED <<socket, memmuxd, unwatched, deaths>>

-----------------------------------------------------------------------------
(* memmuxd: run_serve and serve.                                           *)

StartByHand(d) ==
  /\ StartDaemon(d)
  /\ unwatched' = (\/ unwatched \/ Underway \/ Serving # {}
                 \/ \E u \in Users : memmux[u] = "spawn")
  /\ UNCHANGED <<socket, memmux, deaths>>

(* The store is opened and the tasks are recovered before the socket is    *)
(* looked at.                                                              *)
Recover(d) ==
  /\ memmuxd[d] = "started"
  /\ Becomes(d, "recovered")
  /\ UNCHANGED <<socket, memmux, unwatched, deaths>>

(* Leaves a socket that exists alone.                                      *)
CheckSocketOnly(d) ==
  /\ memmuxd[d] = "recovered"
  /\ Becomes(d, "bind")
  /\ UNCHANGED <<socket, memmux, unwatched, deaths>>

CheckSocket(d) ==
  /\ memmuxd[d] = "recovered"
  /\ Becomes(d, IF socket = NoSocket THEN "bind" ELSE "unlink")
  /\ UNCHANGED <<socket, memmux, unwatched, deaths>>

(* Whoever listens there keeps its connections and gets no new one.        *)
RemoveSocket(d) ==
  /\ memmuxd[d] = "unlink"
  /\ Becomes(d, IF socket = NoSocket THEN "dead" ELSE "bind")
  /\ socket' = NoSocket
  /\ UNCHANGED <<memmux, unwatched, deaths>>

BindSocket(d) ==
  /\ memmuxd[d] = "bind"
  /\ \/ socket = NoSocket /\ socket' = d /\ Becomes(d, "serving")
     \/ socket # NoSocket /\ Becomes(d, "dead") /\ UNCHANGED socket
  /\ UNCHANGED <<memmux, unwatched, deaths>>

(* The file stays.                                                         *)
DaemonDies(d) ==
  /\ memmuxd[d] \in Starting \cup {"serving"} /\ deaths < MaxDeaths
  /\ deaths' = deaths + 1
  /\ Becomes(d, "dead")
  /\ UNCHANGED <<socket, memmux, unwatched>>

-----------------------------------------------------------------------------
ServeStep(d) == Recover(d) \/ CheckSocket(d) \/ RemoveSocket(d) \/ BindSocket(d)

SupervisionNext ==
  \/ \E u \in Users : Probe(u) \/ SpawnDaemon(u) \/ PollUp(u) \/ PollExpires(u) \/ Quits(u)
  \/ \E d \in Daemons : ServeStep(d) \/ StartByHand(d) \/ DaemonDies(d)

SupervisionSpec == SupervisionInit /\ [][SupervisionNext]_supervisionVars

(* A started daemon goes on.                                               *)
SupervisionFairness == \A d \in Daemons : WF_supervisionVars(ServeStep(d))

-----------------------------------------------------------------------------
(* Properties.                                                             *)

(* Two daemons never serve the same root, each with the tasks of the same  *)
(* store, unless they were started side by side: by two clients between    *)
(* probe and bind, or by hand.                                             *)
TwoDaemonsAreARace == unwatched \/ Cardinality(Serving) <= 1

(* Whatever files the dead have left and however the started get in each   *)
(* other's way, a daemon that has yet to look at the socket leads to one   *)
(* that answers, or another one dies.                                      *)
StartLeadsToService ==
  \A d \in Daemons, n \in 0..MaxDeaths :
    (memmuxd[d] \in {"started", "recovered"} /\ deaths = n) ~> (Reachable \/ deaths > n)

=============================================================================
