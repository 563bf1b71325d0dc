------------------------ MODULE ProcessOwnershipProofs ------------------------
(***************************************************************************)
(* Proofs about who is signalled and who is forgotten, for any tasks and   *)
(* any pids.  A process has the owner of its parent, so that what runs     *)
(* under a task's provider is that task's, and what was recorded for a     *)
(* task was its own.  What was sampled stays recorded until it was killed. *)
(* And proofs about what is read off a snapshot: any walk, of any number   *)
(* of pids, over processes that come and go while it is under way.         *)
(***************************************************************************)
EXTENDS ProcessOwnership, ProcessAccounting, FoldLemmas, TLAPS

(* What may be left of an operation: terminate, retire, stop (with or      *)
(* without a relaunch), and the reclaiming of escapees.                    *)
Terminating == {<<"target", "killAndForget", "close", "join">>, <<"killAndForget", "close", "join">>,
                <<"close", "join">>, <<"join">>}
Retiring    == {<<"join", "target", "killAndForget">>, <<"target", "killAndForget">>, <<"killAndForget">>}
Stopping    == {<<"verify", "kill", "join">>, <<"kill", "join">>, <<"join">>,
                <<"verify", "kill", "join", "relaunch">>, <<"kill", "join", "relaunch">>,
                <<"join", "relaunch">>, <<"relaunch">>}
Reclaiming  == {<<"killEscaped">>}
Plans == {<<>>} \cup Terminating \cup Retiring \cup Stopping \cup Reclaiming

-----------------------------------------------------------------------------
(* The steps that are left after each.                                     *)
LEMMA Tails ==
  /\ Tail(<<"target", "killAndForget", "close", "join">>) = <<"killAndForget", "close", "join">>
  /\ Tail(<<"killAndForget", "close", "join">>) = <<"close", "join">>
  /\ Tail(<<"close", "join">>) = <<"join">>
  /\ Tail(<<"join">>) = <<>>
  /\ Tail(<<"join", "target", "killAndForget">>) = <<"target", "killAndForget">>
  /\ Tail(<<"target", "killAndForget">>) = <<"killAndForget">>
  /\ Tail(<<"killAndForget">>) = <<>>
  /\ Tail(<<"verify", "kill", "join">>) = <<"kill", "join">>
  /\ Tail(<<"kill", "join">>) = <<"join">>
  /\ Tail(<<"verify", "kill", "join", "relaunch">>) = <<"kill", "join", "relaunch">>
  /\ Tail(<<"kill", "join", "relaunch">>) = <<"join", "relaunch">>
  /\ Tail(<<"join", "relaunch">>) = <<"relaunch">>
  /\ Tail(<<"relaunch">>) = <<>>
  /\ Tail(<<"killEscaped">>) = <<>>
OBVIOUS

LEMMA AfterTarget ==
  ASSUME NEW s \in Plans, s # <<>>, Head(s) = "target"
  PROVE  Tail(s) \in {<<"killAndForget", "close", "join">>, <<"killAndForget">>}
<1>1. s = <<"target", "killAndForget", "close", "join">> \/ s = <<"target", "killAndForget">>
  BY DEF Plans, Terminating, Retiring, Stopping, Reclaiming
<1>. QED
  BY <1>1, Tails, Zenon

LEMMA AfterVerify ==
  ASSUME NEW s \in Plans, s # <<>>, Head(s) = "verify"
  PROVE  Tail(s) \in {<<"kill", "join">>, <<"kill", "join", "relaunch">>}
<1>1. s = <<"verify", "kill", "join">> \/ s = <<"verify", "kill", "join", "relaunch">>
  BY DEF Plans, Terminating, Retiring, Stopping, Reclaiming
<1>. QED
  BY <1>1, Tails, Zenon

LEMMA AfterKill ==
  ASSUME NEW s \in Plans, s # <<>>, Head(s) \in {"kill", "killAndForget", "killEscaped"}
  PROVE  \/ Head(s) = "kill" /\ Tail(s) \in {<<"join">>, <<"join", "relaunch">>}
         \/ Head(s) = "killAndForget" /\ Tail(s) \in {<<"close", "join">>, <<>>}
         \/ Head(s) = "killEscaped" /\ s = <<"killEscaped">> /\ Tail(s) = <<>>
<1>1. \/ Head(s) = "kill" /\ (s = <<"kill", "join">> \/ s = <<"kill", "join", "relaunch">>)
      \/ Head(s) = "killAndForget" /\ (s = <<"killAndForget", "close", "join">> \/ s = <<"killAndForget">>)
      \/ Head(s) = "killEscaped" /\ s = <<"killEscaped">>
  BY DEF Plans, Terminating, Retiring, Stopping, Reclaiming
<1>. QED
  BY <1>1, Tails, Zenon

LEMMA AfterClose ==
  ASSUME NEW s \in Plans, s # <<>>, Head(s) = "close"
  PROVE  s = <<"close", "join">> /\ Tail(s) = <<"join">>
<1>1. s = <<"close", "join">>
  BY DEF Plans, Terminating, Retiring, Stopping, Reclaiming
<1>. QED
  BY <1>1, Tails, Zenon

LEMMA AfterJoin ==
  ASSUME NEW s \in Plans, s # <<>>, Head(s) = "join"
  PROVE  /\ Tail(s) \in {<<>>, <<"relaunch">>, <<"target", "killAndForget">>}
         /\ s = <<"join", "target", "killAndForget">> => Tail(s) = <<"target", "killAndForget">>
<1>1. s = <<"join">> \/ s = <<"join", "relaunch">> \/ s = <<"join", "target", "killAndForget">>
  BY DEF Plans, Terminating, Retiring, Stopping, Reclaiming
<1>. QED
  BY <1>1, Tails, Zenon

LEMMA AfterRelaunch ==
  ASSUME NEW s \in Plans, s # <<>>, Head(s) = "relaunch"
  PROVE  Tail(s) = <<>>
<1>1. s = <<"relaunch">>
  BY DEF Plans, Terminating, Retiring, Stopping, Reclaiming
<1>. QED
  BY <1>1, Tails, Zenon

LEMMA PlansAreSteps == Plans \subseteq Seq(Steps)
BY DEF Plans, Terminating, Retiring, Stopping, Reclaiming, Steps

-----------------------------------------------------------------------------
(* The invariant.                                                          *)

Processes == [status : {"absent", "alive", "zombie"}, parent : Pids \cup {InitPid, DaemonPid},
              owner : RunTasks \cup {Foreign}, tty : BOOLEAN, sampled : BOOLEAN]
Daemons == [task : RunTasks \cup {None}, pid : Pids \cup {None}, targets : SUBSET Pids,
            under : SUBSET Pids, steps : Plans]

HostOK ==
  /\ process \in [Pids -> Processes] /\ root \in [RunTasks -> Pids \cup {None}]
  /\ seenPids \in [RunTasks -> SUBSET Pids] /\ unnoticed \in [RunTasks -> SUBSET Pids]
  /\ escaped \subseteq Pids /\ unsafeStops \subseteq RunTasks /\ daemon \in Daemons
  /\ snapshotFailures \in 0..MaxSnapshotFailures /\ starts \in 0..MaxStarts

(* A process has the owner of its parent, which is there.                  *)
Lineage ==
  \A p \in Present : process[p].parent \in Pids =>
    process[p].parent \in Present /\ process[process[p].parent].owner = process[p].owner

(* A provider is there until the daemon has waited for it.                 *)
ProvidersStand ==
  \A t \in RunTasks : root[t] # None =>
    root[t] \in Present /\ process[root[t]].owner = t /\ process[root[t]].parent = DaemonPid

(* The pids of a task: what is there of it, and what ended unnoticed.      *)
Known(t) == {p \in Present : process[p].owner = t} \cup unnoticed[t]
KnownToAll == UNION {Known(t) : t \in RunTasks}

(* What the daemon recorded of a task is the task's, or was until lately.  *)
RecordsAreOwned ==
  /\ \A t \in RunTasks : seenPids[t] \subseteq Known(t)
  /\ escaped \subseteq KnownToAll

(* What an operation works on, and whom it aims at.                        *)
OperationOK ==
  /\ daemon.steps = <<>> => daemon = Idle
  /\ daemon.steps = <<"killEscaped">> => daemon.task = None
  /\ daemon.steps \notin {<<>>, <<"killEscaped">>} => daemon.task \in RunTasks
  /\ daemon.task # None => daemon.pid \in Known(daemon.task) \cup {None}
TargetsAreKnown ==
  \A p \in daemon.targets :
    \/ \E t \in RunTasks : daemon.task \in {None, t} /\ p \in Known(t)
    \/ p \in daemon.under

OwnedInv == HostOK /\ Lineage /\ ProvidersStand /\ RecordsAreOwned /\ OperationOK /\ TargetsAreKnown

-----------------------------------------------------------------------------
LEMMA Names ==
  /\ None \notin Pids /\ InitPid \notin Pids /\ DaemonPid \notin Pids
  /\ None \notin RunTasks /\ Foreign \notin RunTasks
BY OwnershipAssumption

LEMMA SubtreeIsClosed ==
  ASSUME NEW from
  PROVE  /\ Subtree(from) \subseteq Present /\ from \cap Present \subseteq Subtree(from)
         /\ \A p \in Present : process[p].parent \in Subtree(from) => p \in Subtree(from)
BY DEF Subtree

LEMMA SubtreeIsLeast ==
  ASSUME NEW from, NEW S \in SUBSET Present, from \cap Present \subseteq S,
         \A p \in Present : process[p].parent \in S => p \in S
  PROVE  Subtree(from) \subseteq S
BY DEF Subtree

(* What runs under a process of a task belongs to the task.                *)
LEMMA SubtreeIsOwned ==
  ASSUME HostOK, Lineage, NEW from, NEW o, \A p \in from \cap Present : process[p].owner = o
  PROVE  \A p \in Subtree(from) : p \in Present /\ process[p].owner = o
<1>. DEFINE S == {p \in Present : process[p].owner = o}
<1>1. S \in SUBSET Present /\ from \cap Present \subseteq S
  OBVIOUS
<1>2. ASSUME NEW p \in Present, process[p].parent \in S PROVE p \in S
  BY <1>2 DEF Lineage, Present
<1>3. Subtree(from) \subseteq S
  BY <1>1, <1>2, SubtreeIsLeast
<1>. QED
  BY <1>3

(* What runs under the providers runs under one of them.                   *)
LEMMA SubtreeOfRoots ==
  ASSUME HostOK, NEW p \in Subtree(Roots)
  PROVE  \E t \in RunTasks : root[t] # None /\ p \in Subtree({root[t]})
<1>. DEFINE S == {q \in Present : \E t \in RunTasks : root[t] # None /\ q \in Subtree({root[t]})}
<1>1. Roots \cap Present \subseteq S
  BY SubtreeIsClosed DEF Roots
<1>2. ASSUME NEW q \in Present, process[q].parent \in S PROVE q \in S
  BY <1>2, SubtreeIsClosed
<1>3. Subtree(Roots) \subseteq S
  BY <1>1, <1>2, SubtreeIsLeast
<1>. QED
  BY <1>3

-----------------------------------------------------------------------------
(* What a death and a start do to the processes.                           *)

Gone(p, dead, waited) == p \in dead /\ ~(p \in Roots \ waited)

LEMMA DeathByPid ==
  ASSUME HostOK, NEW dead, NEW waited, process' = AfterDeath(dead, waited)
  PROVE  /\ process' \in [Pids -> Processes]
         /\ \A p \in Pids :
              /\ Gone(p, dead, waited) => process'[p].status = "absent"
              /\ ~Gone(p, dead, waited) =>
                   /\ process'[p].owner = process[p].owner /\ process'[p].sampled = process[p].sampled
                   /\ p \in dead => process'[p].status = "zombie" /\ process'[p].parent = process[p].parent
                   /\ p \notin dead =>
                        /\ process'[p].status = process[p].status
                        /\ process'[p].parent = IF process[p].parent \in dead THEN InitPid
                                                ELSE process[p].parent
<1>1. process' = [p \in Pids |->
     IF p \in dead /\ p \in Roots \ waited
       THEN [process[p] EXCEPT !.status = "zombie", !.tty = FALSE]
     ELSE IF p \in dead THEN NoProcess
     ELSE IF process[p].parent \in dead THEN [process[p] EXCEPT !.parent = InitPid]
     ELSE process[p]]
  BY DEF AfterDeath
<1>2. NoProcess \in Processes /\ NoProcess.status = "absent"
  BY DEF NoProcess, Processes
<1>3. ASSUME NEW r \in Processes
      PROVE  /\ [r EXCEPT !.status = "zombie", !.tty = FALSE] \in Processes
             /\ [r EXCEPT !.parent = InitPid] \in Processes
  BY DEF Processes
<1>4. \A p \in Pids : process[p] \in Processes
  BY DEF HostOK
<1>5. process' \in [Pids -> Processes]
  BY <1>1, <1>2, <1>3, <1>4
<1>6. ASSUME NEW p \in Pids, Gone(p, dead, waited) PROVE process'[p].status = "absent"
  BY <1>1, <1>2, <1>6 DEF Gone
<1>7. ASSUME NEW p \in Pids, ~Gone(p, dead, waited), p \in dead
      PROVE  /\ process'[p].owner = process[p].owner /\ process'[p].sampled = process[p].sampled
             /\ process'[p].status = "zombie" /\ process'[p].parent = process[p].parent
  <2>1. process'[p] = [process[p] EXCEPT !.status = "zombie", !.tty = FALSE]
    BY <1>1, <1>7 DEF Gone
  <2>. QED
    BY <1>4, <2>1 DEF Processes
<1>8. ASSUME NEW p \in Pids, p \notin dead
      PROVE  /\ process'[p].owner = process[p].owner /\ process'[p].sampled = process[p].sampled
             /\ process'[p].status = process[p].status
             /\ process'[p].parent = IF process[p].parent \in dead THEN InitPid ELSE process[p].parent
  <2>1. process'[p] = IF process[p].parent \in dead THEN [process[p] EXCEPT !.parent = InitPid]
                      ELSE process[p]
    BY <1>1, <1>8
  <2>. QED
    BY <1>4, <2>1 DEF Processes
<1>. QED
  BY <1>5, <1>6, <1>7, <1>8

(* The living lose the dead and gain nobody; the rest stays whose it was.  *)
LEMMA DeathKeeps ==
  ASSUME HostOK, Lineage, ProvidersStand, NEW dead \in SUBSET Pids, NEW waited,
         process' = AfterDeath(dead, waited)
  PROVE  /\ process' \in [Pids -> Processes] /\ Lineage'
         /\ Present' \subseteq Present /\ Alive' \subseteq Alive \ dead
         /\ \A p \in Present' : /\ process'[p].owner = process[p].owner
                                /\ process'[p].sampled = process[p].sampled
         /\ \A p \in Roots : p \notin dead \cap waited =>
              p \in Present' /\ process'[p].owner = process[p].owner /\ process'[p].parent = DaemonPid
<1>. USE DeathByPid
<1>1. process' \in [Pids -> Processes]
  OBVIOUS
<1>2. \A p \in Present' : p \in Pids /\ ~Gone(p, dead, waited) /\ process'[p].status # "absent"
  BY DEF Present
<1>3. \A p \in Pids : p \in dead /\ ~Gone(p, dead, waited) => p \in Roots
  BY DEF Gone
<1>4. \A p \in Roots : p \in Present /\ process[p].parent = DaemonPid
  BY DEF Roots, ProvidersStand
<1>5. \A p \in Present' : p \in Present /\ process'[p].owner = process[p].owner
                          /\ process'[p].sampled = process[p].sampled
  BY <1>2, <1>3, <1>4 DEF Present
<1>6. \A p \in Alive' : p \in Alive \ dead
  <2>1. \A p \in Alive' : p \in Pids /\ process'[p].status = "alive"
    BY DEF Alive
  <2>2. "alive" # "absent" /\ "alive" # "zombie"
    OBVIOUS
  <2>. QED
    BY <2>1, <2>2 DEF Alive
<1>7. Lineage'
  <2>. SUFFICES ASSUME NEW p \in Present', process'[p].parent \in Pids
                PROVE  /\ process'[p].parent \in Present'
                       /\ process'[process'[p].parent].owner = process'[p].owner
    BY DEF Lineage
  <2>1. p \notin dead
    BY <1>2, <1>3, <1>4, Names
  <2>2. process'[p].parent = process[p].parent /\ process[p].parent \notin dead
    BY <1>2, <2>1, Names
  <2>. DEFINE q == process[p].parent
  <2>3. q \in Present /\ q \in Pids /\ process[q].owner = process[p].owner
    BY <1>5, <2>2 DEF Lineage
  <2>4. ~Gone(q, dead, waited)
    BY <2>2 DEF Gone
  <2>5. process'[q].status = process[q].status /\ process'[q].owner = process[q].owner
    BY <2>2, <2>3, <2>4
  <2>6. q \in Present'
    BY <2>3, <2>5 DEF Present
  <2>. QED
    BY <1>5, <2>2, <2>3, <2>5, <2>6
<1>8. ASSUME NEW p \in Roots, p \notin dead \cap waited
      PROVE  /\ p \in Present' /\ process'[p].owner = process[p].owner
             /\ process'[p].parent = DaemonPid
  <2>1. p \in Pids /\ p \in Present /\ process[p].parent = DaemonPid /\ ~Gone(p, dead, waited)
    BY <1>4, <1>8 DEF Present, Gone
  <2>2. process[p].parent \notin dead
    BY <2>1, Names
  <2>3. process'[p].status # "absent"
    <3>1. process[p].status # "absent" /\ "zombie" # "absent"
      BY <2>1 DEF Present
    <3>. QED
      BY <2>1, <3>1
  <2>. QED
    BY <2>1, <2>2, <2>3 DEF Present
<1>. QED
  BY <1>1, <1>5, <1>6, <1>7, <1>8

(* A provider the daemon still has was not waited for.                     *)
LEMMA DeathKeepsProviders ==
  ASSUME HostOK, Lineage, ProvidersStand, NEW dead \in SUBSET Pids, NEW waited,
         process' = AfterDeath(dead, waited),
         \A t \in RunTasks : root'[t] # None => root'[t] = root[t] /\ root[t] \notin dead \cap waited
  PROVE  ProvidersStand'
<1>1. SUFFICES ASSUME NEW t \in RunTasks, root'[t] # None
               PROVE  /\ root'[t] \in Present' /\ process'[root'[t]].owner = t
                      /\ process'[root'[t]].parent = DaemonPid
  BY DEF ProvidersStand
<1>. DEFINE p == root[t]
<1>2. root'[t] = p /\ p \in Roots /\ process[p].owner = t /\ p \notin dead \cap waited
  BY <1>1 DEF ProvidersStand, Roots
<1>. HIDE DEF p
<1>3. \A q \in Roots : q \notin dead \cap waited =>
        q \in Present' /\ process'[q].owner = process[q].owner /\ process'[q].parent = DaemonPid
  BY DeathKeeps
<1>. QED
  BY <1>2, <1>3

(* A new process: under the daemon, under init, or under one of its owner. *)
LEMMA StartKeeps ==
  ASSUME HostOK, Lineage, NEW p \in Free, NEW parent \in Pids \cup {InitPid, DaemonPid},
         NEW o \in RunTasks \cup {Foreign}, NEW tty \in BOOLEAN, Started(p, parent, o, tty),
         parent \in Pids => parent \in Present /\ process[parent].owner = o
  PROVE  /\ process' \in [Pids -> Processes] /\ starts' \in 0..MaxStarts /\ Lineage'
         /\ p \in Pids /\ p \notin Present /\ Present' = Present \cup {p} /\ Alive' = Alive \cup {p}
         /\ process'[p].owner = o /\ process'[p].parent = parent /\ ~process'[p].sampled
         /\ \A q \in Pids \ {p} : process'[q] = process[q]
<1>. DEFINE new == [status |-> "alive", parent |-> parent, owner |-> o, tty |-> tty, sampled |-> FALSE]
<1>1. process' = [process EXCEPT ![p] = new] /\ starts' = starts + 1 /\ starts < MaxStarts
  BY DEF Started
<1>2. new \in Processes /\ new.status = "alive" /\ new.parent = parent /\ new.owner = o /\ ~new.sampled
  BY DEF Processes
<1>3. p \in Pids /\ p \notin Present
  BY DEF Free
<1>. HIDE DEF new
<1>4. process' \in [Pids -> Processes] /\ process'[p] = new /\ \A q \in Pids \ {p} : process'[q] = process[q]
  BY <1>1, <1>2, <1>3 DEF HostOK
<1>5. starts' \in 0..MaxStarts
  BY <1>1, OwnershipAssumption DEF HostOK
<1>6. Present' = Present \cup {p} /\ Alive' = Alive \cup {p}
  <2>1. "alive" # "absent"
    OBVIOUS
  <2>. QED
    BY <1>2, <1>3, <1>4, <2>1 DEF Present, Alive
<1>7. Lineage'
  <2>. SUFFICES ASSUME NEW q \in Present', process'[q].parent \in Pids
                PROVE  /\ process'[q].parent \in Present'
                       /\ process'[process'[q].parent].owner = process'[q].owner
    BY DEF Lineage
  <2>1. CASE q = p
    <3>1. parent \in Present /\ parent # p /\ parent \in Pids
      BY <1>2, <1>3, <1>4, <2>1
    <3>. QED
      BY <1>2, <1>4, <1>6, <2>1, <3>1
  <2>2. CASE q # p
    <3>1. q \in Present /\ q \in Pids /\ process'[q] = process[q]
      BY <1>4, <1>6, <2>2 DEF Present
    <3>2. process[q].parent \in Present /\ process[process[q].parent].owner = process[q].owner
      BY <3>1 DEF Lineage
    <3>3. process[q].parent # p /\ process[q].parent \in Pids
      BY <1>3, <3>2 DEF Present
    <3>. QED
      BY <1>4, <1>6, <3>1, <3>2, <3>3
  <2>. QED
    BY <2>1, <2>2
<1>. QED
  BY <1>2, <1>3, <1>4, <1>5, <1>6, <1>7

-----------------------------------------------------------------------------
(* The operation under way.                                                *)

LEMMA IdleOK ==
  /\ Idle \in Daemons /\ Idle.task = None /\ Idle.pid = None /\ Idle.targets = {} /\ Idle.under = {}
  /\ Idle.steps = <<>>
BY DEF Idle, Daemons, Plans

LEMMA DoneView ==
  ASSUME NEW d \in Daemons, NEW rest \in Plans, Tail(d.steps) = rest
  PROVE  /\ Done(d) \in Daemons
         /\ rest = <<>> => Done(d) = Idle
         /\ rest # <<>> => /\ Done(d).steps = rest /\ Done(d).task = d.task /\ Done(d).pid = d.pid
                           /\ Done(d).targets = d.targets /\ Done(d).under = d.under
<1>1. CASE rest = <<>>
  BY <1>1, IdleOK DEF Done
<1>2. CASE rest # <<>>
  <2>1. Done(d) = [d EXCEPT !.steps = rest]
    BY <1>2 DEF Done
  <2>. QED
    BY <1>2, <2>1 DEF Daemons
<1>. QED
  BY <1>1, <1>2

(* Nobody is forgotten in this step.                                       *)
NoneForgotten == \A t \in RunTasks : Known(t) \subseteq Known(t)'

(* Nothing of an operation is disturbed when nobody is forgotten.          *)
LEMMA OperationStays ==
  ASSUME HostOK, OperationOK, TargetsAreKnown, daemon' = daemon, NoneForgotten
  PROVE  OperationOK' /\ TargetsAreKnown'
<1>1. daemon.task = None \/ daemon.task \in RunTasks
  BY DEF HostOK, Daemons
<1>2. OperationOK'
  BY <1>1 DEF OperationOK, NoneForgotten
<1>3. TargetsAreKnown'
  BY DEF TargetsAreKnown, NoneForgotten
<1>. QED
  BY <1>2, <1>3

(* Nor is a record of the daemon's.                                        *)
LEMMA RecordsStay ==
  ASSUME RecordsAreOwned, NoneForgotten, escaped' \subseteq escaped,
         \A t \in RunTasks : seenPids'[t] \subseteq seenPids[t]
  PROVE  RecordsAreOwned'
BY DEF RecordsAreOwned, KnownToAll, NoneForgotten

(* Where those who were there still are, and stay whose they were.         *)
LEMMA AllStayKnown ==
  ASSUME HostOK, Present \subseteq Present', unnoticed' = unnoticed,
         \A p \in Present : process'[p].owner = process[p].owner
  PROVE  NoneForgotten
BY DEF NoneForgotten, Known

(* Whoever dies is put on the list.                                        *)
LEMMA TheDeadAreKnown ==
  ASSUME HostOK, Lineage, ProvidersStand, NEW dead \in SUBSET Pids, NEW waited, Die(dead, waited)
  PROVE  NoneForgotten /\ unnoticed' \in [RunTasks -> SUBSET Pids]
<1>1. process' = AfterDeath(dead, waited)
      /\ unnoticed' = [t \in RunTasks |->
           unnoticed[t] \cup {p \in dead \ (Roots \ waited) : process[p].owner = t}]
  BY DEF Die
<1>2. unnoticed' \in [RunTasks -> SUBSET Pids]
  BY <1>1 DEF HostOK
<1>3. ASSUME NEW t \in RunTasks, NEW p \in Known(t) PROVE p \in Known(t)'
  <2>1. CASE p \in unnoticed[t]
    BY <1>1, <2>1 DEF Known
  <2>2. CASE p \in Present /\ process[p].owner = t /\ Gone(p, dead, waited)
    <3>1. p \in unnoticed'[t]
      BY <1>1, <2>2 DEF Gone
    <3>. QED
      BY <3>1 DEF Known
  <2>3. CASE p \in Present /\ process[p].owner = t /\ ~Gone(p, dead, waited)
    <3>1. p \in Pids /\ process[p].status # "absent"
      BY <2>3 DEF Present
    <3>2. process'[p].owner = t /\ process'[p].status # "absent"
      <4>1. "zombie" # "absent"
        OBVIOUS
      <4>. QED
        BY <1>1, <2>3, <3>1, <4>1, DeathByPid
    <3>. QED
      BY <3>1, <3>2 DEF Known, Present
  <2>. QED
    BY <1>3, <2>1, <2>2, <2>3 DEF Known
<1>. QED
  BY <1>2, <1>3 DEF NoneForgotten

-----------------------------------------------------------------------------
(* The steps of the system.                                                *)

LEMMA ForkOwned == ASSUME OwnedInv, NEW p \in Pids, Fork(p) PROVE OwnedInv'
<1>. USE DEF OwnedInv
<1>1. PICK child \in Free, tty \in {FALSE, process[p].tty} : Started(child, p, process[p].owner, tty)
  BY DEF Fork
<1>. DEFINE o == process[p].owner
<1>2. o \in RunTasks /\ p \in Present /\ tty \in BOOLEAN
  <2>1. process[p] \in Processes /\ process[p].status = "alive" /\ o # Foreign
    BY DEF Fork, HostOK
  <2>. QED
    BY <1>1, <2>1 DEF Processes, Present
<1>3. UNCHANGED <<root, seenPids, escaped, daemon, unnoticed, unsafeStops, snapshotFailures>>
  BY DEF Fork
<1>4. /\ process' \in [Pids -> Processes] /\ starts' \in 0..MaxStarts /\ Lineage'
      /\ child \in Pids /\ child \notin Present /\ Present' = Present \cup {child}
      /\ process'[child].owner = o /\ \A q \in Pids \ {child} : process'[q] = process[q]
  BY <1>1, <1>2, StartKeeps
<1>5. NoneForgotten
  BY <1>3, <1>4, AllStayKnown DEF Present
<1>6. HostOK'
  BY <1>3, <1>4 DEF HostOK
<1>7. ProvidersStand'
  BY <1>3, <1>4 DEF ProvidersStand, Present
<1>8. RecordsAreOwned'
  BY <1>3, <1>5, RecordsStay
<1>9. OperationOK' /\ TargetsAreKnown'
  BY <1>3, <1>5, OperationStays
<1>. QED
  BY <1>4, <1>6, <1>7, <1>8, <1>9

LEMMA ForeignStartsOwned == ASSUME OwnedInv, ForeignStarts PROVE OwnedInv'
<1>. USE DEF OwnedInv
<1>1. PICK p \in Free : Started(p, InitPid, Foreign, FALSE)
  BY DEF ForeignStarts
<1>2. UNCHANGED <<root, seenPids, escaped, daemon, unnoticed, unsafeStops, snapshotFailures>>
  BY DEF ForeignStarts
<1>3. /\ process' \in [Pids -> Processes] /\ starts' \in 0..MaxStarts /\ Lineage'
      /\ p \in Pids /\ p \notin Present /\ Present' = Present \cup {p}
      /\ process'[p].owner = Foreign /\ \A q \in Pids \ {p} : process'[q] = process[q]
  BY <1>1, Names, StartKeeps
<1>4. HostOK'
  BY <1>2, <1>3 DEF HostOK
<1>5. ProvidersStand'
  BY <1>2, <1>3 DEF ProvidersStand, Present
<1>9. NoneForgotten
  BY <1>2, <1>3, AllStayKnown DEF Present
<1>6. RecordsAreOwned'
  BY <1>2, <1>9, RecordsStay
<1>7. OperationOK' /\ TargetsAreKnown'
  BY <1>2, <1>9, OperationStays
<1>. QED
  BY <1>3, <1>4, <1>5, <1>6, <1>7

LEMMA ProcessExitsOwned == ASSUME OwnedInv, NEW p \in Pids, ProcessExits(p) PROVE OwnedInv'
<1>. USE DEF OwnedInv
<1>. DEFINE dead == {p}
            waited == {}
<1>1. /\ Die(dead, waited) /\ process' = AfterDeath(dead, waited)
      /\ dead \in SUBSET Pids /\ \A q : q \notin dead \cap waited
  BY DEF ProcessExits, Die
<1>2. UNCHANGED <<root, seenPids, escaped, daemon, unsafeStops, snapshotFailures, starts>>
  BY DEF ProcessExits
<1>. HIDE DEF dead, waited
<1>3. /\ process' \in [Pids -> Processes] /\ Lineage' /\ Present' \subseteq Present
      /\ \A q \in Present' : process'[q].owner = process[q].owner
  BY <1>1, DeathKeeps
<1>8. NoneForgotten /\ unnoticed' \in [RunTasks -> SUBSET Pids]
  BY <1>1, TheDeadAreKnown
<1>4. HostOK'
  BY <1>2, <1>3, <1>8 DEF HostOK
<1>5. ProvidersStand'
  BY <1>1, <1>2, DeathKeepsProviders
<1>6. RecordsAreOwned'
  BY <1>2, <1>8, RecordsStay
<1>7. OperationOK' /\ TargetsAreKnown'
  BY <1>2, <1>8, OperationStays
<1>. QED
  BY <1>3, <1>4, <1>5, <1>6, <1>7

LEMMA LaunchedOwned ==
  ASSUME OwnedInv, NEW t \in RunTasks, NEW p \in Free, LaunchAs(t, p),
         UNCHANGED <<seenPids, escaped, unnoticed, unsafeStops, snapshotFailures>>,
         OperationOK', TargetsAreKnown', daemon' \in Daemons
  PROVE  OwnedInv'
<1>. USE DEF OwnedInv
<1>1. /\ process' \in [Pids -> Processes] /\ starts' \in 0..MaxStarts /\ Lineage'
      /\ p \in Pids /\ p \notin Present /\ Present' = Present \cup {p}
      /\ process'[p].owner = t /\ process'[p].parent = DaemonPid
      /\ \A q \in Pids \ {p} : process'[q] = process[q]
  BY Names, StartKeeps DEF LaunchAs
<1>2. NoneForgotten
  BY <1>1, AllStayKnown DEF Present
<1>3. root' = [root EXCEPT ![t] = p]
  BY DEF LaunchAs
<1>4. HostOK'
  BY <1>1, <1>3 DEF HostOK
<1>5. ProvidersStand'
  <2>1. \A u \in RunTasks : root'[u] = IF u = t THEN p ELSE root[u]
    BY <1>3 DEF HostOK
  <2>. QED
    BY <1>1, <2>1 DEF ProvidersStand, Present
<1>6. RecordsAreOwned'
  BY <1>2, RecordsStay
<1>. QED
  BY <1>1, <1>4, <1>5, <1>6

LEMMA LaunchForgetsNone ==
  ASSUME HostOK, Lineage, NEW t \in RunTasks, NEW p \in Free, LaunchAs(t, p), unnoticed' = unnoticed
  PROVE  NoneForgotten
<1>1. /\ p \in Pids /\ p \notin Present /\ Present' = Present \cup {p}
      /\ \A q \in Pids \ {p} : process'[q] = process[q]
  BY Names, StartKeeps DEF LaunchAs
<1>. QED
  BY <1>1, AllStayKnown DEF Present

LEMMA LaunchOwned == ASSUME OwnedInv, NEW t \in RunTasks, Launch(t) PROVE OwnedInv'
<1>1. PICK p \in Free : LaunchAs(t, p)
  BY DEF Launch
<1>2. UNCHANGED <<seenPids, escaped, daemon, unnoticed, unsafeStops, snapshotFailures>>
  BY DEF Launch
<1>3. OperationOK' /\ TargetsAreKnown'
  BY <1>1, <1>2, LaunchForgetsNone, OperationStays DEF OwnedInv
<1>4. daemon' \in Daemons
  BY <1>2 DEF OwnedInv, HostOK
<1>. QED
  BY <1>1, <1>2, <1>3, <1>4, LaunchedOwned

(* The relaunch that ends a recycle; the launch may fail.                  *)
LEMMA RelaunchOwned == ASSUME OwnedInv, Relaunch PROVE OwnedInv'
<1>. USE DEF OwnedInv
<1>. DEFINE t == daemon.task
<1>1. /\ daemon.steps \in Plans /\ daemon.steps # <<>> /\ Head(daemon.steps) = "relaunch"
      /\ daemon \in Daemons /\ daemon' = Done(daemon)
  BY DEF Relaunch, At, HostOK, Daemons
<1>2. t \in RunTasks
  <2>1. Head(<<"killEscaped">>) # "relaunch"
    OBVIOUS
  <2>. QED
    BY <1>1, <2>1 DEF OperationOK
<1>3. daemon' = Idle
  BY <1>1, AfterRelaunch, DoneView DEF Plans
<1>4. daemon' \in Daemons /\ OperationOK' /\ TargetsAreKnown'
  <2>1. <<>> # <<"killEscaped">>
    OBVIOUS
  <2>. QED
    BY <1>3, <2>1, IdleOK DEF OperationOK, TargetsAreKnown, Idle
<1>5. UNCHANGED <<seenPids, escaped, unnoticed, unsafeStops, snapshotFailures>>
  BY DEF Relaunch
<1>6. ASSUME NEW p \in Free, LaunchAs(t, p) PROVE OwnedInv'
  BY <1>2, <1>4, <1>5, <1>6, LaunchedOwned
<1>7. CASE UNCHANGED <<process, root, starts>>
  <2>1. HostOK' /\ Lineage' /\ ProvidersStand' /\ RecordsAreOwned'
    BY <1>4, <1>5, <1>7 DEF HostOK, Lineage, ProvidersStand, RecordsAreOwned, Known, KnownToAll, Present
  <2>. QED
    BY <1>4, <2>1
<1>. QED
  BY <1>6, <1>7 DEF Relaunch

LEMMA SampleTickOwned == ASSUME OwnedInv, SampleTick PROVE OwnedInv'
<1>. USE DEF OwnedInv
<1>1. UNCHANGED <<root, daemon, unsafeStops, snapshotFailures, starts>>
  BY DEF SampleTick
<1>2. OperationOK' /\ TargetsAreKnown'
  <2>1. daemon' = Idle /\ Idle.steps = <<>> /\ Idle.targets = {} /\ Idle.task = None
    BY <1>1, IdleOK DEF SampleTick
  <2>2. <<>> # <<"killEscaped">>
    OBVIOUS
  <2>. QED
    BY <2>1, <2>2 DEF OperationOK, TargetsAreKnown
<1>3. /\ process' \in [Pids -> Processes] /\ Present' = Present
      /\ \A p \in Pids : /\ process'[p].owner = process[p].owner
                         /\ process'[p].parent = process[p].parent
  <2>1. CASE UNCHANGED process
    BY <2>1 DEF HostOK, Present
  <2>2. CASE process' = [p \in Pids |->
               IF p \in Subtree(Roots) THEN [process[p] EXCEPT !.sampled = TRUE] ELSE process[p]]
    <3>1. ASSUME NEW r \in Processes
          PROVE  /\ [r EXCEPT !.sampled = TRUE] \in Processes
                 /\ [r EXCEPT !.sampled = TRUE].owner = r.owner
                 /\ [r EXCEPT !.sampled = TRUE].parent = r.parent
                 /\ [r EXCEPT !.sampled = TRUE].status = r.status
      BY DEF Processes
    <3>. QED
      BY <2>2, <3>1 DEF HostOK, Present
  <2>. QED
    BY <2>1, <2>2 DEF SampleTick
<1>4. /\ seenPids' \in [RunTasks -> SUBSET Pids] /\ unnoticed' \in [RunTasks -> SUBSET Pids]
      /\ \A t \in RunTasks : seenPids'[t] \subseteq Known(t)'
  <2>1. CASE seenPids' = [t \in RunTasks |-> {}] /\ unnoticed' = [t \in RunTasks |-> {}]
    BY <2>1
  <2>2. CASE /\ seenPids' = [t \in RunTasks |->
                  IF root[t] = None THEN {} ELSE (seenPids[t] \cup Subtree({root[t]})) \cap Present]
             /\ unnoticed' = [t \in RunTasks |-> unnoticed[t] \cap Present]
    <3>1. ASSUME NEW t \in RunTasks, root[t] # None PROVE Subtree({root[t]}) \subseteq Known(t)
      <4>1. \A p \in {root[t]} \cap Present : process[p].owner = t
        BY <3>1 DEF ProvidersStand
      <4>2. \A p \in Subtree({root[t]}) : p \in Present /\ process[p].owner = t
        BY <4>1, SubtreeIsOwned
      <4>. QED
        BY <4>2 DEF Known
    <3>2. Present \subseteq Pids
      BY DEF Present
    <3>3. ASSUME NEW t \in RunTasks PROVE Known(t) \cap Present \subseteq Known(t)'
      BY <1>3, <2>2, <3>2 DEF Known
    <3>4. ASSUME NEW t \in RunTasks PROVE seenPids'[t] \subseteq Known(t) \cap Present
      BY <2>2, <3>1 DEF RecordsAreOwned
    <3>5. seenPids' \in [RunTasks -> SUBSET Pids] /\ unnoticed' \in [RunTasks -> SUBSET Pids]
      BY <2>2, <3>2
    <3>. QED
      BY <3>3, <3>4, <3>5
  <2>. QED
    BY <2>1, <2>2 DEF SampleTick
<1>5. escaped' \subseteq KnownToAll' /\ escaped' \subseteq Pids
  <2>1. UNION {seenPids'[t] : t \in RunTasks} \subseteq KnownToAll'
    BY <1>4 DEF KnownToAll
  <2>2. UNION {seenPids'[t] : t \in RunTasks} \subseteq Pids
    BY <1>4
  <2>3. escaped' = {} \/ escaped' \subseteq UNION {seenPids'[t] : t \in RunTasks}
    BY DEF SampleTick, Escapees
  <2>. QED
    BY <2>1, <2>2, <2>3
<1>6. HostOK' /\ Lineage' /\ ProvidersStand'
  BY <1>1, <1>3, <1>4, <1>5 DEF HostOK, Lineage, ProvidersStand, Present
<1>7. RecordsAreOwned'
  BY <1>4, <1>5 DEF RecordsAreOwned
<1>. QED
  BY <1>2, <1>6, <1>7

-----------------------------------------------------------------------------
(* The operations of the daemon.                                           *)

(* A step that neither kills nor starts anything.                          *)
LEMMA HostStays ==
  ASSUME OwnedInv, UNCHANGED <<process, root, unnoticed, starts>>,
         unsafeStops' \subseteq RunTasks, snapshotFailures' \in 0..MaxSnapshotFailures,
         seenPids' \in [RunTasks -> SUBSET Pids], escaped' \subseteq escaped,
         \A t \in RunTasks : seenPids'[t] \subseteq seenPids[t],
         daemon' \in Daemons, OperationOK', TargetsAreKnown'
  PROVE  OwnedInv'
<1>1. HostOK' /\ Lineage' /\ ProvidersStand'
  BY DEF OwnedInv, HostOK, Lineage, ProvidersStand, Present
<1>2. RecordsAreOwned'
  BY DEF OwnedInv, RecordsAreOwned, Known, KnownToAll, Present
<1>. QED
  BY <1>1, <1>2 DEF OwnedInv

(* A step that kills some and lets go of the providers it has waited for.  *)
LEMMA HostDies ==
  ASSUME OwnedInv, NEW dead \in SUBSET Pids, NEW waited, Die(dead, waited),
         root' \in [RunTasks -> Pids \cup {None}],
         \A t \in RunTasks : root'[t] # None => root'[t] = root[t] /\ root[t] \notin dead \cap waited,
         starts' = starts,
         unsafeStops' \subseteq RunTasks, snapshotFailures' \in 0..MaxSnapshotFailures,
         seenPids' \in [RunTasks -> SUBSET Pids], escaped' \subseteq escaped,
         \A t \in RunTasks : seenPids'[t] \subseteq seenPids[t],
         daemon' \in Daemons, OperationOK', TargetsAreKnown'
  PROVE  OwnedInv'
<1>1. HostOK /\ Lineage /\ ProvidersStand /\ process' = AfterDeath(dead, waited)
  BY DEF OwnedInv, Die
<1>6. NoneForgotten /\ unnoticed' \in [RunTasks -> SUBSET Pids]
  BY <1>1, TheDeadAreKnown
<1>2. /\ process' \in [Pids -> Processes] /\ Lineage' /\ Present' \subseteq Present
      /\ \A q \in Present' : process'[q].owner = process[q].owner
  BY <1>1, DeathKeeps
<1>3. HostOK'
  BY <1>1, <1>2, <1>6 DEF HostOK
<1>4. ProvidersStand'
  BY <1>1, DeathKeepsProviders
<1>5. RecordsAreOwned'
  BY <1>6, RecordsStay DEF OwnedInv
<1>. QED
  BY <1>2, <1>3, <1>4, <1>5 DEF OwnedInv

LEMMA FirstPlans ==
  /\ <<"target", "killAndForget", "close", "join">> \in Plans
  /\ <<"join", "target", "killAndForget">> \in Plans
  /\ <<"verify", "kill", "join">> \in Plans /\ <<"verify", "kill", "join", "relaunch">> \in Plans
  /\ <<"killEscaped">> \in Plans
BY DEF Plans, Terminating, Retiring, Stopping, Reclaiming

(* A step at which nothing happens to the processes.                       *)
LEMMA NothingEnds == ASSUME HostOK, UNCHANGED <<process, unnoticed>> PROVE NoneForgotten
BY DEF NoneForgotten, Known, Present

LEMMA BeginOK ==
  ASSUME OwnedInv, NEW t \in RunTasks, NEW pid \in Known(t) \cup {None},
         NEW steps \in Plans, steps # <<>>, steps # <<"killEscaped">>,
         Begin(t, pid, steps), NoneForgotten
  PROVE  /\ daemon' \in Daemons /\ OperationOK' /\ TargetsAreKnown'
         /\ daemon'.task = t /\ daemon'.steps = steps
<1>1. daemon' = [task |-> t, pid |-> pid, targets |-> {}, under |-> {}, steps |-> steps]
  BY DEF Begin
<1>2. pid \in Pids \cup {None}
  BY DEF OwnedInv, HostOK, Known, Present
<1>3. /\ daemon' \in Daemons /\ daemon'.task = t /\ daemon'.pid = pid /\ daemon'.targets = {}
      /\ daemon'.steps = steps
  BY <1>1, <1>2 DEF Daemons
<1>4. OperationOK'
  BY <1>3 DEF OperationOK, NoneForgotten
<1>5. TargetsAreKnown'
  BY <1>3 DEF TargetsAreKnown
<1>. QED
  BY <1>3, <1>4, <1>5

(* The provider of a task is one of the processes it ever had.             *)
LEMMA ProviderIsOwned ==
  ASSUME OwnedInv, NEW t \in RunTasks
  PROVE  root[t] \in Known(t) \cup {None} /\ (root[t] # None => root[t] \in Pids)
BY DEF OwnedInv, ProvidersStand, Known, HostOK

LEMMA TerminateOwned == ASSUME OwnedInv, NEW t \in RunTasks, TerminateTree(t) PROVE OwnedInv'
<1>. DEFINE plan == <<"target", "killAndForget", "close", "join">>
<1>1. plan \in Plans /\ plan # <<>> /\ plan # <<"killEscaped">>
  BY FirstPlans
<1>2. Begin(t, root[t], plan)
      /\ UNCHANGED <<process, root, seenPids, escaped, unnoticed, unsafeStops, snapshotFailures, starts>>
  BY DEF TerminateTree
<1>. HIDE DEF plan
<1>3. daemon' \in Daemons /\ OperationOK' /\ TargetsAreKnown'
  BY <1>1, <1>2, ProviderIsOwned, BeginOK, NothingEnds DEF OwnedInv
<1>. QED
  BY <1>2, <1>3, HostStays DEF OwnedInv, HostOK

LEMMA ReclaimOwned == ASSUME OwnedInv, ReclaimEscaped PROVE OwnedInv'
<1>1. /\ daemon' = [Idle EXCEPT !.targets = escaped, !.steps = <<"killEscaped">>]
      /\ UNCHANGED <<process, root, seenPids, escaped, unnoticed, unsafeStops, snapshotFailures, starts>>
  BY DEF ReclaimEscaped
<1>2. /\ daemon' \in Daemons /\ daemon'.task = None /\ daemon'.targets = escaped
      /\ daemon'.steps = <<"killEscaped">>
  <2>1. escaped \in SUBSET Pids /\ <<"killEscaped">> \in Plans
    BY FirstPlans DEF OwnedInv, HostOK
  <2>. QED
    BY <1>1, <2>1, IdleOK DEF Daemons
<1>3. OperationOK'
  <2>1. <<"killEscaped">> # <<>>
    OBVIOUS
  <2>. QED
    BY <1>2, <2>1 DEF OperationOK, NoneForgotten
<1>4. TargetsAreKnown'
  BY <1>1, <1>2, NothingEnds DEF TargetsAreKnown, OwnedInv, RecordsAreOwned, KnownToAll, NoneForgotten
<1>. QED
  BY <1>1, <1>2, <1>3, <1>4, HostStays DEF OwnedInv, HostOK

(* The provider of the task is waited for, and the operation begun.        *)
LEMMA LetGoOwned ==
  ASSUME OwnedInv, NEW t \in RunTasks, root[t] # None,
         Die({root[t]}, {root[t]}), root' = [root EXCEPT ![t] = None],
         NEW steps \in Plans, steps # <<>>, steps # <<"killEscaped">>, Begin(t, root[t], steps),
         UNCHANGED <<seenPids, escaped, snapshotFailures, starts>>,
         unsafeStops' \subseteq RunTasks
  PROVE  OwnedInv' /\ daemon'.task = t /\ daemon'.steps = steps
<1>. DEFINE dead == {root[t]}
<1>1. dead \in SUBSET Pids
  BY ProviderIsOwned
<1>2. \A u \in RunTasks : root'[u] # None => root'[u] = root[u] /\ root[u] \notin dead \cap dead
  BY DEF OwnedInv, HostOK, ProvidersStand
<1>6. Die(dead, dead)
  OBVIOUS
<1>3. daemon' \in Daemons /\ OperationOK' /\ TargetsAreKnown' /\ daemon'.task = t /\ daemon'.steps = steps
  <2>1. NoneForgotten
    BY <1>1, <1>6, TheDeadAreKnown DEF OwnedInv
  <2>. QED
    BY <2>1, ProviderIsOwned, BeginOK
<1>4. root' \in [RunTasks -> Pids \cup {None}]
  BY DEF OwnedInv, HostOK
<1>5. snapshotFailures' \in 0..MaxSnapshotFailures /\ seenPids' \in [RunTasks -> SUBSET Pids]
      /\ escaped' \subseteq escaped /\ \A u \in RunTasks : seenPids'[u] \subseteq seenPids[u]
  BY DEF OwnedInv, HostOK
<1>. HIDE DEF dead
<1>7. OwnedInv'
  BY <1>1, <1>2, <1>3, <1>4, <1>5, <1>6, HostDies
<1>. QED
  BY <1>3, <1>7

LEMMA RetireOwned == ASSUME OwnedInv, NEW t \in RunTasks, RetireTree(t) PROVE OwnedInv'
<1>. DEFINE plan == <<"join", "target", "killAndForget">>
<1>1. plan \in Plans /\ plan # <<>> /\ plan # <<"killEscaped">>
  BY FirstPlans
<1>2. Begin(t, root[t], plan)
  BY DEF RetireTree
<1>. HIDE DEF plan
<1>. QED
  BY <1>1, <1>2, LetGoOwned DEF RetireTree, OwnedInv, HostOK

LEMMA StopOwned ==
  ASSUME OwnedInv, NEW t \in RunTasks, NEW again \in BOOLEAN, StopTree(t, again) PROVE OwnedInv'
<1>1. PICK plan \in {<<"verify", "kill", "join">>, <<"verify", "kill", "join", "relaunch">>} :
        Begin(t, root[t], plan)
  BY DEF StopTree
<1>2. plan \in Plans /\ plan # <<>> /\ plan # <<"killEscaped">>
  BY FirstPlans
<1>3. unsafeStops' \subseteq RunTasks
  BY DEF StopTree, OwnedInv, HostOK
<1>. QED
  BY <1>1, <1>2, <1>3, LetGoOwned DEF StopTree

-----------------------------------------------------------------------------
(* The steps of an operation.                                              *)

(* An operation that goes on works for the same task.                      *)
LEMMA OnStep ==
  ASSUME OwnedInv, NEW step \in Steps \ {"killEscaped"}, At(step)
  PROVE  /\ daemon \in Daemons /\ daemon.steps \in Plans /\ daemon.steps # <<>>
         /\ Head(daemon.steps) = step /\ daemon.task \in RunTasks
         /\ daemon.pid \in Known(daemon.task) \cup {None}
<1>1. /\ daemon \in Daemons /\ daemon.steps \in Plans /\ daemon.steps # <<>>
      /\ Head(daemon.steps) = step
  BY DEF At, OwnedInv, HostOK, Daemons
<1>2. Head(<<"killEscaped">>) = "killEscaped"
  OBVIOUS
<1>3. daemon.task \in RunTasks
  BY <1>1, <1>2 DEF OwnedInv, OperationOK
<1>. QED
  BY <1>1, <1>3, Names DEF OwnedInv, OperationOK

(* What is left of it is no reclaiming.                                    *)
LEMMA MovesOn ==
  ASSUME OwnedInv, NEW d \in Daemons, NEW rest \in Plans, Tail(d.steps) = rest,
         rest # <<"killEscaped">>, daemon' = Done(d), NoneForgotten,
         d.task \in RunTasks, d.pid \in Known(d.task) \cup {None},
         d.targets \subseteq Known(d.task) \cup d.under
  PROVE  daemon' \in Daemons /\ OperationOK' /\ TargetsAreKnown'
<1>1. CASE rest = <<>>
  <2>1. daemon' = Idle
    BY <1>1, DoneView
  <2>2. <<>> # <<"killEscaped">>
    OBVIOUS
  <2>. QED
    BY <2>1, <2>2, IdleOK DEF OperationOK, TargetsAreKnown
<1>2. CASE rest # <<>>
  <2>1. /\ daemon' \in Daemons /\ daemon'.steps = rest /\ daemon'.task = d.task /\ daemon'.pid = d.pid
        /\ daemon'.targets = d.targets /\ daemon'.under = d.under
    BY <1>2, DoneView
  <2>2. OperationOK'
    BY <1>2, <2>1 DEF OperationOK, NoneForgotten
  <2>3. TargetsAreKnown'
    BY <2>1 DEF TargetsAreKnown, NoneForgotten
  <2>. QED
    BY <2>1, <2>2, <2>3
<1>. QED
  BY <1>1, <1>2

(* Whom a reaping aims at.                                                 *)
LEMMA AimedOwned ==
  ASSUME OwnedInv, NEW step \in {"target", "verify"}, At(step), NEW more \in SUBSET Known(daemon.task),
         Targets(more), UNCHANGED <<process, unnoticed>>
  PROVE  /\ daemon' \in Daemons /\ OperationOK' /\ TargetsAreKnown'
         /\ daemon'.task = daemon.task /\ daemon'.steps = Tail(daemon.steps) /\ more \subseteq daemon'.targets
         /\ daemon'.steps \in {<<"killAndForget", "close", "join">>, <<"killAndForget">>,
                               <<"kill", "join">>, <<"kill", "join", "relaunch">>}
         /\ step = "target" => daemon'.steps \in {<<"killAndForget", "close", "join">>, <<"killAndForget">>}
<1>. DEFINE t == daemon.task
            rest == Tail(daemon.steps)
            aim == (({daemon.pid} \ {None}) \cup Subtree({daemon.pid})) \cup more
            strangers == {q \in {daemon.pid} \cap Present : process[q].owner # daemon.task}
            new == Subtree(strangers)
<1>1. /\ daemon \in Daemons /\ daemon.steps \in Plans /\ daemon.steps # <<>>
      /\ Head(daemon.steps) = step /\ t \in RunTasks /\ daemon.pid \in Known(t) \cup {None}
  BY OnStep DEF Steps
<1>2. /\ rest \in {<<"killAndForget", "close", "join">>, <<"killAndForget">>,
                   <<"kill", "join">>, <<"kill", "join", "relaunch">>}
      /\ step = "target" => rest \in {<<"killAndForget", "close", "join">>, <<"killAndForget">>}
  BY <1>1, AfterTarget, AfterVerify
<1>3. rest \in Plans /\ rest # <<>> /\ rest # <<"killEscaped">>
  <2>. HIDE DEF rest
  <2>1. rest \in Plans
    BY <1>2 DEF Plans, Terminating, Retiring, Stopping
  <2>2. rest # <<>> /\ rest # <<"killEscaped">>
    BY <1>2
  <2>. QED
    BY <2>1, <2>2
<1>4. daemon' = [Done(daemon) EXCEPT !.targets = aim, !.under = new]
  BY DEF Targets
<1>5. aim \in SUBSET Pids /\ new \in SUBSET Pids
  BY <1>1 DEF OwnedInv, HostOK, Subtree, Present, Known
<1>6. aim \subseteq Known(t) \cup new
  <2>1. CASE strangers = {}
    <3>1. \A p \in {daemon.pid} \cap Present : process[p].owner = t
      BY <2>1
    <3>2. \A p \in Subtree({daemon.pid}) : p \in Present /\ process[p].owner = t
      BY <3>1, SubtreeIsOwned DEF OwnedInv
    <3>. QED
      BY <1>1, <3>2 DEF Known
  <2>2. CASE strangers # {}
    <3>1. strangers = {daemon.pid}
      BY <2>2
    <3>. QED
      BY <1>1, <3>1
  <2>. QED
    BY <2>1, <2>2
<1>7. more \subseteq aim
  OBVIOUS
<1>. HIDE DEF aim, new, rest
<1>8. /\ Done(daemon) \in Daemons /\ Done(daemon).steps = rest /\ Done(daemon).task = t
      /\ Done(daemon).pid = daemon.pid
  BY <1>1, <1>3, DoneView DEF rest
<1>9. /\ daemon' \in Daemons /\ daemon'.steps = rest /\ daemon'.task = t /\ daemon'.pid = daemon.pid
      /\ daemon'.targets = aim /\ daemon'.under = new
  <2>. DEFINE d == Done(daemon)
  <2>. HIDE DEF d
  <2>1. d \in Daemons /\ daemon' = [d EXCEPT !.targets = aim, !.under = new]
    BY <1>4, <1>8 DEF d
  <2>2. /\ daemon' \in Daemons /\ daemon'.steps = d.steps /\ daemon'.task = d.task /\ daemon'.pid = d.pid
        /\ daemon'.targets = aim /\ daemon'.under = new
    BY <1>5, <2>1 DEF Daemons
  <2>. QED
    BY <1>8, <2>2 DEF d
<1>12. NoneForgotten
  BY NothingEnds DEF OwnedInv
<1>10. OperationOK'
  BY <1>1, <1>3, <1>9, <1>12 DEF OperationOK, NoneForgotten
<1>11. TargetsAreKnown'
  BY <1>1, <1>6, <1>9, <1>12 DEF TargetsAreKnown, NoneForgotten
<1>. QED
  BY <1>2, <1>7, <1>9, <1>10, <1>11 DEF rest

LEMMA TargetOwned == ASSUME OwnedInv, TargetRecorded \/ TargetSubtree PROVE OwnedInv'
<1>1. UNCHANGED <<process, root, seenPids, escaped, unnoticed, unsafeStops, snapshotFailures, starts>>
  BY DEF TargetRecorded, TargetSubtree
<1>2. daemon' \in Daemons /\ OperationOK' /\ TargetsAreKnown'
  <2>1. CASE TargetRecorded
    <3>1. At("target") /\ Targets(seenPids[daemon.task])
      BY <2>1 DEF TargetRecorded
    <3>2. daemon.task \in RunTasks
      BY <3>1, OnStep DEF Steps
    <3>3. seenPids[daemon.task] \in SUBSET Known(daemon.task)
      BY <3>2 DEF OwnedInv, RecordsAreOwned
    <3>. QED
      BY <1>1, <3>1, <3>3, AimedOwned
  <2>2. CASE TargetSubtree
    BY <1>1, <2>2, AimedOwned DEF TargetSubtree
  <2>. QED
    BY <2>1, <2>2
<1>. QED
  BY <1>1, <1>2, HostStays DEF OwnedInv, HostOK

LEMMA JoinOwned == ASSUME OwnedInv, JoinReader PROVE OwnedInv'
<1>. DEFINE rest == Tail(daemon.steps)
<1>1. /\ UNCHANGED <<process, root, seenPids, escaped, unnoticed, unsafeStops, snapshotFailures, starts>>
      /\ At("join") /\ daemon' = Done(daemon)
  BY DEF JoinReader
<1>2. /\ daemon \in Daemons /\ daemon.steps \in Plans /\ daemon.steps # <<>>
      /\ Head(daemon.steps) = "join" /\ daemon.task \in RunTasks
      /\ daemon.pid \in Known(daemon.task) \cup {None}
  BY <1>1, OnStep DEF Steps
<1>3. rest \in Plans /\ rest # <<"killEscaped">>
  <2>1. rest \in {<<>>, <<"relaunch">>, <<"target", "killAndForget">>}
    BY <1>2, AfterJoin
  <2>. QED
    BY <2>1 DEF Plans, Terminating, Retiring, Stopping
<1>4. daemon.targets \subseteq Known(daemon.task) \cup daemon.under
  BY <1>2, Names DEF OwnedInv, TargetsAreKnown
<1>5. daemon' \in Daemons /\ OperationOK' /\ TargetsAreKnown'
  BY <1>1, <1>2, <1>3, <1>4, NothingEnds, MovesOn DEF OwnedInv
<1>. QED
  BY <1>1, <1>5, HostStays DEF OwnedInv, HostOK

LEMMA CloseOwned == ASSUME OwnedInv, CloseRuntime PROVE OwnedInv'
<1>. DEFINE t == daemon.task
            dead == {root[t]} \ {None}
<1>1. /\ UNCHANGED <<seenPids, escaped, unsafeStops, snapshotFailures, starts>>
      /\ At("close") /\ daemon' = Done(daemon) /\ root' = [root EXCEPT ![t] = None]
      /\ Die(dead, dead)
  BY DEF CloseRuntime
<1>2. /\ daemon \in Daemons /\ daemon.steps \in Plans /\ daemon.steps # <<>>
      /\ Head(daemon.steps) = "close" /\ t \in RunTasks
      /\ daemon.pid \in Known(t) \cup {None}
  BY <1>1, OnStep DEF Steps
<1>3. Tail(daemon.steps) = <<"join">> /\ <<"join">> \in Plans /\ <<"join">> # <<"killEscaped">>
  BY <1>2, AfterClose DEF Plans, Terminating
<1>4. daemon.targets \subseteq Known(t) \cup daemon.under
  BY <1>2, Names DEF OwnedInv, TargetsAreKnown
<1>6. dead \in SUBSET Pids /\ root' \in [RunTasks -> Pids \cup {None}]
  BY <1>1, <1>2, ProviderIsOwned DEF OwnedInv, HostOK
<1>5. daemon' \in Daemons /\ OperationOK' /\ TargetsAreKnown'
  <2>. HIDE DEF dead
  <2>1. NoneForgotten
    BY <1>1, <1>6, TheDeadAreKnown DEF OwnedInv
  <2>. QED
    BY <1>1, <1>2, <1>3, <1>4, <2>1, MovesOn
<1>7. \A u \in RunTasks : root'[u] # None => root'[u] = root[u] /\ root[u] \notin dead \cap dead
  BY <1>1, <1>2 DEF OwnedInv, HostOK, ProvidersStand
<1>8. /\ unsafeStops' \subseteq RunTasks /\ snapshotFailures' \in 0..MaxSnapshotFailures
      /\ seenPids' \in [RunTasks -> SUBSET Pids] /\ escaped' \subseteq escaped
      /\ \A u \in RunTasks : seenPids'[u] \subseteq seenPids[u]
  BY <1>1 DEF OwnedInv, HostOK
<1>. HIDE DEF dead
<1>. QED
  BY <1>1, <1>5, <1>6, <1>7, <1>8, HostDies

(* What a kill leaves of the records and of the operation.                 *)
LEMMA KillForgetsNone == ASSUME OwnedInv, KillSurvivors PROVE NoneForgotten
<1>1. CASE UNCHANGED <<process, unnoticed>>
  BY <1>1, NothingEnds DEF OwnedInv
<1>2. CASE Die(daemon.targets \cap Alive, {})
  <2>1. daemon.targets \cap Alive \in SUBSET Pids
    BY DEF Alive
  <2>. QED
    BY <1>2, <2>1, TheDeadAreKnown DEF OwnedInv
<1>. QED
  BY <1>1, <1>2 DEF KillSurvivors

LEMMA KillMovesOn ==
  ASSUME OwnedInv, KillSurvivors
  PROVE  /\ daemon' \in Daemons /\ OperationOK' /\ TargetsAreKnown'
         /\ At("killAndForget") => daemon.task \in RunTasks /\ daemon'.steps \in {<<"close", "join">>, <<>>}
         /\ daemon'.steps # <<>> => daemon'.task = daemon.task
<1>. DEFINE d == [daemon EXCEPT !.targets = {}, !.under = {}]
            rest == Tail(daemon.steps)
<1>1. daemon' = Done(d)
  BY DEF KillSurvivors
<1>9. NoneForgotten
  BY KillForgetsNone
<1>2. /\ daemon \in Daemons /\ daemon.steps \in Plans /\ daemon.steps # <<>>
      /\ Head(daemon.steps) \in {"kill", "killAndForget", "killEscaped"}
  BY DEF KillSurvivors, At, OwnedInv, HostOK, Daemons
<1>3. \/ Head(daemon.steps) = "kill" /\ rest \in {<<"join">>, <<"join", "relaunch">>}
      \/ Head(daemon.steps) = "killAndForget" /\ rest \in {<<"close", "join">>, <<>>}
      \/ Head(daemon.steps) = "killEscaped" /\ daemon.steps = <<"killEscaped">> /\ rest = <<>>
  BY <1>2, AfterKill
<1>4. rest \in Plans /\ rest # <<"killEscaped">>
  BY <1>3 DEF Plans, Terminating, Stopping
<1>5. /\ d \in Daemons /\ d.steps = daemon.steps /\ d.task = daemon.task /\ d.pid = daemon.pid
      /\ d.targets = {} /\ d.under = {}
  BY <1>2 DEF Daemons
<1>6. rest # <<>> => At("kill") \/ At("killAndForget")
  BY <1>2, <1>3 DEF At
<1>. HIDE DEF d, rest
<1>7. CASE rest = <<>>
  <2>1. daemon' = Idle
    BY <1>1, <1>4, <1>5, <1>7, DoneView DEF rest
  <2>2. <<>> # <<"killEscaped">>
    OBVIOUS
  <2>3. At("killAndForget") => daemon.task \in RunTasks
    BY OnStep DEF Steps
  <2>. QED
    BY <2>1, <2>2, <2>3, IdleOK DEF OperationOK, TargetsAreKnown
<1>8. CASE rest # <<>>
  <2>1. daemon.task \in RunTasks /\ daemon.pid \in Known(daemon.task) \cup {None}
    BY <1>6, <1>8, OnStep DEF Steps
  <2>2. d.task \in RunTasks /\ d.pid \in Known(d.task) \cup {None}
        /\ d.targets \subseteq Known(d.task) \cup d.under /\ Tail(d.steps) = rest
    BY <1>5, <2>1 DEF rest
  <2>3. daemon' \in Daemons /\ OperationOK' /\ TargetsAreKnown'
    BY <1>1, <1>4, <1>5, <1>9, <2>2, MovesOn
  <2>4. daemon'.steps = rest /\ daemon'.task = daemon.task
    BY <1>1, <1>4, <1>5, <1>8, <2>2, DoneView
  <2>5. At("killAndForget") => rest \in {<<"close", "join">>, <<>>}
    BY <1>3 DEF At
  <2>. QED
    BY <2>1, <2>3, <2>4, <2>5
<1>. QED
  BY <1>7, <1>8

LEMMA KillOwned == ASSUME OwnedInv, KillSurvivors PROVE OwnedInv'
<1>1. daemon' \in Daemons /\ OperationOK' /\ TargetsAreKnown'
  BY KillMovesOn
<1>2. UNCHANGED <<root, starts>>
  BY DEF KillSurvivors
<1>3. /\ unsafeStops' \subseteq RunTasks /\ snapshotFailures' \in 0..MaxSnapshotFailures
  <2>1. daemon.task \in RunTasks \cup {None}
    BY DEF OwnedInv, HostOK, Daemons
  <2>. QED
    BY <2>1, OwnershipAssumption DEF KillSurvivors, OwnedInv, HostOK
<1>4. /\ seenPids' \in [RunTasks -> SUBSET Pids] /\ escaped' \subseteq escaped
      /\ \A u \in RunTasks : seenPids'[u] \subseteq seenPids[u]
  BY DEF KillSurvivors, OwnedInv, HostOK
<1>5. CASE UNCHANGED <<process, unnoticed>>
  BY <1>1, <1>2, <1>3, <1>4, <1>5, HostStays
<1>6. CASE Die(daemon.targets \cap Alive, {})
  <2>. DEFINE dead == daemon.targets \cap Alive
              waited == {}
  <2>1. dead \in SUBSET Pids /\ Die(dead, waited)
    BY <1>6 DEF Alive
  <2>2. root' \in [RunTasks -> Pids \cup {None}]
        /\ \A u \in RunTasks : root'[u] # None => root'[u] = root[u] /\ root[u] \notin dead \cap waited
    BY <1>2 DEF OwnedInv, HostOK
  <2>. HIDE DEF dead, waited
  <2>. QED
    BY <1>1, <1>2, <1>3, <1>4, <2>1, <2>2, HostDies
<1>. QED
  BY <1>5, <1>6 DEF KillSurvivors

-----------------------------------------------------------------------------
LEMMA OwnedInitOK == OwnershipInit => OwnedInv
<1>. SUFFICES ASSUME OwnershipInit PROVE OwnedInv
  OBVIOUS
<1>1. NoProcess \in Processes /\ NoProcess.status = "absent"
  BY DEF NoProcess, Processes
<1>2. HostOK
  BY <1>1, IdleOK, OwnershipAssumption DEF OwnershipInit, HostOK
<1>3. Present = {}
  BY <1>1 DEF OwnershipInit, Present
<1>4. Lineage /\ ProvidersStand /\ RecordsAreOwned
  BY <1>3 DEF OwnershipInit, Lineage, ProvidersStand, RecordsAreOwned
<1>5. OperationOK /\ TargetsAreKnown
  <2>1. <<>> # <<"killEscaped">>
    OBVIOUS
  <2>. QED
    BY <2>1, IdleOK DEF OwnershipInit, OperationOK, TargetsAreKnown
<1>. QED
  BY <1>2, <1>4, <1>5 DEF OwnedInv

LEMMA OwnedStepOK == OwnedInv /\ [OwnershipNext]_ownVars => OwnedInv'
<1>. SUFFICES ASSUME OwnedInv, [OwnershipNext]_ownVars PROVE OwnedInv'
  OBVIOUS
<1>1. CASE UNCHANGED ownVars
  BY <1>1 DEF ownVars, OwnedInv, HostOK, Lineage, ProvidersStand, RecordsAreOwned, Known, KnownToAll,
     OperationOK, TargetsAreKnown, Present
<1>2. ASSUME NEW t \in RunTasks, Launch(t) \/ TerminateTree(t) \/ RetireTree(t) PROVE OwnedInv'
  BY <1>2, LaunchOwned, TerminateOwned, RetireOwned
<1>3. ASSUME DaemonStep PROVE OwnedInv'
  BY <1>3, TargetOwned, KillOwned, CloseOwned, JoinOwned, RelaunchOwned DEF DaemonStep
<1>. QED
  BY <1>1, <1>2, <1>3, ForkOwned, ForeignStartsOwned, ProcessExitsOwned, SampleTickOwned,
     ReclaimOwned, StopOwned DEF OwnershipNext

(* The processes and the daemon's records of them stay of their types      *)
(* (daemon.rs, sample_tick, and memmux-proc's tree.rs).                    *)
THEOREM OwnershipTypeCorrect == OwnershipSpec => []OwnershipTypeOK
<1>1. OwnedInv => OwnershipTypeOK
  <2>. SUFFICES ASSUME OwnedInv PROVE OwnershipTypeOK
    OBVIOUS
  <2>1. daemon \in [task : RunTasks \cup {None}, pid : Pids \cup {None}, targets : SUBSET Pids,
                    under : SUBSET Pids, steps : Seq(Steps)]
    BY PlansAreSteps DEF OwnedInv, HostOK, Daemons
  <2>. QED
    BY <2>1 DEF OwnedInv, HostOK, OwnershipTypeOK, Processes
<1>. QED
  BY OwnedInitOK, OwnedStepOK, <1>1, PTL DEF OwnershipSpec

(* Reaping, stopping and reclaiming (daemon.rs, reap_task_processes;       *)
(* terminate.rs, terminate_pids) signal the processes of the task at hand. *)
(* A stranger is among them only where a pid changed hands that no sample  *)
(* has found gone in between: it is still recorded, or was aimed at, or    *)
(* was the provider's own, with what now runs under it.  A pid recorded    *)
(* once and since found gone is never taken for the task's again.  For any *)
(* tasks, any pids and any forks, deaths and reuse in between.             *)
THEOREM VictimsAreOwn == OwnershipSpec => []VictimsWereOwned
<1>1. ASSUME OwnedInv PROVE VictimsWereOwned
  <2>. SUFFICES ASSUME NEW p \in daemon.targets \cap Alive, p \notin daemon.under
                PROVE  \E t \in IF daemon.task = None THEN RunTasks ELSE {daemon.task} :
                         process[p].owner = t \/ p \in unnoticed[t]
    BY DEF VictimsWereOwned
  <2>1. PICK t \in RunTasks : daemon.task \in {None, t} /\ p \in Known(t)
    BY <1>1 DEF OwnedInv, TargetsAreKnown
  <2>. QED
    BY <2>1, Names DEF Known
<1>. QED
  BY OwnedInitOK, OwnedStepOK, <1>1, PTL DEF OwnershipSpec

-----------------------------------------------------------------------------
(* Nothing sampled is lost.                                                *)

(* No living process of the task has been sampled.                         *)
Clean(t) == \A p \in Alive : process[p].owner = t => ~process[p].sampled

(* Its recorded processes are yet to be killed.                            *)
ToForget == {<<"target", "killAndForget", "close", "join">>, <<"killAndForget", "close", "join">>} \cup Retiring
Forgetting(t) == daemon.task = t /\ daemon.steps \in ToForget

Tracked ==
  \A p \in Alive : \A t \in RunTasks :
    process[p].owner = t /\ process[p].sampled => p \in seenPids[t] \/ t \in unsafeStops
Forgotten == \A t \in RunTasks : root[t] = None => Clean(t) \/ t \in unsafeStops \/ Forgetting(t)
Closing   == daemon.steps = <<"close", "join">> => Clean(daemon.task) \/ daemon.task \in unsafeStops
Aimed     == At("killAndForget") => seenPids[daemon.task] \subseteq daemon.targets

LeakInv == Tracked /\ Forgotten /\ Closing /\ Aimed

(* Who lives and was sampled, lived and was sampled before.                *)
Ages ==
  \A p \in Alive' : process'[p].sampled =>
    p \in Alive /\ process[p].sampled /\ process'[p].owner = process[p].owner

LEMMA CleanStays == ASSUME Ages PROVE \A t : Clean(t) => Clean(t)'
BY DEF Ages, Clean

LEMMA DeathAges ==
  ASSUME OwnedInv, NEW dead \in SUBSET Pids, NEW waited, process' = AfterDeath(dead, waited)
  PROVE  Ages /\ Alive' \subseteq Alive \ dead
<1>1. HostOK /\ Lineage /\ ProvidersStand
  BY DEF OwnedInv
<1>2. Alive' \subseteq Alive \ dead
      /\ \A p \in Present' : process'[p].owner = process[p].owner /\ process'[p].sampled = process[p].sampled
  BY <1>1, DeathKeeps
<1>3. Alive' \subseteq Present'
  <2>1. "alive" # "absent"
    OBVIOUS
  <2>. QED
    BY <2>1 DEF Alive, Present
<1>. QED
  BY <1>2, <1>3 DEF Ages

LEMMA StartAges ==
  ASSUME OwnedInv, NEW p \in Free, NEW parent \in Pids \cup {InitPid, DaemonPid},
         NEW o \in RunTasks \cup {Foreign}, NEW tty \in BOOLEAN, Started(p, parent, o, tty),
         parent \in Pids => parent \in Present /\ process[parent].owner = o
  PROVE  Ages
<1>1. /\ p \in Pids /\ Alive' = Alive \cup {p} /\ ~process'[p].sampled
      /\ \A q \in Pids \ {p} : process'[q] = process[q]
  BY StartKeeps DEF OwnedInv
<1>. QED
  BY <1>1 DEF Ages, Alive

(* A step beside the operations.                                           *)
LEMMA LeaksStay ==
  ASSUME LeakInv, Ages, UNCHANGED <<seenPids, daemon, unsafeStops>>,
         \A t \in RunTasks : root'[t] = None => root[t] = None
  PROVE  LeakInv'
<1>1. Tracked'
  BY DEF LeakInv, Tracked, Ages
<1>2. Forgotten'
  BY CleanStays DEF LeakInv, Forgotten, Forgetting
<1>3. Closing' /\ Aimed'
  BY CleanStays DEF LeakInv, Closing, Aimed, At
<1>. QED
  BY <1>1, <1>2, <1>3 DEF LeakInv

LEMMA SystemLeaks ==
  ASSUME OwnedInv, LeakInv, ForeignStarts \/ \E p \in Pids : Fork(p) \/ ProcessExits(p)
  PROVE  LeakInv'
<1>1. UNCHANGED <<root, seenPids, daemon, unsafeStops>>
  BY DEF ForeignStarts, Fork, ProcessExits
<1>2. CASE ForeignStarts
  <2>1. Ages
    BY <1>2, StartAges, Names DEF ForeignStarts
  <2>. QED
    BY <1>1, <2>1, LeaksStay
<1>3. ASSUME NEW p \in Pids, Fork(p) PROVE LeakInv'
  <2>1. PICK child \in Free, tty \in {FALSE, process[p].tty} : Started(child, p, process[p].owner, tty)
    BY <1>3 DEF Fork
  <2>2. process[p].owner \in RunTasks /\ p \in Present /\ tty \in BOOLEAN
    <3>1. process[p] \in Processes /\ process[p].status = "alive" /\ process[p].owner # Foreign
      BY <1>3 DEF Fork, OwnedInv, HostOK
    <3>. QED
      BY <2>1, <3>1 DEF Processes, Present
  <2>3. Ages
    BY <2>1, <2>2, StartAges
  <2>. QED
    BY <1>1, <2>3, LeaksStay
<1>4. ASSUME NEW p \in Pids, ProcessExits(p) PROVE LeakInv'
  <2>1. {p} \in SUBSET Pids /\ process' = AfterDeath({p}, {})
    BY <1>4 DEF ProcessExits, Die
  <2>2. Ages
    BY <2>1, DeathAges
  <2>. QED
    BY <1>1, <2>2, LeaksStay
<1>. QED
  BY <1>2, <1>3, <1>4

LEMMA LaunchAges ==
  ASSUME OwnedInv, NEW t \in RunTasks, NEW p \in Free, LaunchAs(t, p)
  PROVE  Ages /\ \A u \in RunTasks : root'[u] = None => root[u] = None
<1>1. Ages
  BY StartAges, Names DEF LaunchAs
<1>2. p \in Pids /\ root' = [root EXCEPT ![t] = p]
  BY DEF LaunchAs, Free
<1>. QED
  BY <1>1, <1>2, Names DEF OwnedInv, HostOK

LEMMA LaunchLeaks == ASSUME OwnedInv, LeakInv, NEW t \in RunTasks, Launch(t) PROVE LeakInv'
<1>1. PICK p \in Free : LaunchAs(t, p)
  BY DEF Launch
<1>2. UNCHANGED <<seenPids, daemon, unsafeStops>>
  BY DEF Launch
<1>. QED
  BY <1>1, <1>2, LaunchAges, LeaksStay

(* A tick records, under its task, every process it samples.               *)
LEMMA SampleTickLeaks == ASSUME OwnedInv, LeakInv, SampleTick PROVE LeakInv'
<1>1. UNCHANGED <<root, daemon, unsafeStops>> /\ daemon = Idle
  BY DEF SampleTick
<1>2. \A t \in RunTasks : ~Forgetting(t)
  <2>1. <<>> \notin ToForget
    BY DEF ToForget, Retiring
  <2>. QED
    BY <1>1, <2>1, IdleOK DEF Forgetting
<1>3. Closing' /\ Aimed'
  <2>1. <<>> # <<"close", "join">>
    OBVIOUS
  <2>. QED
    BY <1>1, <2>1, IdleOK DEF Closing, Aimed, At
<1>4. CASE Roots = {} /\ seenPids' = [t \in RunTasks |-> {}] /\ UNCHANGED process
  <2>1. \A t \in RunTasks : root[t] = None
    BY <1>4 DEF Roots
  <2>2. \A t \in RunTasks : Clean(t) \/ t \in unsafeStops
    BY <1>2, <2>1 DEF LeakInv, Forgotten
  <2>3. Tracked' /\ Forgotten'
    BY <1>1, <1>4, <2>2 DEF Tracked, Forgotten, Clean, Alive
  <2>. QED
    BY <1>3, <2>3 DEF LeakInv
<1>5. CASE /\ seenPids' = [t \in RunTasks |->
                 IF root[t] = None THEN {} ELSE (seenPids[t] \cup Subtree({root[t]})) \cap Present]
           /\ process' = [p \in Pids |->
                 IF p \in Subtree(Roots) THEN [process[p] EXCEPT !.sampled = TRUE] ELSE process[p]]
  <2>1. ASSUME NEW r \in Processes
        PROVE  /\ [r EXCEPT !.sampled = TRUE].owner = r.owner
               /\ [r EXCEPT !.sampled = TRUE].status = r.status
    BY DEF Processes
  <2>2. /\ Alive' = Alive
        /\ \A p \in Alive : /\ process'[p].owner = process[p].owner
                            /\ p \notin Subtree(Roots) => process'[p] = process[p]
    BY <1>5, <2>1 DEF OwnedInv, HostOK, Alive
  <2>3. ASSUME NEW p \in Alive, p \in Subtree(Roots), NEW t \in RunTasks, process[p].owner = t
        PROVE  root[t] # None /\ p \in seenPids'[t]
    <3>1. PICK u \in RunTasks : root[u] # None /\ p \in Subtree({root[u]})
      BY <2>3, SubtreeOfRoots DEF OwnedInv
    <3>2. \A q \in {root[u]} \cap Present : process[q].owner = u
      BY <3>1 DEF OwnedInv, ProvidersStand
    <3>3. p \in Present /\ process[p].owner = u
      BY <3>1, <3>2, SubtreeIsOwned DEF OwnedInv
    <3>. QED
      BY <1>5, <2>3, <3>1, <3>3
  <2>4. ASSUME NEW p \in Alive, p \notin Subtree(Roots), NEW t \in RunTasks, process[p].owner = t,
               process[p].sampled
        PROVE  p \in seenPids'[t] \/ t \in unsafeStops
    <3>1. p \in Present
      <4>1. "alive" # "absent"
        OBVIOUS
      <4>. QED
        BY <4>1 DEF Alive, Present
    <3>2. CASE root[t] = None
      BY <1>2, <2>4, <3>2 DEF LeakInv, Forgotten, Clean
    <3>3. CASE root[t] # None
      BY <1>5, <2>4, <3>1, <3>3 DEF LeakInv, Tracked
    <3>. QED
      BY <3>2, <3>3
  <2>5. Tracked'
    BY <1>1, <2>2, <2>3, <2>4 DEF Tracked
  <2>6. Forgotten'
    <3>1. ASSUME NEW t \in RunTasks, root[t] = None, Clean(t) PROVE Clean(t)'
      BY <2>2, <2>3, <3>1 DEF Clean
    <3>. QED
      BY <1>1, <1>2, <3>1 DEF LeakInv, Forgotten
  <2>. QED
    BY <1>3, <2>5, <2>6 DEF LeakInv
<1>. QED
  BY <1>4, <1>5 DEF SampleTick

-----------------------------------------------------------------------------
(* A step of an operation that forgets nothing.                            *)
LEMMA LeaksMove ==
  ASSUME LeakInv, Ages, seenPids' = seenPids, unsafeStops \subseteq unsafeStops',
         \A t \in RunTasks : root'[t] = None /\ root[t] # None =>
           Clean(t) \/ t \in unsafeStops' \/ Forgetting(t)',
         \A t \in RunTasks : Forgetting(t) => Forgetting(t)',
         daemon'.steps # <<"close", "join">>, Aimed'
  PROVE  LeakInv'
<1>1. Tracked'
  BY DEF LeakInv, Tracked, Ages
<1>2. Forgotten'
  <2>1. ASSUME NEW t \in RunTasks, root'[t] = None PROVE Clean(t) \/ t \in unsafeStops' \/ Forgetting(t)'
    <3>1. CASE root[t] = None
      BY <3>1 DEF LeakInv, Forgotten
    <3>2. CASE root[t] # None
      BY <2>1, <3>2
    <3>. QED
      BY <3>1, <3>2
  <2>. QED
    BY <2>1, CleanStays DEF Forgotten
<1>3. Closing'
  BY DEF Closing
<1>. QED
  BY <1>1, <1>2, <1>3 DEF LeakInv

LEMMA IdleForgetsNothing == daemon = Idle => \A t \in RunTasks : ~Forgetting(t)
<1>1. <<>> \notin ToForget
  BY DEF ToForget, Retiring
<1>. QED
  BY <1>1, IdleOK DEF Forgetting

(* A new operation: what is being forgotten is its own task's.             *)
LEMMA NotYet ==
  ASSUME NEW first, first # "killAndForget", daemon'.steps # <<>> => Head(daemon'.steps) = first
  PROVE  Aimed'
BY DEF Aimed, At

LEMMA StayAges == ASSUME UNCHANGED process PROVE Ages
BY DEF Ages, Alive

LEMMA TerminateLeaks == ASSUME OwnedInv, LeakInv, NEW t \in RunTasks, TerminateTree(t) PROVE LeakInv'
<1>1. /\ daemon = Idle /\ UNCHANGED <<process, root, seenPids, unsafeStops>>
      /\ daemon'.steps = <<"target", "killAndForget", "close", "join">>
  BY DEF TerminateTree, Begin
<1>2. /\ <<"target", "killAndForget", "close", "join">> # <<"close", "join">>
      /\ Head(<<"target", "killAndForget", "close", "join">>) = "target" /\ "target" # "killAndForget"
  OBVIOUS
<1>3. Aimed'
  BY <1>1, <1>2, NotYet
<1>. QED
  BY <1>1, <1>2, <1>3, IdleForgetsNothing, StayAges, LeaksMove

LEMMA ReclaimLeaks == ASSUME OwnedInv, LeakInv, ReclaimEscaped PROVE LeakInv'
<1>1. /\ daemon = Idle /\ UNCHANGED <<process, root, seenPids, unsafeStops>>
      /\ daemon' = [Idle EXCEPT !.targets = escaped, !.steps = <<"killEscaped">>]
  BY DEF ReclaimEscaped
<1>2. daemon'.steps = <<"killEscaped">>
  BY <1>1, IdleOK DEF Daemons
<1>3. <<"killEscaped">> # <<"close", "join">> /\ Head(<<"killEscaped">>) = "killEscaped"
      /\ "killEscaped" # "killAndForget"
  OBVIOUS
<1>4. Aimed'
  BY <1>2, <1>3, NotYet
<1>. QED
  BY <1>1, <1>2, <1>3, <1>4, IdleForgetsNothing, StayAges, LeaksMove

LEMMA RetireLeaks == ASSUME OwnedInv, LeakInv, NEW t \in RunTasks, RetireTree(t) PROVE LeakInv'
<1>1. /\ daemon = Idle /\ UNCHANGED <<seenPids, unsafeStops>> /\ root[t] # None
      /\ root' = [root EXCEPT ![t] = None] /\ process' = AfterDeath({root[t]}, {root[t]})
      /\ daemon'.steps = <<"join", "target", "killAndForget">> /\ daemon'.task = t
  BY DEF RetireTree, Begin, Die
<1>2. /\ <<"join", "target", "killAndForget">> # <<"close", "join">>
      /\ Head(<<"join", "target", "killAndForget">>) = "join" /\ "join" # "killAndForget"
  OBVIOUS
<1>3. Aimed'
  BY <1>1, <1>2, NotYet
<1>4. Ages
  <2>1. {root[t]} \in SUBSET Pids
    BY <1>1, ProviderIsOwned
  <2>. QED
    BY <1>1, <2>1, DeathAges
<1>5. \A u \in RunTasks : root'[u] = None /\ root[u] # None => u = t
  BY <1>1 DEF OwnedInv, HostOK
<1>6. Forgetting(t)'
  BY <1>1 DEF Forgetting, ToForget, Retiring
<1>7. daemon'.steps # <<"close", "join">> /\ unsafeStops \subseteq unsafeStops'
  BY <1>1, <1>2
<1>. QED
  BY <1>1, <1>3, <1>4, <1>5, <1>6, <1>7, IdleForgetsNothing, LeaksMove

LEMMA StopLeaks ==
  ASSUME OwnedInv, LeakInv, NEW t \in RunTasks, NEW again \in BOOLEAN, StopTree(t, again)
  PROVE  LeakInv'
<1>1. /\ daemon = Idle /\ seenPids' = seenPids /\ root[t] # None /\ unsafeStops' = unsafeStops \cup {t}
      /\ root' = [root EXCEPT ![t] = None] /\ process' = AfterDeath({root[t]}, {root[t]})
  BY DEF StopTree, Die
<1>2. daemon'.steps = <<"verify", "kill", "join">> \/ daemon'.steps = <<"verify", "kill", "join", "relaunch">>
  BY DEF StopTree, Begin
<1>3. /\ <<"verify", "kill", "join">> # <<"close", "join">>
      /\ <<"verify", "kill", "join", "relaunch">> # <<"close", "join">>
      /\ Head(<<"verify", "kill", "join">>) = "verify" /\ "verify" # "killAndForget"
      /\ Head(<<"verify", "kill", "join", "relaunch">>) = "verify"
  OBVIOUS
<1>4. Aimed' /\ daemon'.steps # <<"close", "join">>
  BY <1>2, <1>3, NotYet
<1>5. Ages
  <2>1. {root[t]} \in SUBSET Pids
    BY <1>1, ProviderIsOwned
  <2>. QED
    BY <1>1, <2>1, DeathAges
<1>6. \A u \in RunTasks : root'[u] = None /\ root[u] # None => u \in unsafeStops'
  BY <1>1 DEF OwnedInv, HostOK
<1>. QED
  BY <1>1, <1>4, <1>5, <1>6, IdleForgetsNothing, LeaksMove

LEMMA TargetLeaks == ASSUME OwnedInv, LeakInv, TargetRecorded \/ TargetSubtree PROVE LeakInv'
<1>1. UNCHANGED <<process, root, seenPids, unnoticed, unsafeStops>>
  BY DEF TargetRecorded, TargetSubtree
<1>2. CASE TargetRecorded
  <2>1. At("target") /\ Targets(seenPids[daemon.task])
    BY <1>2 DEF TargetRecorded
  <2>2. daemon.task \in RunTasks
    BY <2>1, OnStep DEF Steps
  <2>3. seenPids[daemon.task] \in SUBSET Known(daemon.task)
    BY <2>2 DEF OwnedInv, RecordsAreOwned
  <2>4. /\ daemon'.task = daemon.task /\ seenPids[daemon.task] \subseteq daemon'.targets
        /\ daemon'.steps \in {<<"killAndForget", "close", "join">>, <<"killAndForget">>}
    BY <1>1, <2>1, <2>3, AimedOwned
  <2>5. Aimed' /\ \A t \in RunTasks : Forgetting(t) => Forgetting(t)'
    BY <1>1, <2>4 DEF Aimed, Forgetting, ToForget, Retiring
  <2>6. <<"killAndForget", "close", "join">> # <<"close", "join">> /\ <<"killAndForget">> # <<"close", "join">>
    OBVIOUS
  <2>. QED
    BY <1>1, <2>4, <2>5, <2>6, StayAges, LeaksMove
<1>3. CASE TargetSubtree
  <2>1. At("verify") /\ Targets({})
    BY <1>3 DEF TargetSubtree
  <2>2. daemon.steps \in Plans /\ daemon.steps # <<>> /\ Head(daemon.steps) = "verify"
    BY <2>1, OnStep DEF Steps
  <2>3. daemon'.steps = Tail(daemon.steps)
    BY <1>1, <2>1, AimedOwned
  <2>4. daemon'.steps \in {<<"kill", "join">>, <<"kill", "join", "relaunch">>}
    BY <2>2, <2>3, AfterVerify
  <2>5. /\ <<"kill", "join">> # <<"close", "join">> /\ <<"kill", "join", "relaunch">> # <<"close", "join">>
        /\ Head(<<"kill", "join">>) = "kill" /\ Head(<<"kill", "join", "relaunch">>) = "kill"
        /\ "kill" # "killAndForget"
    OBVIOUS
  <2>6. Aimed' /\ daemon'.steps # <<"close", "join">>
    BY <2>4, <2>5, NotYet
  <2>7. \A t \in RunTasks : ~Forgetting(t)
    BY <2>2 DEF Forgetting, ToForget, Retiring
  <2>. QED
    BY <1>1, <2>6, <2>7, StayAges, LeaksMove
<1>. QED
  BY <1>2, <1>3

LEMMA KillLeaks == ASSUME OwnedInv, LeakInv, KillSurvivors PROVE LeakInv'
<1>1. /\ UNCHANGED root
      /\ seenPids' = IF At("killAndForget") THEN [seenPids EXCEPT ![daemon.task] = {}] ELSE seenPids
      /\ \/ process' = AfterDeath(daemon.targets \cap Alive, {}) /\ unsafeStops' = unsafeStops
         \/ unsafeStops' = unsafeStops \cup ({daemon.task} \ {None}) /\ process' = process
  BY DEF KillSurvivors, Die
<1>2. Ages
  <2>1. daemon.targets \cap Alive \in SUBSET Pids
    BY DEF Alive
  <2>. QED
    BY <1>1, <2>1, DeathAges, StayAges
<1>3. daemon.steps \in Plans /\ daemon.steps # <<>>
      /\ Head(daemon.steps) \in {"kill", "killAndForget", "killEscaped"}
  BY DEF KillSurvivors, At, OwnedInv, HostOK, Daemons
<1>4. CASE At("killAndForget")
  <2>1. PICK t \in RunTasks :
          /\ t = daemon.task /\ daemon'.steps \in {<<"close", "join">>, <<>>}
          /\ daemon'.steps # <<>> => daemon'.task = t
    BY <1>4, KillMovesOn
  <2>2. seenPids[t] \subseteq daemon.targets
    BY <1>4, <2>1 DEF LeakInv, Aimed
  <2>3. Clean(t)' \/ t \in unsafeStops'
    <3>1. CASE process' = AfterDeath(daemon.targets \cap Alive, {}) /\ unsafeStops' = unsafeStops
      <4>1. daemon.targets \cap Alive \in SUBSET Pids
        BY DEF Alive
      <4>2. Alive' \subseteq Alive \ (daemon.targets \cap Alive)
        BY <3>1, <4>1, DeathAges
      <4>. QED
        BY <1>2, <2>1, <2>2, <3>1, <4>2 DEF LeakInv, Tracked, Clean, Ages
    <3>2. CASE unsafeStops' = unsafeStops \cup ({daemon.task} \ {None})
      BY <2>1, <3>2, Names
    <3>. QED
      BY <1>1, <3>1, <3>2
  <2>4. /\ unsafeStops \subseteq unsafeStops'
        /\ \A u \in RunTasks : u # t => seenPids'[u] = seenPids[u]
    BY <1>1, <1>4, <2>1 DEF OwnedInv, HostOK
  <2>5. Tracked'
    BY <1>2, <2>3, <2>4 DEF LeakInv, Tracked, Ages, Clean
  <2>6. Forgotten'
    BY <1>1, <1>2, <2>1, <2>3, <2>4, CleanStays DEF LeakInv, Forgotten, Forgetting
  <2>7. Closing' /\ Aimed'
    <3>1. <<>> # <<"close", "join">> /\ Head(<<"close", "join">>) = "close" /\ "close" # "killAndForget"
      OBVIOUS
    <3>2. Closing'
      BY <2>1, <2>3, <3>1 DEF Closing
    <3>3. Aimed'
      BY <2>1, <3>1, NotYet
    <3>. QED
      BY <3>2, <3>3
  <2>. QED
    BY <2>5, <2>6, <2>7 DEF LeakInv
<1>5. CASE ~At("killAndForget")
  <2>1. daemon.steps \notin ToForget \/ Head(daemon.steps) \notin {"kill", "killEscaped"}
    BY DEF ToForget, Retiring
  <2>2. \A u \in RunTasks : ~Forgetting(u)
    BY <1>3, <1>5, <2>1 DEF Forgetting, At
  <2>3. daemon'.steps \in {<<"join">>, <<"join", "relaunch">>, <<>>}
    <3>. DEFINE d == [daemon EXCEPT !.targets = {}, !.under = {}]
                rest == Tail(daemon.steps)
    <3>1. daemon' = Done(d) /\ d \in Daemons /\ d.steps = daemon.steps
      BY DEF KillSurvivors, OwnedInv, HostOK, Daemons
    <3>2. rest \in {<<"join">>, <<"join", "relaunch">>, <<>>}
      BY <1>3, <1>5, AfterKill DEF At
    <3>3. rest \in Plans /\ Tail(d.steps) = rest
      BY <3>1, <3>2 DEF Plans, Terminating, Stopping
    <3>. HIDE DEF d, rest
    <3>. QED
      BY <3>1, <3>2, <3>3, DoneView, IdleOK
  <2>4. /\ <<"join">> # <<"close", "join">> /\ <<"join", "relaunch">> # <<"close", "join">>
        /\ <<>> # <<"close", "join">> /\ Head(<<"join">>) = "join" /\ Head(<<"join", "relaunch">>) = "join"
        /\ "join" # "killAndForget"
    OBVIOUS
  <2>5. Aimed' /\ daemon'.steps # <<"close", "join">>
    BY <2>3, <2>4, NotYet
  <2>6. seenPids' = seenPids /\ unsafeStops \subseteq unsafeStops' /\ UNCHANGED root
    BY <1>1, <1>5
  <2>. QED
    BY <1>2, <2>2, <2>5, <2>6, LeaksMove
<1>. QED
  BY <1>4, <1>5

LEMMA CloseLeaks == ASSUME OwnedInv, LeakInv, CloseRuntime PROVE LeakInv'
<1>1. /\ At("close") /\ daemon' = Done(daemon) /\ UNCHANGED <<seenPids, unsafeStops>>
      /\ root' = [root EXCEPT ![daemon.task] = None]
      /\ process' = AfterDeath({root[daemon.task]} \ {None}, {root[daemon.task]} \ {None})
  BY DEF CloseRuntime, Die
<1>2. /\ daemon \in Daemons /\ daemon.steps \in Plans /\ daemon.steps # <<>>
      /\ Head(daemon.steps) = "close" /\ daemon.task \in RunTasks
  BY <1>1, OnStep DEF Steps
<1>3. daemon.steps = <<"close", "join">> /\ Tail(daemon.steps) = <<"join">> /\ <<"join">> \in Plans
  BY <1>2, AfterClose DEF Plans, Terminating
<1>4. daemon'.steps = <<"join">>
  BY <1>1, <1>2, <1>3, DoneView
<1>5. /\ Head(<<"join">>) = "join" /\ "join" # "killAndForget" /\ <<"join">> # <<"close", "join">>
      /\ <<"close", "join">> \notin ToForget
  BY DEF ToForget, Retiring
<1>6. Aimed'
  BY <1>4, <1>5, NotYet
<1>7. Ages
  <2>1. {root[daemon.task]} \ {None} \in SUBSET Pids
    BY <1>2, ProviderIsOwned
  <2>. QED
    BY <1>1, <2>1, DeathAges
<1>8. \A t \in RunTasks : root'[t] = None /\ root[t] # None => Clean(t) \/ t \in unsafeStops
  <2>1. \A t \in RunTasks : root'[t] = None /\ root[t] # None => t = daemon.task
    BY <1>1, <1>2 DEF OwnedInv, HostOK
  <2>. QED
    BY <1>3, <2>1 DEF LeakInv, Closing
<1>9. \A t \in RunTasks : ~Forgetting(t)
  BY <1>3, <1>5 DEF Forgetting
<1>. QED
  BY <1>1, <1>4, <1>5, <1>6, <1>7, <1>8, <1>9, LeaksMove

LEMMA JoinLeaks == ASSUME OwnedInv, LeakInv, JoinReader PROVE LeakInv'
<1>. DEFINE rest == Tail(daemon.steps)
<1>1. /\ At("join") /\ daemon' = Done(daemon) /\ UNCHANGED <<process, root, seenPids, unsafeStops>>
  BY DEF JoinReader
<1>2. /\ daemon \in Daemons /\ daemon.steps \in Plans /\ daemon.steps # <<>>
      /\ Head(daemon.steps) = "join" /\ daemon.task \in RunTasks
  BY <1>1, OnStep DEF Steps
<1>3. /\ rest \in {<<>>, <<"relaunch">>, <<"target", "killAndForget">>}
      /\ daemon.steps = <<"join", "target", "killAndForget">> => rest = <<"target", "killAndForget">>
  BY <1>2, AfterJoin
<1>4. rest \in Plans
  BY <1>3 DEF Plans, Stopping, Retiring
<1>5. daemon'.steps = rest /\ (rest # <<>> => daemon'.task = daemon.task)
  BY <1>1, <1>2, <1>4, DoneView, IdleOK
<1>6. /\ <<>> # <<"close", "join">> /\ <<"relaunch">> # <<"close", "join">>
      /\ <<"target", "killAndForget">> # <<"close", "join">>
      /\ <<"target", "killAndForget">> # <<>>
      /\ Head(<<"relaunch">>) = "relaunch" /\ "relaunch" # "killAndForget"
      /\ Head(<<"target", "killAndForget">>) = "target" /\ "target" # "killAndForget"
  OBVIOUS
<1>7. Aimed' /\ daemon'.steps # <<"close", "join">>
  BY <1>3, <1>5, <1>6, NotYet
<1>8. \A t \in RunTasks : Forgetting(t) => Forgetting(t)'
  <2>1. daemon.steps \in ToForget => daemon.steps = <<"join", "target", "killAndForget">>
    BY <1>2 DEF ToForget, Retiring
  <2>2. <<"target", "killAndForget">> \in ToForget
    BY DEF ToForget, Retiring
  <2>. QED
    BY <1>3, <1>5, <1>6, <2>1, <2>2 DEF Forgetting
<1>. HIDE DEF rest
<1>. QED
  BY <1>1, <1>7, <1>8, StayAges, LeaksMove

LEMMA RelaunchLeaks == ASSUME OwnedInv, LeakInv, Relaunch PROVE LeakInv'
<1>1. /\ At("relaunch") /\ daemon' = Done(daemon) /\ UNCHANGED <<seenPids, unsafeStops>>
  BY DEF Relaunch
<1>2. /\ daemon \in Daemons /\ daemon.steps \in Plans /\ daemon.steps # <<>>
      /\ Head(daemon.steps) = "relaunch" /\ daemon.task \in RunTasks
  BY <1>1, OnStep DEF Steps
<1>3. daemon' = Idle
  BY <1>1, <1>2, AfterRelaunch, DoneView DEF Plans
<1>4. \A t \in RunTasks : ~Forgetting(t)
  BY <1>2 DEF Forgetting, ToForget, Retiring
<1>5. Aimed' /\ daemon'.steps # <<"close", "join">>
  <2>1. <<>> # <<"close", "join">>
    OBVIOUS
  <2>. QED
    BY <1>3, <2>1, IdleOK DEF Aimed, At
<1>6. Ages /\ \A t \in RunTasks : root'[t] = None => root[t] = None
  <2>1. CASE \E p \in Free : LaunchAs(daemon.task, p)
    BY <1>2, <2>1, LaunchAges
  <2>2. CASE UNCHANGED <<process, root, starts>>
    BY <2>2, StayAges
  <2>. QED
    BY <2>1, <2>2 DEF Relaunch
<1>. QED
  BY <1>1, <1>4, <1>5, <1>6, LeaksMove

-----------------------------------------------------------------------------
LEMMA LeakInitOK == OwnershipInit => LeakInv
<1>. SUFFICES ASSUME OwnershipInit PROVE LeakInv
  OBVIOUS
<1>1. Alive = {}
  BY DEF OwnershipInit, Alive, NoProcess
<1>2. <<>> # <<"close", "join">>
  OBVIOUS
<1>. QED
  BY <1>1, <1>2, IdleOK DEF OwnershipInit, LeakInv, Tracked, Forgotten, Clean, Closing, Aimed, At

LEMMA LeakStepOK == OwnedInv /\ LeakInv /\ [OwnershipNext]_ownVars => LeakInv'
<1>. SUFFICES ASSUME OwnedInv, LeakInv, [OwnershipNext]_ownVars PROVE LeakInv'
  OBVIOUS
<1>1. CASE UNCHANGED ownVars
  BY <1>1, StayAges, LeaksStay DEF ownVars
<1>2. ASSUME NEW t \in RunTasks, Launch(t) \/ TerminateTree(t) \/ RetireTree(t) PROVE LeakInv'
  BY <1>2, LaunchLeaks, TerminateLeaks, RetireLeaks
<1>3. ASSUME DaemonStep PROVE LeakInv'
  BY <1>3, TargetLeaks, KillLeaks, CloseLeaks, JoinLeaks, RelaunchLeaks DEF DaemonStep
<1>4. ASSUME ForeignStarts \/ \E p \in Pids : Fork(p) \/ ProcessExits(p) PROVE LeakInv'
  BY <1>4, SystemLeaks
<1>. QED
  BY <1>1, <1>2, <1>3, <1>4, SampleTickLeaks, ReclaimLeaks, StopLeaks DEF OwnershipNext

(* A sampled process that has left its provider's subtree is tracked until *)
(* it is reaped, except for a task that was stopped by hibernate or        *)
(* recycle, or reaped without a snapshot (daemon.rs:840).  The argument is *)
(* LeakInv: a tick records every process it samples under its own task,    *)
(* and a record is dropped only when nobody alive is left in it.           *)
THEOREM LeaksHaveAReason == OwnershipSpec => []LeaksAreExplained
<1>1. LeakInv => LeaksAreExplained
  BY DEF LeakInv, Tracked, LeaksAreExplained
<1>. QED
  BY OwnedInitOK, OwnedStepOK, LeakInitOK, LeakStepOK, <1>1, PTL DEF OwnershipSpec

-----------------------------------------------------------------------------
(* Snapshots.  What a walk has gathered is a graph of pids and parents.    *)

Sample == [parent : PidSlots \cup {NoPid}, bytes : Nat]

IsSnapshot(s) == DOMAIN s \subseteq PidSlots /\ s \in [DOMAIN s -> Sample]

(* A process and what is below it, and what is above it.                   *)
Tree(s, p)  == {p} \cup DescendantsIn(s, p)
Above(s, p) == {p} \cup Range(AncestorsIn(s, p))

HoldsChildren(s, X) == \A c \in DOMAIN s : s[c].parent \in X => c \in X
HoldsParents(s, X)  == \A c \in X \cap DOMAIN s : s[c].parent \in DOMAIN s => s[c].parent \in X

LEMMA SlotsFinite ==
  /\ MaxPid \in Nat /\ IsFiniteSet(PidSlots) /\ Cardinality(PidSlots) = MaxPid
  /\ \A X \in SUBSET PidSlots :
       IsFiniteSet(X) /\ Cardinality(X) \in Nat /\ Cardinality(X) <= MaxPid
<1>1. MaxPid \in Nat
  BY AccountingAssumption
<1>2. IsFiniteSet(PidSlots) /\ Cardinality(PidSlots) = MaxPid
  BY <1>1, FS_Interval DEF PidSlots
<1>3. \A X \in SUBSET PidSlots :
        IsFiniteSet(X) /\ Cardinality(X) \in Nat /\ Cardinality(X) <= MaxPid
  BY <1>2, FS_Subset, FS_CardinalityType
<1>. QED
  BY <1>1, <1>2, <1>3

LEMMA ReachedOK ==
  ASSUME NEW s, IsSnapshot(s), NEW p \in PidSlots
  PROVE  \E g \in [0..MaxPid -> SUBSET PidSlots] :
           /\ g[0] = {p} \cup {c \in DOMAIN s : s[c].parent = p}
           /\ \A k \in 1..MaxPid : g[k] = g[k - 1] \cup {c \in DOMAIN s : s[c].parent \in g[k - 1]}
           /\ DescendantsIn(s, p) = g[MaxPid] \ {p}
<1>. DEFINE Grow(X) == X \cup {c \in DOMAIN s : s[c].parent \in X}
           step == [k \in 1..MaxPid |-> [X \in SUBSET PidSlots |-> Grow(X)]]
           Body(h, n) == LET seen == IF n = 0 THEN {p} ELSE h[n - 1]
                         IN  seen \cup UNION {ChildrenIn(s, q) : q \in seen}
           Reached[n \in 0..MaxPid] ==
             LET seen == IF n = 0 THEN {p} ELSE Reached[n - 1]
             IN  seen \cup UNION {ChildrenIn(s, q) : q \in seen}
<1>0. MaxPid \in Nat /\ DOMAIN s \subseteq PidSlots
  BY SlotsFinite DEF IsSnapshot
<1>1. PICK g \in [0..MaxPid -> SUBSET PidSlots] :
        g[0] = Grow({p}) /\ \A k \in 1..MaxPid : g[k] = step[k][g[k - 1]]
  <2>1. step \in [1..MaxPid -> [SUBSET PidSlots -> SUBSET PidSlots]] /\ Grow({p}) \in SUBSET PidSlots
    BY <1>0
  <2>2. MaxPid \in Nat
    BY <1>0
  <2>. DEFINE V == SUBSET PidSlots
             base == Grow({p})
  <2>3. step \in [1..MaxPid -> [V -> V]] /\ base \in V
    BY <2>1
  <2>. HIDE DEF step, base, V
  <2>4. \E g \in [0..MaxPid -> V] : Iterates(g, MaxPid, base, step)
    BY ONLY <2>2, <2>3, IterExists
  <2>. QED
    BY <2>4 DEF V, base, Iterates
<1>2. \A k \in 1..MaxPid : g[k - 1] \in SUBSET PidSlots /\ g[k] = Grow(g[k - 1])
  <2>. SUFFICES ASSUME NEW k \in 1..MaxPid
               PROVE  g[k - 1] \in SUBSET PidSlots /\ g[k] = Grow(g[k - 1])
    OBVIOUS
  <2>1. k - 1 \in 0..MaxPid
    BY <1>0
  <2>2. g[k - 1] \in SUBSET PidSlots /\ g[k] = step[k][g[k - 1]]
    BY <1>1, <2>1
  <2>. HIDE DEF Grow
  <2>. QED
    BY <2>2
<1>3. DescendantsIn(s, p) = Reached[MaxPid] \ {p}
  BY DEF DescendantsIn
<1>4. \A X : X \cup UNION {ChildrenIn(s, q) : q \in X} = Grow(X)
  BY DEF ChildrenIn
<1>5. \A n \in 0..MaxPid : g[n] = Body(g, n)
  <2>1. g[0] = Body(g, 0)
    BY <1>1, <1>4
  <2>2. ASSUME NEW n \in 1..MaxPid PROVE g[n] = Body(g, n)
    <3>1. n # 0
      BY <1>0
    <3>2. g[n] = Grow(g[n - 1])
      BY <1>2
    <3>3. Body(g, n) = g[n - 1] \cup UNION {ChildrenIn(s, q) : q \in g[n - 1]}
      BY <3>1
    <3>. HIDE DEF Grow, Body
    <3>. QED
      BY <1>4, <3>2, <3>3, Zenon
  <2>. QED
    BY <1>0, <2>1, <2>2
<1>6. g = [n \in 0..MaxPid |-> Body(g, n)]
  BY <1>5
<1>7. Reached = [n \in 0..MaxPid |-> Body(Reached, n)]
  <2>. HIDE DEF Body
  <2>. QED
    BY <1>6, Zenon DEF Body
<1>. HIDE DEF Reached
<1>8. \A n \in 0..MaxPid : Reached[n] = Body(Reached, n)
  <2>. HIDE DEF Body
  <2>. QED
    BY <1>7, Zenon
<1>. DEFINE Same == {n \in 0..MaxPid : Reached[n] = g[n]}
<1>9. 0 \in Same
  <2>1. 0 \in 0..MaxPid /\ Body(g, 0) = Body(Reached, 0)
    BY <1>0
  <2>. HIDE DEF Body
  <2>. QED
    BY <1>5, <1>8, <2>1
<1>10. ASSUME NEW n \in 0..(MaxPid - 1), n \in Same PROVE n + 1 \in Same
  <2>1. n + 1 \in 0..MaxPid /\ n + 1 # 0 /\ (n + 1) - 1 = n
    BY <1>0
  <2>2. Body(g, n + 1) = Body(Reached, n + 1)
    BY <1>10, <2>1
  <2>. QED
    BY <1>5, <1>8, <2>1, <2>2
<1>. HIDE DEF Same
<1>11. \A n \in 0..MaxPid : n \in Same
  BY ONLY <1>0, <1>9, <1>10, UpTo
<1>12. Reached[MaxPid] = g[MaxPid]
  BY <1>0, <1>11 DEF Same
<1>. QED
  BY <1>1, <1>2, <1>3, <1>12

(* A set that grows with every round until it is complete is complete      *)
(* after as many rounds as there are pids.                                 *)
LEMMA CompleteInTime ==
  ASSUME NEW g \in [0..MaxPid -> SUBSET PidSlots], g[0] # {}, NEW Full,
         \A k \in 1..MaxPid :
           \/ g[k - 1] \in Full /\ g[k] = g[k - 1]
           \/ g[k - 1] \notin Full /\ g[k - 1] \subseteq g[k] /\ g[k] # g[k - 1]
           \/ g[k] \in Full
  PROVE  g[MaxPid] \in Full
<1>. DEFINE P == {k \in 0..MaxPid : g[k] \in Full \/ Cardinality(g[k]) >= k + 1}
<1>0. MaxPid \in Nat /\ MaxPid \in 0..MaxPid /\ 0 \in 0..MaxPid
  BY SlotsFinite
<1>1. 0 \in P
  <2>1. g[0] \in SUBSET PidSlots
    BY <1>0
  <2>2. Cardinality(g[0]) \in Nat /\ IsFiniteSet(g[0])
    BY <2>1, SlotsFinite
  <2>3. Cardinality(g[0]) # 0
    BY <2>2, FS_EmptySet
  <2>. QED
    BY <1>0, <2>2, <2>3
<1>2. ASSUME NEW k \in 0..(MaxPid - 1), k \in P PROVE k + 1 \in P
  <2>0. k \in 0..MaxPid /\ k + 1 \in 1..MaxPid /\ k + 1 \in 0..MaxPid /\ (k + 1) - 1 = k
    BY <1>0
  <2>1. g[k] \in SUBSET PidSlots /\ g[k + 1] \in SUBSET PidSlots
    BY <2>0
  <2>2. CASE g[k + 1] \in Full
    BY <2>0, <2>2
  <2>3. CASE g[k + 1] \notin Full
    <3>1. g[k] \notin Full /\ g[k] \subseteq g[k + 1] /\ g[k + 1] # g[k]
      <4>1. \A j \in 1..MaxPid : j - 1 = k =>
              \/ g[k] \in Full /\ g[j] = g[k]
              \/ g[k] \notin Full /\ g[k] \subseteq g[j] /\ g[j] # g[k]
              \/ g[j] \in Full
        OBVIOUS
      <4>2. \/ g[k] \in Full /\ g[k + 1] = g[k]
            \/ g[k] \notin Full /\ g[k] \subseteq g[k + 1] /\ g[k + 1] # g[k]
        BY <2>0, <2>3, <4>1
      <4>. QED
        BY ONLY <2>3, <4>2
    <3>2. Cardinality(g[k]) >= k + 1
      BY <1>2, <3>1
    <3>3. PICK c \in g[k + 1] : c \notin g[k]
      BY <3>1
    <3>4. IsFiniteSet(g[k]) /\ IsFiniteSet(g[k + 1])
      BY <2>1, SlotsFinite
    <3>5. Cardinality(g[k] \cup {c}) = Cardinality(g[k]) + 1
      BY <3>3, <3>4, FS_AddElement
    <3>6. g[k] \cup {c} \subseteq g[k + 1]
      BY <3>1, <3>3
    <3>7. Cardinality(g[k] \cup {c}) <= Cardinality(g[k + 1])
      BY <3>4, <3>6, FS_Subset
    <3>8. Cardinality(g[k]) \in Nat /\ Cardinality(g[k + 1]) \in Nat
      BY <2>1, SlotsFinite
    <3>9. Cardinality(g[k + 1]) >= (k + 1) + 1
      BY <2>0, <3>2, <3>5, <3>7, <3>8
    <3>. QED
      BY <2>0, <3>9
  <2>. QED
    BY <2>2, <2>3
<1>. HIDE DEF P
<1>3. MaxPid \in P
  BY <1>0, <1>1, <1>2, UpTo
<1>4. g[MaxPid] \in SUBSET PidSlots
  BY <1>0
<1>5. Cardinality(g[MaxPid]) \in Nat /\ Cardinality(g[MaxPid]) <= MaxPid
  BY <1>4, SlotsFinite
<1>. QED
  BY <1>0, <1>3, <1>5 DEF P

(* Whatever holds a process and all children of its members holds its tree.*)
LEMMA TreeOK ==
  ASSUME NEW s, IsSnapshot(s), NEW p \in PidSlots
  PROVE  /\ Tree(s, p) \subseteq {p} \cup DOMAIN s
         /\ HoldsChildren(s, Tree(s, p))
         /\ \A X : p \in X /\ HoldsChildren(s, X) => Tree(s, p) \subseteq X
<1>0. MaxPid \in Nat /\ MaxPid \in 0..MaxPid /\ 0 \in 0..MaxPid /\ DOMAIN s \subseteq PidSlots
  BY SlotsFinite DEF IsSnapshot
<1>. DEFINE Grow(X) == X \cup {c \in DOMAIN s : s[c].parent \in X}
<1>1. PICK g \in [0..MaxPid -> SUBSET PidSlots] :
        /\ g[0] = {p} \cup {c \in DOMAIN s : s[c].parent = p}
        /\ \A k \in 1..MaxPid : g[k] = Grow(g[k - 1])
        /\ DescendantsIn(s, p) = g[MaxPid] \ {p}
  BY ReachedOK
<1>. DEFINE Full == {X \in SUBSET PidSlots : HoldsChildren(s, X)}
<1>2. \A k \in 1..MaxPid : k - 1 \in 0..MaxPid /\ k \in 0..MaxPid
  BY <1>0
<1>3. g[MaxPid] \in Full
  <2>1. ASSUME NEW k \in 1..MaxPid
        PROVE  \/ g[k - 1] \in Full /\ g[k] = g[k - 1]
               \/ g[k - 1] \notin Full /\ g[k - 1] \subseteq g[k] /\ g[k] # g[k - 1]
               \/ g[k] \in Full
    <3>1. g[k] = Grow(g[k - 1]) /\ g[k - 1] \in SUBSET PidSlots
      BY <1>1, <1>2
    <3>2. CASE HoldsChildren(s, g[k - 1])
      BY <3>1, <3>2 DEF HoldsChildren
    <3>3. CASE ~HoldsChildren(s, g[k - 1])
      BY <3>1, <3>3 DEF HoldsChildren
    <3>. QED
      BY <3>2, <3>3
  <2>2. g[0] # {}
    BY <1>1
  <2>. HIDE DEF Full, Grow
  <2>. QED
    BY <2>1, <2>2, CompleteInTime
<1>. DEFINE P(X) == {k \in 0..MaxPid : p \in g[k] /\ g[k] \subseteq X}
<1>4. ASSUME NEW X, p \in X, HoldsChildren(s, X) PROVE p \in g[MaxPid] /\ g[MaxPid] \subseteq X
  <2>1. 0 \in P(X)
    BY <1>0, <1>1, <1>4 DEF HoldsChildren
  <2>2. ASSUME NEW k \in 0..(MaxPid - 1), k \in P(X) PROVE k + 1 \in P(X)
    <3>1. k + 1 \in 1..MaxPid /\ k + 1 \in 0..MaxPid /\ (k + 1) - 1 = k
      BY <1>0
    <3>2. g[k + 1] = Grow(g[k])
      BY <1>1, <3>1
    <3>. QED
      BY <1>4, <2>2, <3>1, <3>2 DEF HoldsChildren
  <2>. DEFINE Q == P(X)
  <2>3. 0 \in Q /\ \A k \in 0..(MaxPid - 1) : k \in Q => k + 1 \in Q
    BY <2>1, <2>2
  <2>. HIDE DEF Q
  <2>4. MaxPid \in Q
    BY <1>0, <2>3, UpTo
  <2>. QED
    BY <2>4 DEF Q
<1>5. Tree(s, p) = g[MaxPid]
  <2>1. p \in g[MaxPid]
    <3>1. HoldsChildren(s, DOMAIN s \cup {p}) /\ p \in DOMAIN s \cup {p}
      BY DEF HoldsChildren
    <3>. QED
      BY <1>4, <3>1
  <2>. QED
    BY <1>1, <2>1 DEF Tree
<1>6. HoldsChildren(s, Tree(s, p))
  BY <1>3, <1>5
<1>7. ASSUME NEW X, p \in X, HoldsChildren(s, X) PROVE Tree(s, p) \subseteq X
  BY <1>4, <1>5, <1>7
<1>8. HoldsChildren(s, {p} \cup DOMAIN s)
  BY DEF HoldsChildren
<1>. QED
  BY <1>6, <1>7, <1>8

(* One step up.                                                            *)
Top(up)        == up[Len(up)]
CanClimb(s, up) == s[Top(up)].parent \in DOMAIN s \ Range(up)
Climbed(s, up)  == IF CanClimb(s, up) THEN Append(up, s[Top(up)].parent) ELSE up

LEMMA ClimbedOK ==
  ASSUME NEW s, NEW up \in Seq(DOMAIN s), up # <<>>
  PROVE  /\ Top(up) \in Range(up) /\ up[1] \in Range(up) /\ Range(up) \subseteq DOMAIN s
         /\ Climbed(s, up) \in Seq(DOMAIN s) /\ Climbed(s, up) # <<>>
         /\ Climbed(s, up)[1] = up[1]
         /\ CanClimb(s, up) =>
              /\ Range(Climbed(s, up)) = Range(up) \cup {s[Top(up)].parent}
              /\ Top(Climbed(s, up)) = s[Top(up)].parent
<1>0. Len(up) \in Nat /\ Len(up) >= 1 /\ DOMAIN up = 1..Len(up)
  OBVIOUS
<1>1. Top(up) \in Range(up) /\ up[1] \in Range(up) /\ Range(up) \subseteq DOMAIN s
  BY <1>0 DEF Top, Range
<1>2. CASE ~CanClimb(s, up)
  BY <1>1, <1>2 DEF Climbed
<1>3. CASE CanClimb(s, up)
  <2>. DEFINE q == s[Top(up)].parent
             more == Append(up, q)
  <2>1. Climbed(s, up) = more /\ q \in DOMAIN s
    BY <1>3 DEF Climbed, CanClimb
  <2>. HIDE DEF q
  <2>2. /\ more \in Seq(DOMAIN s) /\ Len(more) = Len(up) + 1
        /\ \A i \in 1..Len(up) : more[i] = up[i]
        /\ more[Len(up) + 1] = q
    BY <2>1
  <2>. HIDE DEF more
  <2>3. DOMAIN more = 1..(Len(up) + 1) /\ more # <<>> /\ more[1] = up[1]
    BY <1>0, <2>2
  <2>4. Range(more) = Range(up) \cup {q}
    <3>1. \A i \in 1..(Len(up) + 1) : i \in 1..Len(up) \/ i = Len(up) + 1
      BY <1>0
    <3>2. Len(up) + 1 \in 1..(Len(up) + 1) /\ 1..Len(up) \subseteq 1..(Len(up) + 1)
      BY <1>0
    <3>3. \A x \in Range(more) : x \in Range(up) \cup {q}
      BY <1>0, <2>2, <2>3, <3>1 DEF Range
    <3>4. q \in Range(more)
      BY <2>2, <2>3, <3>2 DEF Range
    <3>5. \A x \in Range(up) : x \in Range(more)
      BY <1>0, <2>2, <2>3, <3>2 DEF Range
    <3>. QED
      BY <3>3, <3>4, <3>5
  <2>5. Top(more) = q
    BY <2>2 DEF Top
  <2>. QED
    BY <1>1, <2>1, <2>2, <2>3, <2>4, <2>5 DEF q
<1>. QED
  BY <1>2, <1>3

LEMMA WalkedOK ==
  ASSUME NEW s, IsSnapshot(s), NEW p \in DOMAIN s
  PROVE  \E w \in [0..MaxPid -> Seq(DOMAIN s)] :
           /\ w[0] = <<p>>
           /\ \A k \in 1..MaxPid : w[k] = Climbed(s, w[k - 1])
           /\ AncestorsIn(s, p) = Tail(w[MaxPid])
<1>. DEFINE step == [k \in 1..MaxPid |-> [up \in Seq(DOMAIN s) |-> Climbed(s, up)]]
           Body(h, n) == LET up     == IF n = 0 THEN <<p>> ELSE h[n - 1]
                             parent == s[up[Len(up)]].parent
                         IN  IF n > 0 /\ parent \in DOMAIN s \ Range(up)
                             THEN Append(up, parent) ELSE up
           Walk[n \in 0..MaxPid] ==
             LET up     == IF n = 0 THEN <<p>> ELSE Walk[n - 1]
                 parent == s[up[Len(up)]].parent
             IN  IF n > 0 /\ parent \in DOMAIN s \ Range(up) THEN Append(up, parent) ELSE up
<1>0. MaxPid \in Nat /\ MaxPid \in 0..MaxPid /\ 0 \in 0..MaxPid
  BY SlotsFinite
<1>1. PICK w \in [0..MaxPid -> Seq(DOMAIN s)] : Iterates(w, MaxPid, <<p>>, step)
  <2>. DEFINE V == Seq(DOMAIN s)
             base == <<p>>
  <2>1. step \in [1..MaxPid -> [V -> V]] /\ base \in V
    <3>1. ASSUME NEW up \in Seq(DOMAIN s) PROVE Climbed(s, up) \in Seq(DOMAIN s)
      <4>. DEFINE q == s[Top(up)].parent
      <4>1. CASE CanClimb(s, up)
        <5>1. q \in DOMAIN s /\ Climbed(s, up) = Append(up, q)
          BY <4>1 DEF CanClimb, Climbed
        <5>. HIDE DEF q
        <5>. QED
          BY <5>1
      <4>2. CASE ~CanClimb(s, up)
        BY <4>2 DEF Climbed
      <4>. QED
        BY <4>1, <4>2
    <3>. QED
      BY <3>1
  <2>2. MaxPid \in Nat
    BY <1>0
  <2>. HIDE DEF step, base, V
  <2>3. \E w \in [0..MaxPid -> V] : Iterates(w, MaxPid, base, step)
    BY ONLY <2>1, <2>2, IterExists
  <2>. QED
    BY <2>3 DEF V, base
<1>2. w[0] = <<p>> /\ \A k \in 1..MaxPid : w[k] = Climbed(s, w[k - 1])
  <2>1. \A k \in 1..MaxPid : k - 1 \in 0..MaxPid
    BY <1>0
  <2>2. \A k \in 1..MaxPid : w[k - 1] \in Seq(DOMAIN s)
    BY <2>1
  <2>. QED
    BY <1>1, <2>2 DEF Iterates
<1>3. AncestorsIn(s, p) = Tail(Walk[MaxPid])
  BY DEF AncestorsIn
<1>5. \A n \in 0..MaxPid : w[n] = Body(w, n)
  <2>1. w[0] = Body(w, 0)
    BY <1>2
  <2>2. ASSUME NEW n \in 1..MaxPid PROVE w[n] = Body(w, n)
    <3>1. n # 0 /\ n > 0
      BY <1>0
    <3>2. w[n] = Climbed(s, w[n - 1])
      BY <1>2
    <3>3. Body(w, n) = Climbed(s, w[n - 1])
      BY <3>1 DEF Climbed, CanClimb, Top
    <3>. HIDE DEF Body
    <3>. QED
      BY <3>2, <3>3
  <2>3. \A n \in 0..MaxPid : n = 0 \/ n \in 1..MaxPid
    BY <1>0
  <2>. HIDE DEF Body
  <2>. QED
    BY <2>1, <2>2, <2>3
<1>6. w = [n \in 0..MaxPid |-> Body(w, n)]
  <2>. HIDE DEF Body
  <2>. QED
    BY <1>5
<1>7. Walk = [n \in 0..MaxPid |-> Body(Walk, n)]
  <2>. HIDE DEF Body
  <2>. QED
    BY <1>6, Zenon DEF Body
<1>. HIDE DEF Walk
<1>8. \A n \in 0..MaxPid : Walk[n] = Body(Walk, n)
  <2>. HIDE DEF Body
  <2>. QED
    BY <1>7, Zenon
<1>. DEFINE Same == {n \in 0..MaxPid : Walk[n] = w[n]}
<1>9. 0 \in Same
  <2>1. Body(w, 0) = Body(Walk, 0)
    OBVIOUS
  <2>. HIDE DEF Body
  <2>. QED
    BY <1>0, <1>5, <1>8, <2>1
<1>10. ASSUME NEW n \in 0..(MaxPid - 1), n \in Same PROVE n + 1 \in Same
  <2>1. n + 1 \in 0..MaxPid /\ n + 1 # 0 /\ (n + 1) - 1 = n
    BY <1>0
  <2>2. Body(w, n + 1) = Body(Walk, n + 1)
    BY <1>10, <2>1
  <2>. HIDE DEF Body
  <2>. QED
    BY <1>5, <1>8, <2>1, <2>2
<1>. HIDE DEF Same
<1>11. \A n \in 0..MaxPid : n \in Same
  BY ONLY <1>0, <1>9, <1>10, UpTo
<1>12. Walk[MaxPid] = w[MaxPid]
  BY <1>0, <1>11 DEF Same
<1>. QED
  BY <1>2, <1>3, <1>12

(* The walk up visits what every set holds that holds the process and the  *)
(* parents of its members, as far as they were read.                       *)
LEMMA AboveOK ==
  ASSUME NEW s, IsSnapshot(s), NEW p \in DOMAIN s
  PROVE  /\ Above(s, p) \subseteq DOMAIN s
         /\ HoldsParents(s, Above(s, p))
         /\ \A X : p \in X /\ HoldsParents(s, X) => Above(s, p) \subseteq X
         /\ \E up \in Seq(DOMAIN s) : /\ <<p>> \o AncestorsIn(s, p) = up
                                      /\ Range(up) = Above(s, p)
<1>0. MaxPid \in Nat /\ MaxPid \in 0..MaxPid /\ 0 \in 0..MaxPid /\ DOMAIN s \subseteq PidSlots
  BY SlotsFinite DEF IsSnapshot
<1>1. PICK w \in [0..MaxPid -> Seq(DOMAIN s)] :
        /\ w[0] = <<p>>
        /\ \A k \in 1..MaxPid : w[k] = Climbed(s, w[k - 1])
        /\ AncestorsIn(s, p) = Tail(w[MaxPid])
  BY WalkedOK
<1>. DEFINE Good(up) ==
      /\ up \in Seq(DOMAIN s) /\ up # <<>> /\ up[1] = p
      /\ \A a \in Range(up) : \/ a = Top(up)
                              \/ s[a].parent \in DOMAIN s => s[a].parent \in Range(up)
<1>2. \A k \in 0..MaxPid : Good(w[k])
  <2>. DEFINE P == {k \in 0..MaxPid : Good(w[k])}
  <2>1. 0 \in P
    <3>1. Range(<<p>>) = {p} /\ Top(<<p>>) = p
      BY DEF Range, Top
    <3>2. Good(<<p>>)
      BY <3>1
    <3>. HIDE DEF Good
    <3>. QED
      BY <1>0, <1>1, <3>2
  <2>2. ASSUME NEW k \in 0..(MaxPid - 1), k \in P PROVE k + 1 \in P
    <3>1. k \in 0..MaxPid /\ k + 1 \in 1..MaxPid /\ k + 1 \in 0..MaxPid /\ (k + 1) - 1 = k
      BY <1>0
    <3>2. PICK up \in Seq(DOMAIN s) : up = w[k]
      BY <3>1
    <3>3. w[k + 1] = Climbed(s, up) /\ Good(up)
      BY <1>1, <2>2, <3>1, <3>2
    <3>4. Good(Climbed(s, up))
      <4>1. CASE CanClimb(s, up)
        BY <3>3, <4>1, ClimbedOK
      <4>2. CASE ~CanClimb(s, up)
        BY <3>3, <4>2 DEF Climbed
      <4>. QED
        BY <4>1, <4>2
    <3>. HIDE DEF Good
    <3>. QED
      BY <3>1, <3>3, <3>4
  <2>. HIDE DEF P
  <2>3. \A k \in 0..MaxPid : k \in P
    BY ONLY <1>0, <2>1, <2>2, UpTo
  <2>. QED
    BY <2>3 DEF P
<1>. DEFINE g == [k \in 0..MaxPid |-> Range(w[k])]
           Full == {X \in SUBSET PidSlots : HoldsParents(s, X)}
<1>3. HoldsParents(s, Range(w[MaxPid]))
  <2>1. g \in [0..MaxPid -> SUBSET PidSlots]
    <3>1. \A k \in 0..MaxPid : Range(w[k]) \subseteq DOMAIN s
      BY <1>2, ClimbedOK
    <3>. QED
      BY <1>0, <3>1
  <2>2. g[0] # {}
    BY <1>0, <1>2, ClimbedOK
  <2>3. ASSUME NEW k \in 1..MaxPid
        PROVE  \/ g[k - 1] \in Full /\ g[k] = g[k - 1]
               \/ g[k - 1] \notin Full /\ g[k - 1] \subseteq g[k] /\ g[k] # g[k - 1]
               \/ g[k] \in Full
    <3>1. k - 1 \in 0..MaxPid /\ k \in 0..MaxPid
      BY <1>0
    <3>2. PICK up \in Seq(DOMAIN s) : up = w[k - 1]
      BY <3>1
    <3>3. w[k] = Climbed(s, up) /\ Good(up)
      BY <1>1, <1>2, <3>1, <3>2
    <3>4. g[k - 1] = Range(up) /\ g[k] = Range(Climbed(s, up)) /\ g[k - 1] \in SUBSET PidSlots
      BY <2>1, <3>1, <3>2, <3>3
    <3>5. CASE CanClimb(s, up)
      <4>1. Range(Climbed(s, up)) = Range(up) \cup {s[Top(up)].parent}
            /\ s[Top(up)].parent \in DOMAIN s \ Range(up) /\ Top(up) \in Range(up) \cap DOMAIN s
        BY <3>3, <3>5, ClimbedOK DEF CanClimb
      <4>. QED
        BY <3>4, <4>1 DEF HoldsParents
    <3>6. CASE ~CanClimb(s, up)
      <4>1. HoldsParents(s, Range(up))
        BY <3>3, <3>6, ClimbedOK DEF CanClimb, HoldsParents
      <4>. QED
        BY <3>4, <3>6, <4>1 DEF Climbed
    <3>. QED
      BY <3>5, <3>6
  <2>. HIDE DEF g, Full
  <2>4. g[MaxPid] \in Full
    BY <2>1, <2>2, <2>3, CompleteInTime
  <2>. QED
    BY <1>0, <2>4 DEF g, Full
<1>4. ASSUME NEW X, p \in X, HoldsParents(s, X) PROVE Range(w[MaxPid]) \subseteq X
  <2>. DEFINE P == {k \in 0..MaxPid : Range(w[k]) \subseteq X}
  <2>1. 0 \in P
    BY <1>0, <1>1, <1>4 DEF Range
  <2>2. ASSUME NEW k \in 0..(MaxPid - 1), k \in P PROVE k + 1 \in P
    <3>1. k \in 0..MaxPid /\ k + 1 \in 1..MaxPid /\ k + 1 \in 0..MaxPid /\ (k + 1) - 1 = k
      BY <1>0
    <3>2. PICK up \in Seq(DOMAIN s) : up = w[k]
      BY <3>1
    <3>3. w[k + 1] = Climbed(s, up) /\ Good(up) /\ Range(up) \subseteq X
      BY <1>1, <1>2, <2>2, <3>1, <3>2
    <3>4. Range(Climbed(s, up)) \subseteq X
      <4>1. CASE CanClimb(s, up)
        BY <1>4, <3>3, <4>1, ClimbedOK DEF CanClimb, HoldsParents
      <4>2. CASE ~CanClimb(s, up)
        BY <3>3, <4>2 DEF Climbed
      <4>. QED
        BY <4>1, <4>2
    <3>. QED
      BY <3>1, <3>3, <3>4
  <2>. HIDE DEF P
  <2>3. MaxPid \in P
    BY <1>0, <2>1, <2>2, UpTo
  <2>. QED
    BY <2>3 DEF P
<1>5. PICK up \in Seq(DOMAIN s) : up = w[MaxPid]
  BY <1>0
<1>6. up # <<>> /\ up[1] = p /\ Range(up) \subseteq DOMAIN s /\ p \in Range(up)
  BY <1>0, <1>2, <1>5, ClimbedOK
<1>7. <<p>> \o Tail(up) = up
  <2>1. Tail(up) \in Seq(DOMAIN s) /\ Len(Tail(up)) = Len(up) - 1 /\ Len(up) \in Nat /\ Len(up) >= 1
    BY <1>6
  <2>2. \A i \in 1..Len(up) : (<<p>> \o Tail(up))[i] = up[i]
    BY <1>6, <2>1
  <2>3. <<p>> \o Tail(up) \in Seq(DOMAIN s) /\ Len(<<p>> \o Tail(up)) = Len(up)
    BY <2>1
  <2>. QED
    BY <2>2, <2>3
<1>8. Range(up) = {p} \cup Range(Tail(up))
  <2>1. Tail(up) \in Seq(DOMAIN s) /\ Len(Tail(up)) = Len(up) - 1 /\ Len(up) \in Nat /\ Len(up) >= 1
        /\ \A i \in 1..(Len(up) - 1) : Tail(up)[i] = up[i + 1]
    BY <1>6
  <2>2. DOMAIN up = 1..Len(up) /\ DOMAIN Tail(up) = 1..(Len(up) - 1)
    BY <2>1
  <2>3. \A i \in 1..(Len(up) - 1) : i + 1 \in 1..Len(up)
    BY <2>1
  <2>4. \A i \in 1..Len(up) : i = 1 \/ (i - 1 \in 1..(Len(up) - 1) /\ (i - 1) + 1 = i)
    BY <2>1
  <2>5. Range(Tail(up)) \subseteq Range(up)
    BY <2>1, <2>2, <2>3 DEF Range
  <2>6. \A i \in 1..Len(up) : up[i] \in {p} \cup Range(Tail(up))
    <3>. DEFINE others == Tail(up)
    <3>1. \A j \in 1..(Len(up) - 1) : others[j] = up[j + 1] /\ others[j] \in Range(others)
      BY <2>1, <2>2 DEF Range
    <3>. HIDE DEF others
    <3>2. \A i \in 1..Len(up) : i # 1 => up[i] \in Range(others)
      BY <2>4, <3>1
    <3>. QED
      BY <1>6, <3>2 DEF others
  <2>. QED
    BY <1>6, <2>2, <2>5, <2>6 DEF Range
<1>9. Above(s, p) = Range(up)
  BY <1>1, <1>5, <1>8 DEF Above
<1>10. HoldsParents(s, Above(s, p))
  BY <1>3, <1>5, <1>9
<1>11. \A X : p \in X /\ HoldsParents(s, X) => Above(s, p) \subseteq X
  BY <1>4, <1>5, <1>9
<1>12. <<p>> \o AncestorsIn(s, p) = up
  BY <1>1, <1>5, <1>7
<1>. QED
  BY <1>6, <1>9, <1>10, <1>11, <1>12

(* Both ways lead to the same.                                             *)
LEMMA TreesNest ==
  ASSUME NEW s, IsSnapshot(s), NEW p \in PidSlots, NEW q \in Tree(s, p)
  PROVE  q \in PidSlots /\ Tree(s, q) \subseteq Tree(s, p)
<1>1. q \in PidSlots /\ HoldsChildren(s, Tree(s, p))
  BY TreeOK DEF IsSnapshot
<1>. QED
  BY <1>1, TreeOK

LEMMA ParentInTree ==
  ASSUME NEW s, IsSnapshot(s), NEW p \in PidSlots, NEW q \in Tree(s, p), q # p
  PROVE  q \in DOMAIN s /\ s[q].parent \in Tree(s, p)
<1>. DEFINE X == {x \in Tree(s, p) : x = p \/ s[x].parent \in Tree(s, p)}
<1>1. HoldsChildren(s, X)
  BY TreeOK DEF HoldsChildren
<1>2. p \in X
  BY DEF Tree
<1>3. q \in X
  BY <1>1, <1>2, TreeOK
<1>. QED
  BY <1>3, TreeOK

LEMMA WalksMeet ==
  ASSUME NEW s, IsSnapshot(s), NEW p \in DOMAIN s, NEW r \in DOMAIN s
  PROVE  p \in Tree(s, r) <=> r \in Above(s, p)
<1>0. p \in PidSlots /\ r \in PidSlots /\ \A q \in DOMAIN s : q \in PidSlots
  BY DEF IsSnapshot
<1>1. ASSUME p \in Tree(s, r) PROVE r \in Above(s, p)
  <2>. DEFINE X == {q \in DOMAIN s : r \in Above(s, q)}
  <2>1. r \in X
    BY DEF Above
  <2>2. ASSUME NEW c \in DOMAIN s, s[c].parent \in X PROVE c \in X
    <3>1. s[c].parent \in Above(s, c)
      <4>1. c \in Above(s, c) /\ HoldsParents(s, Above(s, c))
        BY AboveOK DEF Above
      <4>. QED
        BY <2>2, <4>1 DEF HoldsParents
    <3>2. HoldsParents(s, Above(s, c))
      BY AboveOK
    <3>3. Above(s, s[c].parent) \subseteq Above(s, c)
      BY <2>2, <3>1, <3>2, AboveOK
    <3>. QED
      BY <2>2, <3>3
  <2>3. HoldsChildren(s, X)
    BY <2>2 DEF HoldsChildren
  <2>. HIDE DEF X
  <2>4. p \in X
    BY <1>0, <1>1, <2>1, <2>3, TreeOK
  <2>. QED
    BY <2>4 DEF X
<1>2. ASSUME r \in Above(s, p) PROVE p \in Tree(s, r)
  <2>. DEFINE X == {a \in DOMAIN s : p \in Tree(s, a)}
  <2>1. p \in X
    BY DEF Tree
  <2>2. ASSUME NEW a \in X, s[a].parent \in DOMAIN s PROVE s[a].parent \in X
    <3>. DEFINE b == s[a].parent
    <3>1. b \in PidSlots /\ a \in DOMAIN s
      BY <1>0, <2>2
    <3>2. b \in Tree(s, b) /\ HoldsChildren(s, Tree(s, b))
      BY <3>1, TreeOK DEF Tree
    <3>3. a \in Tree(s, b)
      BY <3>1, <3>2 DEF HoldsChildren
    <3>4. Tree(s, a) \subseteq Tree(s, b)
      BY <3>1, <3>3, TreesNest
    <3>. QED
      BY <2>2, <3>4
  <2>3. HoldsParents(s, X)
    BY <2>2 DEF HoldsParents
  <2>. HIDE DEF X
  <2>4. r \in X
    BY <1>2, <2>1, <2>3, AboveOK
  <2>. QED
    BY <2>4 DEF X
<1>. QED
  BY <1>1, <1>2

LEMMA WalksAgreeOK ==
  ASSUME NEW s, IsSnapshot(s)
  PROVE  WalksAgree(s)
<1>. SUFFICES ASSUME NEW p \in DOMAIN s, NEW r \in DOMAIN s, p # r
             PROVE  p \in DescendantsIn(s, r) <=> r \in Range(AncestorsIn(s, p))
  BY DEF WalksAgree
<1>. QED
  BY WalksMeet DEF Tree, Above

-----------------------------------------------------------------------------
(* Where the providers are.                                                *)

(* Each provider is a child of the manager, who has no parent; so it is    *)
(* read, whenever it is.                                                   *)
Placed ==
  /\ providers \in [Owners -> PidSlots] /\ IsInjective(providers)
  /\ manager \in PidSlots /\ manager \notin Range(providers)

Rooted(s) ==
  /\ IsSnapshot(s)
  /\ manager \in DOMAIN s => s[manager].parent = NoPid
  /\ \A t \in Owners : providers[t] \in DOMAIN s => s[providers[t]].parent = manager

(* The processes the snapshot has under a task's provider.                 *)
Under(s, t) == IF providers[t] \in DOMAIN s THEN Tree(s, providers[t]) ELSE {}

LEMMA RootsOfOK ==
  ASSUME Placed, NEW t \in Owners
  PROVE  /\ providers[t] \in Range(providers) /\ providers[t] \in PidSlots
         /\ providers[t] # manager /\ providers[t] # NoPid
         /\ DOMAIN RootsOf = Range(providers) /\ RootsOf[providers[t]] = t
<1>1. providers[t] \in Range(providers) /\ providers[t] \in PidSlots /\ providers[t] # manager
  BY DEF Placed, Range
<1>2. providers[t] # NoPid
  BY <1>1, SlotsFinite DEF PidSlots, NoPid
<1>3. \A u \in Owners : providers[u] = providers[t] => u = t
  BY DEF Placed, IsInjective
<1>4. RootsOf[providers[t]] = CHOOSE u \in Owners : providers[u] = providers[t]
  BY <1>1 DEF RootsOf
<1>5. RootsOf[providers[t]] = t
  BY <1>3, <1>4
<1>. QED
  BY <1>1, <1>2, <1>5 DEF RootsOf

(* Nothing is under two of them.                                           *)
LEMMA OneRoot ==
  ASSUME Placed, NEW s, Rooted(s), NEW t \in Owners, NEW p \in Under(s, t)
  PROVE  /\ p \in DOMAIN s
         /\ Above(s, p) \cap Range(providers) = {providers[t]}
<1>. DEFINE r == providers[t]
           R == Range(providers)
           X == {q \in DOMAIN s : Above(s, q) \cap R = {r}}
<1>0. /\ IsSnapshot(s) /\ r \in DOMAIN s /\ r \in PidSlots /\ r \in R /\ p \in Tree(s, r)
      /\ \A q \in DOMAIN s : q \in PidSlots
      /\ manager \notin R /\ manager \in PidSlots /\ NoPid \notin PidSlots
  BY RootsOfOK, SlotsFinite DEF Under, Rooted, IsSnapshot, Placed, PidSlots, NoPid
<1>1. r \in X
  <2>1. HoldsParents(s, {r, manager})
    BY <1>0 DEF HoldsParents, Rooted
  <2>2. Above(s, r) \subseteq {r, manager}
    BY <1>0, <2>1, AboveOK
  <2>3. r \in Above(s, r)
    BY DEF Above
  <2>. QED
    BY <1>0, <2>2, <2>3
<1>2. ASSUME NEW c \in DOMAIN s, s[c].parent \in X PROVE c \in X
  <2>. DEFINE q == s[c].parent
  <2>1. q \in DOMAIN s /\ Above(s, q) \cap R = {r}
    BY <1>2
  <2>2. HoldsParents(s, {c} \cup Above(s, q))
    <3>1. q \in Above(s, q) /\ HoldsParents(s, Above(s, q))
      BY <1>0, <2>1, AboveOK DEF Above
    <3>. QED
      BY <3>1 DEF HoldsParents
  <2>3. Above(s, c) \subseteq {c} \cup Above(s, q)
    BY <1>0, <2>2, AboveOK
  <2>4. q \in Above(s, c) /\ HoldsParents(s, Above(s, c))
    BY <1>0, <2>1, AboveOK DEF HoldsParents, Above
  <2>5. Above(s, q) \subseteq Above(s, c)
    BY <1>0, <2>1, <2>4, AboveOK
  <2>6. c \notin R
    <3>. SUFFICES ASSUME NEW u \in Owners, c = providers[u] PROVE FALSE
      BY DEF Placed, Range
    <3>1. q = manager
      BY DEF Rooted
    <3>2. HoldsParents(s, {manager})
      BY <1>0 DEF HoldsParents, Rooted
    <3>3. Above(s, manager) \subseteq {manager}
      BY <1>0, <2>1, <3>1, <3>2, AboveOK
    <3>. QED
      BY <1>0, <2>1, <3>1, <3>3
  <2>. QED
    BY <2>1, <2>3, <2>5, <2>6
<1>3. HoldsChildren(s, X)
  BY <1>2 DEF HoldsChildren
<1>. HIDE DEF X
<1>4. p \in X
  BY <1>0, <1>1, <1>3, TreeOK
<1>. QED
  BY <1>4 DEF X

(* The walk up stops at the first root it meets, if it meets one.          *)
LEMMA NearestOK ==
  ASSUME NEW s, IsSnapshot(s), NEW p \in DOMAIN s, NEW roots
  PROVE  /\ Above(s, p) \cap roots = {} => NearestIn(s, p, roots) = NoPid
         /\ Above(s, p) \cap roots # {} => NearestIn(s, p, roots) \in Above(s, p) \cap roots
<1>. DEFINE up == <<p>> \o AncestorsIn(s, p)
           i == {k \in DOMAIN up : up[k] \in roots}
<1>1. up \in Seq(DOMAIN s) /\ Range(up) = Above(s, p)
  <2>1. PICK v \in Seq(DOMAIN s) : <<p>> \o AncestorsIn(s, p) = v /\ Range(v) = Above(s, p)
    BY AboveOK
  <2>. QED
    BY <2>1
<1>2. NearestIn(s, p, roots) = IF i = {} THEN NoPid ELSE up[CHOOSE k \in i : \A j \in i : k <= j]
  BY DEF NearestIn
<1>. HIDE DEF up
<1>3. i # {} => \E k \in i : \A j \in i : k <= j
  <2>1. i \subseteq Nat
    BY <1>1
  <2>. HIDE DEF i
  <2>. QED
    BY <2>1, LeastNat
<1>4. i # {} => NearestIn(s, p, roots) \in Range(up) \cap roots
  BY <1>2, <1>3 DEF Range
<1>5. i = {} <=> Range(up) \cap roots = {}
  BY DEF Range
<1>. QED
  BY <1>1, <1>2, <1>4, <1>5

-----------------------------------------------------------------------------
(* Attribution.                                                            *)

Owned(t) == [class |-> "Owned", task |-> t]

(* What is under a sampled provider is its task's, and nothing else is.    *)
LEMMA AttributionOK ==
  ASSUME Placed, NEW s, Rooted(s), NEW expected
  PROVE  /\ DOMAIN Attribution(s, RootsOf, expected) = DOMAIN s
         /\ \A t \in Owners : \A p \in Under(s, t) :
              Attribution(s, RootsOf, expected)[p] = Owned(t)
         /\ \A p \in DOMAIN s : (\A t \in Owners : p \notin Under(s, t)) =>
              Attribution(s, RootsOf, expected)[p] =
                IF p \in DOMAIN expected THEN [class |-> "Escaped", task |-> expected[p]]
                ELSE [class |-> "Unknown", task |-> NoPid]
<1>. DEFINE A == Attribution(s, RootsOf, expected)
           R == Range(providers)
<1>0. IsSnapshot(s) /\ DOMAIN RootsOf = R
  BY DEF Rooted, RootsOf
<1>1. /\ DOMAIN A = DOMAIN s
      /\ \A p \in DOMAIN s :
           A[p] = IF NearestIn(s, p, R) # NoPid
                  THEN [class |-> "Owned", task |-> RootsOf[NearestIn(s, p, R)]]
                  ELSE IF p \in DOMAIN expected THEN [class |-> "Escaped", task |-> expected[p]]
                  ELSE [class |-> "Unknown", task |-> NoPid]
  BY <1>0 DEF Attribution
<1>2. ASSUME NEW t \in Owners, NEW p \in Under(s, t) PROVE A[p] = Owned(t)
  <2>1. p \in DOMAIN s /\ Above(s, p) \cap R = {providers[t]}
    BY <1>2, OneRoot
  <2>2. NearestIn(s, p, R) = providers[t]
    BY <1>0, <2>1, NearestOK
  <2>3. providers[t] # NoPid /\ RootsOf[providers[t]] = t
    BY RootsOfOK
  <2>. HIDE DEF A
  <2>. QED
    BY <1>1, <2>1, <2>2, <2>3 DEF Owned
<1>3. ASSUME NEW p \in DOMAIN s, \A t \in Owners : p \notin Under(s, t)
      PROVE  NearestIn(s, p, R) = NoPid
  <2>1. ASSUME NEW r \in Above(s, p) \cap R PROVE FALSE
    <3>1. PICK t \in Owners : r = providers[t]
      BY DEF Range, Placed
    <3>2. r \in DOMAIN s
      BY <1>0, AboveOK
    <3>3. p \in Tree(s, r)
      BY <1>0, <3>2, WalksMeet
    <3>. QED
      BY <1>3, <3>1, <3>2, <3>3 DEF Under
  <2>. QED
    BY <1>0, <2>1, NearestOK
<1>. HIDE DEF A
<1>4. \A p \in DOMAIN s : (\A t \in Owners : p \notin Under(s, t)) =>
        A[p] = IF p \in DOMAIN expected THEN [class |-> "Escaped", task |-> expected[p]]
               ELSE [class |-> "Unknown", task |-> NoPid]
  BY <1>1, <1>3
<1>. QED
  BY <1>1, <1>2, <1>4 DEF A

(* The daemon's own view of a snapshot has the same under each provider.   *)
OfProviders(s) == UNION {Under(s, t) : t \in Owners}
Kept(s, rec)   == (OfProviders(s) \cup EverRecorded(rec)) \cap DOMAIN s

LEMMA UnderOK ==
  ASSUME Placed, NEW s, Rooted(s), NEW t \in Owners
  PROVE  /\ Under(s, t) \subseteq DOMAIN s /\ Under(s, t) \subseteq PidSlots
         /\ providers[t] \in DOMAIN s => providers[t] \in Under(s, t)
         /\ \A u \in Owners : u # t => Under(s, t) \cap Under(s, u) = {}
<1>1. Under(s, t) \subseteq DOMAIN s /\ Under(s, t) \subseteq PidSlots
  BY OneRoot DEF Rooted, IsSnapshot
<1>2. providers[t] \in DOMAIN s => providers[t] \in Under(s, t)
  BY DEF Under, Tree
<1>3. ASSUME NEW u \in Owners, u # t, NEW p \in Under(s, t), p \in Under(s, u) PROVE FALSE
  <2>1. providers[t] = providers[u]
    BY <1>3, OneRoot
  <2>. QED
    BY <1>3, <2>1, RootsOfOK
<1>. QED
  BY <1>1, <1>2, <1>3

LEMMA ManagedOK ==
  ASSUME Placed, NEW s, Rooted(s), NEW rec
  PROVE  /\ Managed(s, rec) = [p \in Kept(s, rec) |-> s[p]]
         /\ DOMAIN Managed(s, rec) = Kept(s, rec)
         /\ Rooted(Managed(s, rec))
         /\ \A t \in Owners : Under(Managed(s, rec), t) = Under(s, t)
<1>. DEFINE m == Managed(s, rec)
           K == Kept(s, rec)
<1>0. IsSnapshot(s)
  BY DEF Rooted
<1>1. m = [p \in K |-> s[p]]
  <2>1. UNION {{r} \cup DescendantsIn(s, r) : r \in Range(providers) \cap DOMAIN s}
          = OfProviders(s)
    <3>1. ASSUME NEW r \in Range(providers) \cap DOMAIN s
          PROVE  \E t \in Owners : {r} \cup DescendantsIn(s, r) = Under(s, t)
      BY DEF Range, Placed, Under, Tree
    <3>2. ASSUME NEW t \in Owners, Under(s, t) # {}
          PROVE  \E r \in Range(providers) \cap DOMAIN s : Under(s, t) = {r} \cup DescendantsIn(s, r)
      BY <3>2 DEF Range, Placed, Under, Tree
    <3>. DEFINE D(r) == {r} \cup DescendantsIn(s, r)
               U(t) == Under(s, t)
    <3>3. /\ \A r \in Range(providers) \cap DOMAIN s : \E t \in Owners : D(r) = U(t)
          /\ \A t \in Owners : U(t) # {} => \E r \in Range(providers) \cap DOMAIN s : U(t) = D(r)
      BY <3>1, <3>2
    <3>. HIDE DEF D, U
    <3>4. UNION {D(r) : r \in Range(providers) \cap DOMAIN s} = UNION {U(t) : t \in Owners}
      BY <3>3
    <3>. QED
      BY <3>4 DEF D, U, OfProviders
  <2>. DEFINE below == UNION {{r} \cup DescendantsIn(s, r) : r \in Range(providers) \cap DOMAIN s}
             kept  == (below \cup EverRecorded(rec)) \cap DOMAIN s
  <2>2. m = Restrict(s, kept)
    BY Zenon DEF Managed
  <2>3. kept = K
    <3>1. below = OfProviders(s)
      BY <2>1
    <3>. HIDE DEF below
    <3>. QED
      BY <3>1 DEF Kept
  <2>. HIDE DEF below, kept, K, m
  <2>. QED
    BY <2>2, <2>3 DEF Restrict
<1>2. DOMAIN m = K /\ K \subseteq DOMAIN s /\ \A p \in K : m[p] = s[p]
  <2>1. K \subseteq DOMAIN s
    BY DEF Kept
  <2>. HIDE DEF m, K
  <2>. QED
    BY <1>1, <2>1
<1>3. Rooted(m)
  <2>1. IsSnapshot(m)
    <3>1. \A p \in K : s[p] \in Sample
      BY <1>0, <1>2 DEF IsSnapshot
    <3>2. m \in [K -> Sample]
      BY <1>1, <3>1
    <3>. QED
      BY <1>0, <1>2, <3>2 DEF IsSnapshot
  <2>. HIDE DEF m, K
  <2>. QED
    BY <1>2, <2>1 DEF Rooted
<1>4. ASSUME NEW t \in Owners PROVE Under(m, t) = Under(s, t)
  <2>. DEFINE r == providers[t]
  <2>0. r \in PidSlots /\ IsSnapshot(m)
    BY <1>3, RootsOfOK DEF Rooted
  <2>1. CASE r \notin DOMAIN s
    BY <1>2, <2>1 DEF Under
  <2>2. CASE r \in DOMAIN s
    <3>0. Under(s, t) \subseteq OfProviders(s)
      BY DEF OfProviders
    <3>1. Under(s, t) \subseteq K /\ r \in Under(s, t) /\ Under(s, t) = Tree(s, r)
      BY <2>2, <3>0, UnderOK DEF Kept, Under
    <3>2. r \in DOMAIN m /\ Under(m, t) = Tree(m, r)
      BY <1>2, <3>1 DEF Under
    <3>. HIDE DEF m, K
    <3>3. HoldsChildren(m, Tree(s, r))
      BY <1>0, <1>2, <2>0, TreeOK DEF HoldsChildren
    <3>4. Tree(m, r) \subseteq Tree(s, r)
      BY <2>0, <3>1, <3>3, TreeOK
    <3>. DEFINE X == Tree(m, r) \cap Tree(s, r)
    <3>5. HoldsChildren(s, X)
      <4>1. HoldsChildren(s, Tree(s, r)) /\ HoldsChildren(m, Tree(m, r))
        BY <1>0, <2>0, TreeOK
      <4>. QED
        BY <1>2, <3>1, <4>1 DEF HoldsChildren
    <3>6. r \in X
      BY DEF Tree
    <3>7. Tree(s, r) \subseteq X
      BY <1>0, <2>0, <3>5, <3>6, TreeOK
    <3>. QED
      BY <3>1, <3>2, <3>4, <3>7
  <2>. QED
    BY <2>1, <2>2
<1>. QED
  BY <1>1, <1>2, <1>3, <1>4

(* What the report on that view says.                                      *)
LEMMA ReportOK ==
  ASSUME Placed, NEW s, Rooted(s), NEW rec
  PROVE  /\ DOMAIN ManagedReport(s, rec) = Kept(s, rec)
         /\ \A t \in Owners : \A p \in Under(s, t) : ManagedReport(s, rec)[p] = Owned(t)
         /\ \A p \in Kept(s, rec) : (\A t \in Owners : p \notin Under(s, t)) =>
              ManagedReport(s, rec)[p].class = "Escaped"
<1>. DEFINE expected == [p \in EverRecorded(rec) |-> CHOOSE t \in Owners : p \in rec[t]]
           m == Managed(s, rec)
<1>1. ManagedReport(s, rec) = Attribution(m, RootsOf, expected)
  BY DEF ManagedReport
<1>2. Rooted(m) /\ DOMAIN m = Kept(s, rec) /\ \A t \in Owners : Under(m, t) = Under(s, t)
  BY ManagedOK
<1>3. DOMAIN expected = EverRecorded(rec)
  OBVIOUS
<1>4. \A p \in Kept(s, rec) : (\A t \in Owners : p \notin Under(s, t)) => p \in EverRecorded(rec)
  <2>. SUFFICES ASSUME NEW p \in Kept(s, rec), p \notin EverRecorded(rec)
               PROVE  \E t \in Owners : p \in Under(s, t)
    OBVIOUS
  <2>1. p \in OfProviders(s)
    BY DEF Kept
  <2>. QED
    BY <2>1 DEF OfProviders
<1>. HIDE DEF expected, m
<1>5. /\ DOMAIN Attribution(m, RootsOf, expected) = Kept(s, rec)
      /\ \A t \in Owners : \A p \in Under(s, t) :
           Attribution(m, RootsOf, expected)[p] = Owned(t)
      /\ \A p \in Kept(s, rec) : (\A t \in Owners : p \notin Under(s, t)) =>
           Attribution(m, RootsOf, expected)[p] = [class |-> "Escaped", task |-> expected[p]]
  BY <1>2, <1>3, <1>4, AttributionOK
<1>. QED
  BY <1>1, <1>5

LEMMA ViewOK ==
  ASSUME Placed, NEW s, Rooted(s), NEW rec
  PROVE  ViewLosesNothing(s, ManagedReport(s, rec))
<1>. DEFINE report == ManagedReport(s, rec)
<1>1. ASSUME NEW t \in Owners, providers[t] \in DOMAIN s,
             NEW p \in {providers[t]} \cup DescendantsIn(s, providers[t])
      PROVE  report[p] = [class |-> "Owned", task |-> t]
  BY <1>1, ReportOK DEF Under, Tree, Owned
<1>2. ASSUME NEW p \in DOMAIN report, report[p].class = "Unknown" PROVE FALSE
  <2>1. p \in Kept(s, rec)
    BY <1>2, ReportOK
  <2>2. ASSUME NEW t \in Owners, p \in Under(s, t) PROVE FALSE
    <3>1. report[p] = Owned(t)
      BY <2>2, ReportOK
    <3>. QED
      BY <1>2, <3>1 DEF Owned
  <2>3. CASE \A t \in Owners : p \notin Under(s, t)
    <3>1. report[p].class = "Escaped"
      BY <2>1, <2>3, ReportOK
    <3>. QED
      BY <1>2, <3>1
  <2>. QED
    BY <2>2, <2>3
<1>. QED
  BY <1>1, <1>2 DEF ViewLosesNothing, ClassOf

-----------------------------------------------------------------------------
(* Bytes.                                                                  *)

LEMMA BytesOK ==
  ASSUME NEW s, IsSnapshot(s)
  PROVE  /\ BytesOf(s, {}) = 0
         /\ \A X : BytesOf(s, X) \in Nat
         /\ \A X, Y : X \cap DOMAIN s \subseteq Y => BytesOf(s, X) <= BytesOf(s, Y)
         /\ \A X, Y : X \cap DOMAIN s = Y \cap DOMAIN s => BytesOf(s, X) = BytesOf(s, Y)
         /\ \A X, Y : X \cap Y \cap DOMAIN s = {} =>
              BytesOf(s, X \cup Y) = BytesOf(s, X) + BytesOf(s, Y)
<1>. DEFINE T == DOMAIN s
           f == [p \in T |-> s[p].bytes]
<1>1. T \in SUBSET PidSlots /\ IsFiniteSet(T)
  BY SlotsFinite DEF IsSnapshot
<1>2. f \in [T -> Nat]
  <2>1. \A p \in T : s[p] \in Sample
    BY DEF IsSnapshot
  <2>. QED
    BY <2>1 DEF Sample
<1>3. \A X : BytesOf(s, X) = SumFunctionOnSet(f, X \cap T)
  BY DEF BytesOf
<1>. HIDE DEF f, T
<1>4. \A X : X \cap T \in SUBSET T
  OBVIOUS
<1>5. SumFunctionOnSet(f, {}) = 0 /\ \A X \in SUBSET T : SumFunctionOnSet(f, X) \in Nat
  BY ONLY <1>1, <1>2, SumOK
<1>6. ASSUME NEW X, NEW Y, X \cap T \subseteq Y PROVE BytesOf(s, X) <= BytesOf(s, Y)
  <2>1. X \cap T \subseteq Y \cap T
    BY <1>6
  <2>2. SumFunctionOnSet(f, X \cap T) <= SumFunctionOnSet(f, Y \cap T)
    BY ONLY <1>1, <1>2, <1>4, <2>1, SumGrows
  <2>. QED
    BY <1>3, <2>2
<1>7. ASSUME NEW X, NEW Y, X \cap T = Y \cap T PROVE BytesOf(s, X) = BytesOf(s, Y)
  BY <1>3, <1>7
<1>8. ASSUME NEW X, NEW Y, X \cap Y \cap T = {}
      PROVE  BytesOf(s, X \cup Y) = BytesOf(s, X) + BytesOf(s, Y)
  <2>1. (X \cap T) \cap (Y \cap T) = {} /\ (X \cup Y) \cap T = (X \cap T) \cup (Y \cap T)
    BY <1>8
  <2>2. SumFunctionOnSet(f, (X \cap T) \cup (Y \cap T))
          = SumFunctionOnSet(f, X \cap T) + SumFunctionOnSet(f, Y \cap T)
    BY ONLY <1>1, <1>2, <1>4, <2>1, SumJoin
  <2>. QED
    BY <1>3, <2>1, <2>2
<1>9. BytesOf(s, {}) = 0 /\ \A X : BytesOf(s, X) \in Nat
  <2>1. {} \cap T = {}
    OBVIOUS
  <2>. QED
    BY <1>3, <1>4, <1>5, <2>1
<1>. QED
  BY <1>6, <1>7, <1>8, <1>9 DEF T

(* With nothing expected of the others, all under the providers is owned,  *)
(* all else is unknown.                                                    *)
LEMMA WholeOK ==
  ASSUME Placed, NEW s, Rooted(s)
  PROVE  /\ DOMAIN Attribution(s, RootsOf, <<>>) = DOMAIN s
         /\ ClassOf(Attribution(s, RootsOf, <<>>), "Owned") = OfProviders(s)
         /\ ClassOf(Attribution(s, RootsOf, <<>>), "Escaped") = {}
         /\ ClassOf(Attribution(s, RootsOf, <<>>), "Unknown") = DOMAIN s \ OfProviders(s)
         /\ \A t \in Owners :
              {p \in DOMAIN s : Attribution(s, RootsOf, <<>>)[p].task = t} = Under(s, t)
<1>. DEFINE W == Attribution(s, RootsOf, <<>>)
<1>1. /\ DOMAIN W = DOMAIN s
      /\ \A t \in Owners : \A p \in Under(s, t) : W[p] = Owned(t)
      /\ \A p \in DOMAIN s : (\A t \in Owners : p \notin Under(s, t)) =>
           W[p] = [class |-> "Unknown", task |-> NoPid]
  <2>. DEFINE none == <<>>
  <2>1. \A p : p \notin DOMAIN none
    OBVIOUS
  <2>2. W = Attribution(s, RootsOf, none)
    OBVIOUS
  <2>. HIDE DEF none, W
  <2>3. /\ DOMAIN W = DOMAIN s
        /\ \A t \in Owners : \A p \in Under(s, t) : W[p] = Owned(t)
        /\ \A p \in DOMAIN s : (\A t \in Owners : p \notin Under(s, t)) =>
             W[p] = IF p \in DOMAIN none THEN [class |-> "Escaped", task |-> none[p]]
                    ELSE [class |-> "Unknown", task |-> NoPid]
    BY <2>2, AttributionOK
  <2>. QED
    BY <2>1, <2>3
<1>. HIDE DEF W
<1>2. \A t \in Owners : Under(s, t) \subseteq DOMAIN s
  BY UnderOK
<1>3. /\ \A p \in DOMAIN s : p \in OfProviders(s) <=> \E t \in Owners : p \in Under(s, t)
      /\ OfProviders(s) \subseteq DOMAIN s
  BY <1>2 DEF OfProviders
<1>4. /\ \A p \in OfProviders(s) : W[p].class = "Owned"
      /\ \A p \in DOMAIN s \ OfProviders(s) : W[p].class = "Unknown" /\ W[p].task = NoPid
  <2>1. \A t : Owned(t).class = "Owned"
    BY DEF Owned
  <2>2. \A p \in OfProviders(s) : \E t \in Owners : W[p] = Owned(t)
    BY <1>1 DEF OfProviders
  <2>. QED
    BY <1>1, <1>3, <2>1, <2>2
<1>5. /\ ClassOf(W, "Owned") = OfProviders(s) /\ ClassOf(W, "Escaped") = {}
      /\ ClassOf(W, "Unknown") = DOMAIN s \ OfProviders(s)
  BY <1>1, <1>3, <1>4 DEF ClassOf
<1>6. ASSUME NEW t \in Owners PROVE {p \in DOMAIN s : W[p].task = t} = Under(s, t)
  <2>0. \A u : Owned(u).task = u
    BY DEF Owned
  <2>1. \A p \in DOMAIN s \ OfProviders(s) : W[p].task # t
    BY <1>4, AccountingAssumption
  <2>2. ASSUME NEW p \in DOMAIN s, W[p].task = t PROVE p \in Under(s, t)
    <3>1. PICK u \in Owners : p \in Under(s, u)
      BY <1>3, <2>1, <2>2
    <3>. QED
      BY <1>1, <2>0, <2>2, <3>1
  <2>3. \A p \in Under(s, t) : W[p].task = t
    BY <1>1, <2>0
  <2>. QED
    BY <1>2, <2>2, <2>3
<1>. QED
  BY <1>1, <1>5, <1>6 DEF W

(* A record of the benchmark's series.                                     *)
LEMMA RecordOK ==
  ASSUME Placed, NEW s, Rooted(s), NEW t \in Owners
  PROVE  LET whole  == Attribution(s, RootsOf, <<>>)
             record == RecordOf(s, whole, providers[t])
         IN  /\ record.total = BytesOf(s, DOMAIN s)
             /\ providers[t] \in DOMAIN s =>
                  /\ record.rootLost = 0 /\ record.rootBytes <= record.bytes["Owned"]
                  /\ record.rootProcesses = Cardinality({p \in DOMAIN s : whole[p].task = t})
<1>. DEFINE W == Attribution(s, RootsOf, <<>>)
           r == providers[t]
           tree == {r} \cup DescendantsIn(s, r)
           bytes == [class \in {"Owned", "Escaped", "Unknown"} |-> BytesOf(s, ClassOf(W, class))]
           O == OfProviders(s)
<1>0. IsSnapshot(s)
  BY DEF Rooted
<1>1. /\ RecordOf(s, W, r).total = bytes["Owned"] + bytes["Escaped"] + bytes["Unknown"]
      /\ RecordOf(s, W, r).rootLost = BytesOf(s, tree \ Accounted(W))
      /\ RecordOf(s, W, r).rootBytes = BytesOf(s, tree)
      /\ RecordOf(s, W, r).bytes = bytes
      /\ RecordOf(s, W, r).rootProcesses = Cardinality(tree)
  BY DEF RecordOf, SubtreeBytes
<1>2. /\ DOMAIN W = DOMAIN s
      /\ ClassOf(W, "Owned") = O /\ ClassOf(W, "Escaped") = {}
      /\ ClassOf(W, "Unknown") = DOMAIN s \ O
      /\ {p \in DOMAIN s : W[p].task = t} = Under(s, t)
  BY WholeOK
<1>. HIDE DEF W
<1>3. /\ bytes["Owned"] = BytesOf(s, O) /\ bytes["Escaped"] = BytesOf(s, {})
      /\ bytes["Unknown"] = BytesOf(s, DOMAIN s \ O)
  BY <1>2
<1>. HIDE DEF bytes
<1>4. O \subseteq DOMAIN s
  BY UnderOK DEF OfProviders
<1>5. RecordOf(s, W, r).total = BytesOf(s, DOMAIN s)
  <2>1. BytesOf(s, {}) = 0 /\ BytesOf(s, O) \in Nat /\ BytesOf(s, DOMAIN s \ O) \in Nat
    BY <1>0, BytesOK
  <2>2. O \cap (DOMAIN s \ O) \cap DOMAIN s = {} /\ O \cup (DOMAIN s \ O) = DOMAIN s
    BY <1>4
  <2>3. BytesOf(s, O \cup (DOMAIN s \ O)) = BytesOf(s, O) + BytesOf(s, DOMAIN s \ O)
    BY <1>0, <2>2, BytesOK
  <2>. QED
    BY <1>1, <1>3, <2>1, <2>2, <2>3
<1>6. ASSUME r \in DOMAIN s
      PROVE  /\ RecordOf(s, W, r).rootLost = 0
             /\ RecordOf(s, W, r).rootBytes <= bytes["Owned"]
             /\ RecordOf(s, W, r).rootProcesses = Cardinality({p \in DOMAIN s : W[p].task = t})
  <2>1. tree = Under(s, t)
    BY <1>6 DEF Under, Tree
  <2>2. tree \subseteq O
    BY <2>1 DEF OfProviders
  <2>. HIDE DEF tree, O
  <2>3. tree \ Accounted(W) = {}
    BY <1>2, <1>4, <2>2 DEF Accounted
  <2>4. BytesOf(s, tree) <= BytesOf(s, O)
    BY <1>0, <2>2, BytesOK
  <2>5. BytesOf(s, {}) = 0
    BY <1>0, BytesOK
  <2>. QED
    BY <1>1, <1>2, <1>3, <2>1, <2>3, <2>4, <2>5
<1>. QED
  BY <1>1, <1>5, <1>6 DEF W

(* What the tasks are charged.                                             *)
LEMMA ChargesOK ==
  ASSUME Placed, NEW s, Rooted(s), NEW rec, Range(providers) \subseteq DOMAIN s
  PROVE  BytesOf(s, ClassOf(ManagedReport(s, rec), "Owned")) =
           SumFunction([t \in Owners |-> SubtreeBytes(s, providers[t])])
<1>. DEFINE charge == [t \in Owners |-> SubtreeBytes(s, providers[t])]
           All(T) == UNION {Under(s, t) : t \in T}
           Fine == {T \in SUBSET Owners : SumFunctionOnSet(charge, T) = BytesOf(s, All(T))}
<1>0. IsSnapshot(s) /\ IsFiniteSet(Owners)
  BY AccountingAssumption DEF Rooted
<1>1. \A t \in Owners : charge[t] = BytesOf(s, Under(s, t))
  BY RootsOfOK DEF SubtreeBytes, Under, Tree
<1>2. charge \in [Owners -> Nat]
  <2>1. \A t \in Owners : BytesOf(s, Under(s, t)) \in Nat
    BY <1>0, BytesOK
  <2>. QED
    BY <1>1, <2>1
<1>. HIDE DEF charge
<1>3. ASSUME NEW T \in SUBSET Owners, \A t \in T : T \ {t} \in Fine PROVE T \in Fine
  <2>1. CASE T = {}
    <3>1. All({}) = {}
      OBVIOUS
    <3>2. SumFunctionOnSet(charge, {}) = 0
      BY ONLY <1>0, <1>2, SumOK
    <3>3. BytesOf(s, {}) = 0
      BY <1>0, BytesOK
    <3>. QED
      BY <2>1, <3>1, <3>2, <3>3
  <2>2. CASE T # {}
    <3>1. PICK t \in T : TRUE
      BY <2>2
    <3>2. SumFunctionOnSet(charge, T) = charge[t] + SumFunctionOnSet(charge, T \ {t})
      BY ONLY <1>0, <1>2, SumOK, T \in SUBSET Owners, t \in T
    <3>3. SumFunctionOnSet(charge, T \ {t}) = BytesOf(s, All(T \ {t}))
      BY <1>3
    <3>4. Under(s, t) \cup All(T \ {t}) = All(T)
      OBVIOUS
    <3>5. Under(s, t) \cap All(T \ {t}) \cap DOMAIN s = {}
      BY UnderOK
    <3>. DEFINE A == Under(s, t)
               B == All(T \ {t})
    <3>6. BytesOf(s, A \cup B) = BytesOf(s, A) + BytesOf(s, B)
      <4>1. A \cap B \cap DOMAIN s = {}
        BY <3>5
      <4>. HIDE DEF A, B
      <4>. QED
        BY <1>0, <4>1, BytesOK
    <3>. HIDE DEF All
    <3>. QED
      BY <1>1, <3>2, <3>3, <3>4, <3>6
  <2>. QED
    BY <2>1, <2>2
<1>. HIDE DEF Fine
<1>4. \A T \in SUBSET Owners : T \in Fine
  BY ONLY <1>0, <1>3, OneLess
<1>5. SumFunctionOnSet(charge, Owners) = BytesOf(s, OfProviders(s))
  BY <1>4 DEF Fine, OfProviders
<1>6. SumFunction(charge) = SumFunctionOnSet(charge, Owners)
  BY <1>2 DEF SumFunction
<1>7. ClassOf(ManagedReport(s, rec), "Owned") = OfProviders(s)
  <2>. DEFINE report == ManagedReport(s, rec)
  <2>1. /\ DOMAIN report = Kept(s, rec)
        /\ \A t \in Owners : \A p \in Under(s, t) : report[p] = Owned(t)
        /\ \A p \in Kept(s, rec) : (\A t \in Owners : p \notin Under(s, t)) => report[p].class = "Escaped"
    BY ReportOK
  <2>. HIDE DEF report
  <2>2. OfProviders(s) \subseteq Kept(s, rec)
    BY UnderOK DEF Kept, OfProviders
  <2>3. \A p \in OfProviders(s) : report[p].class = "Owned"
    <3>1. \A t : Owned(t).class = "Owned"
      BY DEF Owned
    <3>. QED
      BY <2>1, <3>1 DEF OfProviders
  <2>4. \A p \in Kept(s, rec) : p \notin OfProviders(s) => report[p].class = "Escaped"
    BY <2>1 DEF OfProviders
  <2>5. ClassOf(report, "Owned") = OfProviders(s)
    BY <2>1, <2>2, <2>3, <2>4 DEF ClassOf
  <2>. QED
    BY <2>5 DEF report
<1>. QED
  BY <1>5, <1>6, <1>7 DEF charge

LEMMA AddUpOK ==
  ASSUME Placed, NEW s, Rooted(s), NEW rec
  PROVE  BytesAddUp(s, ManagedReport(s, rec))
<1>0. IsSnapshot(s)
  BY DEF Rooted
<1>1. Classified(s).total = BytesOf(s, DOMAIN Tagged(s))
  <2>. DEFINE P == ProviderPids(s)
             M == ManagerPids(s)
  <2>1. Classified(s).total = BytesOf(s, P) + BytesOf(s, M) /\ DOMAIN Tagged(s) = (P \cup M) \cap DOMAIN s
    BY DEF Classified, Tagged
  <2>2. P \cap M = {}
    BY DEF ManagerPids
  <2>. HIDE DEF P, M
  <2>3. BytesOf(s, P \cup M) = BytesOf(s, P) + BytesOf(s, M)
    BY <1>0, <2>2, BytesOK
  <2>4. BytesOf(s, (P \cup M) \cap DOMAIN s) = BytesOf(s, P \cup M)
    BY <1>0, BytesOK
  <2>. QED
    BY <2>1, <2>3, <2>4
<1>2. Range(providers) \subseteq DOMAIN s =>
        BytesOf(s, ClassOf(ManagedReport(s, rec), "Owned")) =
          SumFunction([t \in Owners |-> SubtreeBytes(s, providers[t])])
  BY ChargesOK
<1>. QED
  BY <1>1, <1>2, RecordOK DEF BytesAddUp

-----------------------------------------------------------------------------
(* The processes.                                                          *)

Process == [parent : PidSlots \cup {NoPid}, owner : Owners \cup {NoPid}, zombie : BOOLEAN]

(* The daemon has no parent among them, the providers are its children and *)
(* all else was forked by its parent for the parent's task, or is init's.  *)
Population ==
  /\ DOMAIN proc \subseteq PidSlots /\ proc \in [DOMAIN proc -> Process]
  /\ manager \in DOMAIN proc
  /\ proc[manager] = [parent |-> NoPid, owner |-> NoPid, zombie |-> FALSE]
  /\ \A t \in Owners : /\ providers[t] \in DOMAIN proc
                       /\ proc[providers[t]].parent = manager /\ proc[providers[t]].owner = t
  /\ \A p \in DOMAIN proc \ (Range(providers) \cup {manager}) :
       /\ ~proc[p].zombie
       /\ proc[p].parent # NoPid =>
            /\ proc[p].parent \in DOMAIN proc \ {manager}
            /\ proc[proc[p].parent].owner = proc[p].owner

(* What was read is still so, or an orphan's, unless the pid is another's. *)
Gathered ==
  /\ Rooted(samples) /\ halfRead \in DOMAIN samples \cup {NoPid}
  /\ \A p \in (DOMAIN samples \cap DOMAIN proc) \ reused :
       proc[p].parent # NoPid => samples[p].parent = proc[p].parent

(* The processes that were there when the walk began: with one its parent; *)
(* all of them that the walk has passed it has read; and what was recorded *)
(* is one of them.                                                         *)
WereThere(Old) ==
  /\ Old \subseteq DOMAIN proc /\ Range(providers) \subseteq Old
  /\ \A p \in Old : proc[p].parent \in Old \cup {NoPid, manager}
  /\ \A p \in Old \cap DOMAIN samples :
       proc[p].parent # NoPid => samples[p].parent = proc[p].parent
  /\ ~(cursor = MaxPid + 1 /\ samples = <<>>) =>
       \A p \in Old : ~proc[p].zombie /\ p < cursor => p \in DOMAIN samples
  /\ (EverRecorded(recorded) \cap DOMAIN proc) \ reused \subseteq Old

(* Whose a process is that the walk has read, or read of, by its parents.  *)
Belong(own) ==
  /\ own[manager] = NoPid /\ \A t \in Owners : own[providers[t]] = t
  /\ \A p \in DOMAIN samples : samples[p].parent \notin {NoPid, manager} =>
       own[p] = own[samples[p].parent]
  /\ \A p \in Named(samples) \cap DOMAIN proc : own[p] = proc[p].owner

Blamed ==
  reused = {} =>
    /\ \A t \in Owners : \A p \in recorded[t] \cap DOMAIN proc : proc[p].owner = t
    /\ \E own \in [PidSlots -> Owners \cup {NoPid}] : Belong(own)

AccountingInv ==
  /\ AccountingTypeOK /\ Placed /\ Population /\ Gathered /\ Blamed
  /\ \E Old \in SUBSET DOMAIN proc : WereThere(Old)

LEMMA EverRecordedOK ==
  ASSUME NEW rec \in [Owners -> SUBSET PidSlots]
  PROVE  \A p : p \in EverRecorded(rec) <=> \E t \in Owners : p \in rec[t]
BY DEF EverRecorded, Range

LEMMA TruthOK ==
  ASSUME Population
  PROVE  IsSnapshot(Truth) /\ DOMAIN Truth = DOMAIN proc /\ \A p \in DOMAIN proc : Truth[p].parent = proc[p].parent
<1>1. DOMAIN Truth = DOMAIN proc /\ \A p \in DOMAIN proc : Truth[p] = [parent |-> proc[p].parent, bytes |-> 0]
  BY DEF Truth
<1>2. \A p \in DOMAIN proc : proc[p].parent \in PidSlots \cup {NoPid}
  BY DEF Population, Process
<1>3. Truth \in [DOMAIN proc -> Sample]
  BY <1>2 DEF Truth, Sample
<1>. QED
  BY <1>1, <1>3 DEF IsSnapshot, Population

(* What is below a reused pid is as good as one itself.                    *)
LEMMA AnewOK ==
  ASSUME Population, reused \subseteq PidSlots
  PROVE  /\ reused \subseteq Anew
         /\ \A c \in DOMAIN proc : proc[c].parent \in Anew => c \in Anew
<1>1. Anew = UNION {Tree(Truth, p) : p \in reused}
  BY DEF Anew, Tree
<1>2. \A p \in reused : p \in Tree(Truth, p) /\ HoldsChildren(Truth, Tree(Truth, p))
  BY TruthOK, TreeOK DEF Tree
<1>3. \A q : q \in Anew <=> \E p \in reused : q \in Tree(Truth, p)
  BY <1>1
<1>4. \A c \in DOMAIN proc : c \in DOMAIN Truth /\ Truth[c].parent = proc[c].parent
  BY TruthOK
<1>. QED
  BY <1>2, <1>3, <1>4 DEF HoldsChildren

(* Below a living provider there are no other provider and no daemon.      *)
LEMMA NoOtherRoot ==
  ASSUME Placed, Population, NEW t \in Owners, NEW c \in DOMAIN proc,
         proc[c].parent \in DOMAIN proc \ {manager}
  PROVE  c # manager /\ c \notin Range(providers) /\ ~proc[c].zombie
<1>1. NoPid \notin DOMAIN proc
  BY DEF Population, PidSlots, NoPid
<1>2. c # manager
  BY <1>1 DEF Population
<1>3. c \notin Range(providers)
  BY DEF Population, Placed, Range
<1>. QED
  BY <1>2, <1>3 DEF Population

(* A living provider has been read when the walk ends.                     *)
LEMMA LivingIsRead ==
  ASSUME AccountingInv, Complete, NEW t \in Owners, ~proc[providers[t]].zombie
  PROVE  providers[t] \in DOMAIN samples
<1>1. PICK Old \in SUBSET DOMAIN proc : WereThere(Old)
  BY DEF AccountingInv
<1>2. providers[t] \in Old /\ providers[t] \in PidSlots
  BY <1>1, RootsOfOK DEF WereThere, AccountingInv
<1>3. providers[t] < cursor
  BY <1>2, SlotsFinite DEF Complete, PidSlots
<1>. QED
  BY <1>1, <1>2, <1>3 DEF WereThere, Complete

(* What was recorded and is under a living provider is read under it, too. *)
LEMMA RecordedIsUnder ==
  ASSUME AccountingInv, Complete, NEW t \in Owners, ~proc[providers[t]].zombie,
         NEW p \in Tree(Truth, providers[t]) \ reused, p \in EverRecorded(recorded)
  PROVE  p \in Under(samples, t)
<1>. DEFINE r == providers[t]
<1>0. PICK Old \in SUBSET DOMAIN proc : WereThere(Old)
  BY DEF AccountingInv
<1>1. r \in DOMAIN samples /\ r \in PidSlots /\ r # manager /\ r \in DOMAIN proc
  BY LivingIsRead, RootsOfOK DEF AccountingInv, Population
<1>2. IsSnapshot(samples) /\ IsSnapshot(Truth) /\ DOMAIN Truth = DOMAIN proc
      /\ \A q \in DOMAIN proc : Truth[q].parent = proc[q].parent
  BY TruthOK DEF AccountingInv, Gathered, Rooted
<1>. DEFINE X == {q \in DOMAIN proc \ {manager} : q \in Old => q \in Tree(samples, r)}
<1>3. r \in X
  BY <1>1 DEF Tree
<1>4. ASSUME NEW c \in DOMAIN proc, proc[c].parent \in X PROVE c \in X
  <2>. DEFINE q == proc[c].parent
  <2>1. c # manager /\ ~proc[c].zombie /\ q \in DOMAIN proc /\ q # NoPid /\ q # manager
    BY <1>4, NoOtherRoot DEF AccountingInv, Population, PidSlots, NoPid
  <2>2. ASSUME c \in Old PROVE c \in Tree(samples, r)
    <3>1. q \in Old
      BY <1>0, <2>1, <2>2 DEF WereThere
    <3>2. q \in Tree(samples, r)
      BY <1>4, <3>1
    <3>3. c \in PidSlots
      BY DEF AccountingInv, Population
    <3>4. c < cursor
      BY <3>3, SlotsFinite DEF Complete, PidSlots
    <3>5. c \in DOMAIN samples
      BY <1>0, <2>1, <2>2, <3>4 DEF WereThere, Complete
    <3>6. samples[c].parent = q
      BY <1>0, <2>1, <2>2, <3>5 DEF WereThere
    <3>. QED
      BY <1>1, <1>2, <3>2, <3>5, <3>6, TreeOK DEF HoldsChildren
  <2>. QED
    BY <2>1, <2>2
<1>5. HoldsChildren(Truth, X)
  BY <1>2, <1>4 DEF HoldsChildren
<1>. HIDE DEF X
<1>6. p \in X
  BY <1>1, <1>2, <1>3, <1>5, TreeOK
<1>7. p \in Old
  BY <1>0, <1>6 DEF WereThere, X
<1>. QED
  BY <1>1, <1>6, <1>7 DEF X, Under

(* Nothing is read under the pid of a provider that was not read, and is   *)
(* under another one, but by a pid that was handed out anew.               *)
LEMMA StrayIsAnew ==
  ASSUME AccountingInv, NEW t \in Owners, NEW u \in Owners,
         providers[u] \notin DOMAIN samples, providers[t] \in DOMAIN samples,
         NEW p \in Tree(Truth, providers[t]), p \in Tree(samples, providers[u])
  PROVE  p \in Anew
<1>. DEFINE r == providers[t]
           v == providers[u]
           R == Range(providers)
<1>1. /\ r \in DOMAIN samples /\ r \in PidSlots /\ r # manager /\ r \in DOMAIN proc /\ r \in R
      /\ v \in PidSlots /\ v # manager /\ v \in R /\ r # v
      /\ samples[r].parent = manager /\ manager \in PidSlots
  BY RootsOfOK DEF AccountingInv, Population, Gathered, Rooted, Placed
<1>2. IsSnapshot(samples) /\ IsSnapshot(Truth) /\ DOMAIN Truth = DOMAIN proc
      /\ \A q \in DOMAIN proc : Truth[q].parent = proc[q].parent
  BY TruthOK DEF AccountingInv, Gathered, Rooted
<1>3. NoPid \notin PidSlots /\ DOMAIN samples \subseteq PidSlots /\ DOMAIN proc \subseteq PidSlots
  BY SlotsFinite DEF PidSlots, NoPid, AccountingInv, Population, AccountingTypeOK
<1>. DEFINE X == {q \in DOMAIN proc \ {manager} :
                   (q \in R => q = r) /\ (q \in Anew \/ q \notin Tree(samples, v))}
<1>4. r \in X
  <2>1. ASSUME r \in Tree(samples, v) PROVE FALSE
    <3>1. manager \in Tree(samples, v)
      BY <1>1, <1>2, <2>1, ParentInTree
    <3>2. manager \in DOMAIN samples /\ samples[manager].parent \in Tree(samples, v)
      BY <1>1, <1>2, <3>1, ParentInTree
    <3>3. NoPid \in Tree(samples, v)
      BY <3>2 DEF AccountingInv, Gathered, Rooted
    <3>. QED
      BY <1>1, <1>2, <1>3, <3>3, TreeOK
  <2>. QED
    BY <1>1, <2>1
<1>5. ASSUME NEW c \in DOMAIN proc, proc[c].parent \in X PROVE c \in X
  <2>. DEFINE q == proc[c].parent
  <2>1. c # manager /\ c \notin R /\ q \in DOMAIN proc /\ q # NoPid
    BY <1>3, <1>5, NoOtherRoot DEF AccountingInv
  <2>2. ASSUME c \notin Anew, c \in Tree(samples, v) PROVE FALSE
    <3>1. reused \subseteq Anew /\ q \notin Anew
      BY <2>2, AnewOK DEF AccountingInv, AccountingTypeOK
    <3>2. c \in DOMAIN samples /\ samples[c].parent \in Tree(samples, v)
      BY <1>1, <1>2, <2>1, <2>2, ParentInTree
    <3>3. samples[c].parent = q
      BY <2>1, <2>2, <3>1, <3>2 DEF AccountingInv, Gathered
    <3>. QED
      BY <1>5, <3>1, <3>2, <3>3
  <2>. QED
    BY <2>1, <2>2
<1>6. HoldsChildren(Truth, X)
  BY <1>2, <1>5 DEF HoldsChildren
<1>. HIDE DEF X
<1>7. p \in X
  BY <1>1, <1>2, <1>4, <1>6, TreeOK
<1>. QED
  BY <1>7 DEF X

LEMMA RecordingOK ==
  ASSUME AccountingInv
  PROVE  /\ Recording(samples) \in [Owners -> SUBSET PidSlots]
         /\ \A t \in Owners : Recording(samples)[t] =
              (recorded[t] \cup Tree(samples, providers[t])) \cap DOMAIN samples
<1>1. \A t \in Owners : Recording(samples)[t] =
        (recorded[t] \cup Tree(samples, providers[t])) \cap DOMAIN samples
  BY DEF Recording, Tree
<1>2. DOMAIN samples \subseteq PidSlots
  BY DEF AccountingInv, AccountingTypeOK
<1>3. Recording(samples) \in [Owners -> SUBSET PidSlots]
  <2>. DEFINE rec(t) == (recorded[t] \cup {providers[t]} \cup DescendantsIn(samples, providers[t])) \cap DOMAIN samples
  <2>1. Recording(samples) = [t \in Owners |-> rec(t)]
    BY DEF Recording
  <2>2. \A t \in Owners : rec(t) \in SUBSET PidSlots
    BY <1>2
  <2>. HIDE DEF rec
  <2>. QED
    BY <2>1, <2>2
<1>. QED
  BY <1>1, <1>3

(* What the walk has under a provider is of its task's, if no pid came     *)
(* back.                                                                   *)
LEMMA BelowBelongs ==
  ASSUME AccountingInv, NEW own, Belong(own), NEW t \in Owners,
         NEW p \in Tree(samples, providers[t]) \cap DOMAIN samples \cap DOMAIN proc
  PROVE  proc[p].owner = t
<1>. DEFINE r == providers[t]
           X == {q \in PidSlots : own[q] = t}
<1>0. r \in PidSlots /\ IsSnapshot(samples) /\ NoPid \notin PidSlots /\ NoPid \notin Owners
  BY RootsOfOK, SlotsFinite, AccountingAssumption
     DEF AccountingInv, Gathered, Rooted, PidSlots, NoPid
<1>1. r \in X
  BY <1>0 DEF Belong
<1>2. ASSUME NEW c \in DOMAIN samples, samples[c].parent \in X PROVE c \in X
  <2>1. samples[c].parent \notin {NoPid, manager} /\ c \in PidSlots
    BY <1>0, <1>2 DEF Belong, IsSnapshot
  <2>. QED
    BY <1>2, <2>1 DEF Belong
<1>3. HoldsChildren(samples, X)
  BY <1>2 DEF HoldsChildren
<1>. HIDE DEF X
<1>4. p \in X
  BY <1>0, <1>1, <1>3, TreeOK
<1>5. own[p] = proc[p].owner
  BY DEF Belong, Named
<1>. QED
  BY <1>4, <1>5 DEF X

LEMMA BlameOK ==
  ASSUME AccountingInv, reused = {}, NEW t \in Owners,
         NEW p \in Recording(samples)[t] \cap DOMAIN proc
  PROVE  proc[p].owner = t
<1>1. PICK own : Belong(own)
  BY DEF AccountingInv, Blamed
<1>2. p \in recorded[t] \/ p \in Tree(samples, providers[t]) \cap DOMAIN samples
  BY RecordingOK
<1>3. CASE p \in recorded[t]
  BY <1>3 DEF AccountingInv, Blamed
<1>4. CASE p \in Tree(samples, providers[t]) \cap DOMAIN samples
  BY <1>1, <1>4, BelowBelongs
<1>. QED
  BY <1>2, <1>3, <1>4

LEMMA FlagsOK ==
  ASSUME AccountingInv, Complete
  PROVE  FlagsAreTrue(samples, ManagedReport(samples, Recording(samples)))
<1>. DEFINE rec == Recording(samples)
           report == ManagedReport(samples, rec)
<1>1. ASSUME NEW t \in Owners, ~proc[providers[t]].zombie,
             NEW p \in Tree(Truth, providers[t]), p \in ClassOf(report, "Escaped"), p \notin Anew
      PROVE  FALSE
  <2>1. Placed /\ Rooted(samples)
    BY DEF AccountingInv, Gathered
  <2>2. p \in Kept(samples, rec) /\ report[p].class = "Escaped"
    BY <1>1, <2>1, ReportOK DEF ClassOf
  <2>3. \A u \in Owners : p \notin Under(samples, u)
    <3>1. \A u : Owned(u).class = "Owned"
      BY DEF Owned
    <3>2. \A u \in Owners : p \in Under(samples, u) => report[p] = Owned(u)
      BY <2>1, ReportOK
    <3>. QED
      BY <2>2, <3>1, <3>2
  <2>4. p \in EverRecorded(rec) /\ p \in DOMAIN samples
    BY <2>2, <2>3 DEF Kept, OfProviders
  <2>5. PICK u \in Owners : p \in recorded[u] \cup Tree(samples, providers[u])
    BY <2>4, RecordingOK, EverRecordedOK
  <2>6. recorded \in [Owners -> SUBSET PidSlots] /\ p \notin reused
    BY <1>1, AnewOK DEF AccountingInv, AccountingTypeOK
  <2>7. CASE p \in recorded[u]
    <3>1. p \in EverRecorded(recorded)
      BY <2>6, <2>7, EverRecordedOK
    <3>2. p \in Under(samples, t)
      BY <1>1, <2>6, <3>1, RecordedIsUnder
    <3>. QED
      BY <2>3, <3>2
  <2>8. CASE p \in Tree(samples, providers[u])
    <3>1. providers[u] \notin DOMAIN samples
      BY <2>3, <2>8 DEF Under
    <3>2. providers[t] \in DOMAIN samples
      BY <1>1, LivingIsRead
    <3>. QED
      BY <1>1, <2>8, <3>1, <3>2, StrayIsAnew
  <2>. QED
    BY <2>5, <2>7, <2>8
<1>2. reused = {} => \A t \in Owners : \A p \in rec[t] \cap DOMAIN proc : proc[p].owner = t
  BY BlameOK
<1>. HIDE DEF rec
<1>3. \A t \in Owners : ~proc[providers[t]].zombie =>
        ((({providers[t]} \cup DescendantsIn(Truth, providers[t])) \cap ClassOf(report, "Escaped")) \subseteq Anew)
  BY <1>1 DEF Tree
<1>. QED
  BY <1>2, <1>3 DEF FlagsAreTrue, rec

LEMMA SnapshotOK ==
  ASSUME AccountingInv
  PROVE  SnapshotsAreExplained
<1>. SUFFICES ASSUME Complete
             PROVE  LET report == ManagedReport(samples, Recording(samples))
                    IN  /\ WalksAgree(samples)
                        /\ ViewLosesNothing(samples, report)
                        /\ BytesAddUp(samples, report)
                        /\ FlagsAreTrue(samples, report)
  BY DEF SnapshotsAreExplained
<1>1. Placed /\ Rooted(samples) /\ IsSnapshot(samples)
  BY DEF AccountingInv, Gathered, Rooted
<1>. QED
  BY <1>1, WalksAgreeOK, ViewOK, AddUpOK, FlagsOK

LEMMA NothingRead ==
  /\ IsSnapshot(<<>>) /\ Named(<<>>) = {} /\ DOMAIN <<>> = {}
  /\ Placed => Rooted(<<>>)
<1>1. DOMAIN <<>> = {}
  OBVIOUS
<1>2. IsSnapshot(<<>>)
  BY <1>1 DEF IsSnapshot
<1>3. Named(<<>>) = {}
  BY <1>1 DEF Named
<1>. QED
  BY <1>1, <1>2, <1>3 DEF Rooted, Placed

LEMMA Apart ==
  ASSUME AccountingInv
  PROVE  /\ manager \in PidSlots \cap DOMAIN proc /\ NoPid \notin PidSlots \cup Owners
         /\ DOMAIN proc \subseteq PidSlots /\ DOMAIN samples \subseteq PidSlots
         /\ \A t \in Owners : providers[t] \in PidSlots \cap DOMAIN proc /\ providers[t] # manager
BY SlotsFinite, RootsOfOK, AccountingAssumption
   DEF AccountingInv, Population, PidSlots, NoPid, Placed, Gathered, Rooted, IsSnapshot

LEMMA InitOK ==
  ASSUME AccountingInit
  PROVE  AccountingInv
<1>0. MaxPid \in Nat /\ MaxForks \in Nat /\ MaxWalks \in Nat /\ NoPid \notin PidSlots
  BY AccountingAssumption DEF PidSlots, NoPid
<1>1. Placed
  BY DEF AccountingInit, Placed
<1>2. /\ DOMAIN proc = Range(providers) \cup {manager} /\ DOMAIN proc \subseteq PidSlots
      /\ \A p \in DOMAIN proc :
           proc[p] = [parent |-> IF p = manager THEN NoPid ELSE manager, zombie |-> FALSE,
                      owner |-> IF p = manager THEN NoPid ELSE CHOOSE t \in Owners : providers[t] = p]
      /\ proc \in [DOMAIN proc -> [parent : {NoPid, manager}, zombie : {FALSE}, owner : {proc[p].owner : p \in DOMAIN proc}]]
  BY <1>1 DEF AccountingInit, Placed, Range
<1>3. \A t \in Owners : /\ providers[t] \in Range(providers) /\ providers[t] # manager
                        /\ (CHOOSE u \in Owners : providers[u] = providers[t]) = t
  BY <1>1, RootsOfOK DEF RootsOf
<1>4. \A p \in DOMAIN proc : p # manager => \E t \in Owners : p = providers[t]
  BY <1>1, <1>2 DEF Range, Placed
<1>5. Population
  <2>1. proc[manager] = [parent |-> NoPid, owner |-> NoPid, zombie |-> FALSE]
    BY <1>2
  <2>2. ASSUME NEW t \in Owners
        PROVE  /\ proc[providers[t]] \in Process
               /\ proc[providers[t]].parent = manager /\ proc[providers[t]].owner = t
    <3>. DEFINE r == providers[t]
               mine == CHOOSE u \in Owners : providers[u] = r
    <3>1. r \in DOMAIN proc /\ r # manager /\ mine = t
      BY <1>2, <1>3
    <3>2. proc[r] = [parent |-> IF r = manager THEN NoPid ELSE manager, zombie |-> FALSE,
                     owner |-> IF r = manager THEN NoPid ELSE mine]
      BY <1>2, <3>1
    <3>. HIDE DEF mine
    <3>3. proc[r] = [parent |-> manager, owner |-> t, zombie |-> FALSE]
      BY <3>1, <3>2
    <3>. HIDE DEF r
    <3>4. proc[r] \in Process /\ proc[r].parent = manager /\ proc[r].owner = t
      BY <1>1, <3>3 DEF Process, Placed
    <3>. QED
      BY <3>4 DEF r
  <2>3. \A p \in DOMAIN proc : proc[p] \in Process
    <3>1. proc[manager] \in Process
      BY <2>1 DEF Process
    <3>. QED
      BY <1>4, <2>2, <3>1
  <2>4. proc \in [DOMAIN proc -> Process]
    BY <1>2, <2>3
  <2>5. \A t \in Owners : /\ providers[t] \in DOMAIN proc
                          /\ proc[providers[t]].parent = manager /\ proc[providers[t]].owner = t
    BY <1>2, <1>3, <2>2
  <2>. QED
    BY <1>2, <2>4, <2>5 DEF Population
<1>6. AccountingTypeOK
  BY <1>0, <1>1, <1>2, NothingRead DEF AccountingInit, AccountingTypeOK, Placed
<1>7. Gathered
  BY <1>1, NothingRead DEF AccountingInit, Gathered
<1>8. Blamed
  <2>. DEFINE own == [p \in PidSlots |-> IF p \in DOMAIN proc THEN proc[p].owner ELSE NoPid]
  <2>1. own \in [PidSlots -> Owners \cup {NoPid}]
    BY <1>5 DEF Population, Process
  <2>2. Belong(own)
    BY <1>5, <1>1, NothingRead DEF AccountingInit, Belong, Population, Placed
  <2>. HIDE DEF own
  <2>. QED
    BY <2>1, <2>2 DEF Blamed, AccountingInit
<1>9. WereThere(DOMAIN proc)
  BY <1>2, <1>5, NothingRead DEF AccountingInit, WereThere, Population
<1>. QED
  BY <1>1, <1>5, <1>6, <1>7, <1>8, <1>9 DEF AccountingInv

LEMMA ForkOK ==
  ASSUME AccountingInv, NEW p \in DOMAIN proc, ForkProcess(p)
  PROVE  AccountingInv'
<1>1. PICK child \in PidSlots \ DOMAIN proc :
        /\ proc' = [q \in DOMAIN proc \cup {child} |->
                      IF q = child THEN [parent |-> p, owner |-> proc[p].owner, zombie |-> FALSE]
                      ELSE proc[q]]
        /\ reused' = IF child \in Named(samples) \cup EverRecorded(recorded) THEN reused \cup {child}
                     ELSE reused
  BY DEF ForkProcess
<1>2. /\ UNCHANGED <<providers, manager, cursor, halfRead, samples, recorded, walks>>
      /\ forks < MaxForks /\ forks' = forks + 1 /\ ~proc[p].zombie /\ p # manager
  BY DEF ForkProcess
<1>3. /\ DOMAIN proc' = DOMAIN proc \cup {child} /\ child \in PidSlots /\ child \notin DOMAIN proc
      /\ proc'[child] = [parent |-> p, owner |-> proc[p].owner, zombie |-> FALSE]
      /\ \A q \in DOMAIN proc : proc'[q] = proc[q]
  BY <1>1
<1>4. reused \subseteq reused' /\ reused' \subseteq reused \cup {child}
      /\ (child \in Named(samples) \cup EverRecorded(recorded) => child \in reused')
  BY <1>1
<1>5. /\ p \in PidSlots /\ NoPid \notin PidSlots /\ p # NoPid
      /\ child # manager /\ \A t \in Owners : child # providers[t]
      /\ proc[p] \in Process /\ DOMAIN samples \subseteq PidSlots
  BY <1>3, Apart DEF AccountingInv, Population
<1>6. AccountingTypeOK'
  <2>1. \A q \in DOMAIN proc' : q \in PidSlots /\ proc'[q].parent \in PidSlots \cup {NoPid}
    BY <1>3, <1>5 DEF AccountingInv, AccountingTypeOK
  <2>2. forks' \in 0..MaxForks
    BY <1>2, AccountingAssumption DEF AccountingInv, AccountingTypeOK
  <2>3. reused' \subseteq PidSlots
    BY <1>3, <1>4 DEF AccountingInv, AccountingTypeOK
  <2>. QED
    BY <1>2, <2>1, <2>2, <2>3 DEF AccountingInv, AccountingTypeOK
<1>7. Placed'
  BY <1>2 DEF AccountingInv, Placed
<1>8. Population'
  <2>1. proc' \in [DOMAIN proc' -> Process]
    <3>1. proc'[child] \in Process
      BY <1>3, <1>5 DEF Process
    <3>2. \A q \in DOMAIN proc : proc'[q] \in Process
      BY <1>3 DEF AccountingInv, Population
    <3>3. \A q \in DOMAIN proc' : proc'[q] \in Process
      BY <1>3, <3>1, <3>2
    <3>. QED
      BY <1>1, <3>3
  <2>2. ASSUME NEW q \in DOMAIN proc' \ (Range(providers) \cup {manager})
        PROVE  /\ ~proc'[q].zombie
               /\ proc'[q].parent # NoPid =>
                    /\ proc'[q].parent \in DOMAIN proc' \ {manager}
                    /\ proc'[proc'[q].parent].owner = proc'[q].owner
    <3>1. CASE q = child
      BY <1>2, <1>3, <1>5, <3>1
    <3>2. CASE q # child
      BY <1>3, <3>2 DEF AccountingInv, Population
    <3>. QED
      BY <3>1, <3>2
  <2>3. /\ manager \in DOMAIN proc'
        /\ proc'[manager] = [parent |-> NoPid, owner |-> NoPid, zombie |-> FALSE]
        /\ \A t \in Owners : /\ providers[t] \in DOMAIN proc'
                             /\ proc'[providers[t]].parent = manager /\ proc'[providers[t]].owner = t
    BY <1>3, <1>5 DEF AccountingInv, Population
  <2>4. DOMAIN proc' \subseteq PidSlots
    BY <1>3 DEF AccountingInv, Population
  <2>. QED
    BY <1>2, <2>1, <2>2, <2>3, <2>4 DEF Population
<1>9. Gathered'
  <2>1. \A q \in (DOMAIN samples \cap DOMAIN proc') \ reused' : q # child
    BY <1>4 DEF Named
  <2>. QED
    BY <1>2, <1>3, <1>4, <2>1 DEF AccountingInv, Gathered, Rooted
<1>10. Blamed'
  <2>. SUFFICES ASSUME reused' = {}
               PROVE  /\ \A t \in Owners : \A q \in recorded[t] \cap DOMAIN proc' : proc'[q].owner = t
                      /\ \E own \in [PidSlots -> Owners \cup {NoPid}] : Belong(own)'
    BY <1>2 DEF Blamed
  <2>1. reused = {} /\ child \notin Named(samples) /\ \A t \in Owners : child \notin recorded[t]
    BY <1>4, EverRecordedOK DEF AccountingInv, AccountingTypeOK
  <2>2. PICK own \in [PidSlots -> Owners \cup {NoPid}] : Belong(own)
    BY <2>1 DEF AccountingInv, Blamed
  <2>3. Belong(own)'
    BY <1>2, <1>3, <2>1, <2>2 DEF Belong
  <2>4. \A t \in Owners : \A q \in recorded[t] \cap DOMAIN proc' : proc'[q].owner = t
    BY <1>3, <2>1 DEF AccountingInv, Blamed
  <2>. QED
    BY <2>3, <2>4
<1>11. \E Old \in SUBSET DOMAIN proc' : WereThere(Old)'
  <2>1. PICK Old \in SUBSET DOMAIN proc : WereThere(Old)
    BY DEF AccountingInv
  <2>2. WereThere(Old)'
    <3>1. (EverRecorded(recorded) \cap DOMAIN proc') \ reused' \subseteq Old
      BY <1>3, <1>4, <2>1 DEF WereThere
    <3>. QED
      BY <1>2, <1>3, <2>1, <3>1 DEF WereThere
  <2>. QED
    BY <1>3, <2>2
<1>. QED
  BY <1>6, <1>7, <1>8, <1>9, <1>10, <1>11 DEF AccountingInv

LEMMA ExitOK ==
  ASSUME AccountingInv, NEW p \in DOMAIN proc, ExitProcess(p)
  PROVE  AccountingInv'
<1>1. /\ UNCHANGED <<providers, manager, cursor, halfRead, samples, recorded, reused, forks, walks>>
      /\ ~proc[p].zombie /\ p # manager
  BY DEF ExitProcess
<1>2. /\ DOMAIN proc' \subseteq DOMAIN proc /\ DOMAIN proc \subseteq DOMAIN proc' \cup {p}
      /\ p \in Range(providers) => p \in DOMAIN proc'
      /\ \A q \in DOMAIN proc' : q # p =>
           proc'[q] = IF proc[q].parent = p THEN [proc[q] EXCEPT !.parent = NoPid] ELSE proc[q]
      /\ p \in DOMAIN proc' => p \in Range(providers) /\ proc'[p] = [proc[p] EXCEPT !.zombie = TRUE]
      /\ proc' = [q \in DOMAIN proc' |-> proc'[q]]
  BY DEF ExitProcess
<1>3. NoPid \notin PidSlots /\ DOMAIN proc \subseteq PidSlots /\ DOMAIN samples \subseteq PidSlots
  BY Apart DEF AccountingInv, Population
<1>4. \A q \in DOMAIN proc' :
        /\ proc'[q] \in Process /\ proc'[q].owner = proc[q].owner
        /\ proc'[q].parent = IF q # p /\ proc[q].parent = p THEN NoPid ELSE proc[q].parent
        /\ proc[q].zombie => proc'[q].zombie
        /\ q # p => proc'[q].zombie = proc[q].zombie
  <2>. SUFFICES ASSUME NEW q \in DOMAIN proc'
               PROVE  /\ proc'[q] \in Process /\ proc'[q].owner = proc[q].owner
                      /\ proc'[q].parent = IF q # p /\ proc[q].parent = p THEN NoPid ELSE proc[q].parent
                      /\ proc[q].zombie => proc'[q].zombie
                      /\ q # p => proc'[q].zombie = proc[q].zombie
    OBVIOUS
  <2>1. PICK now \in Process : now = proc[q]
    BY <1>2 DEF AccountingInv, Population
  <2>2. CASE q = p
    <3>1. proc'[q] = [now EXCEPT !.zombie = TRUE]
      BY <1>2, <2>1, <2>2
    <3>. QED
      BY <2>1, <2>2, <3>1 DEF Process
  <2>3. CASE q # p /\ now.parent = p
    <3>1. proc'[q] = [now EXCEPT !.parent = NoPid]
      BY <1>2, <2>1, <2>3
    <3>. QED
      BY <2>1, <2>3, <3>1 DEF Process
  <2>4. CASE q # p /\ now.parent # p
    BY <1>2, <2>1, <2>4
  <2>. QED
    BY <2>1, <2>2, <2>3, <2>4
<1>5. AccountingTypeOK'
  <2>1. \A q \in DOMAIN proc' : q \in PidSlots /\ proc'[q].parent \in PidSlots \cup {NoPid}
    BY <1>2, <1>4 DEF AccountingInv, AccountingTypeOK
  <2>. QED
    BY <1>1, <2>1 DEF AccountingInv, AccountingTypeOK
<1>6. Placed'
  BY <1>1 DEF AccountingInv, Placed
<1>7. Population'
  <2>1. proc' \in [DOMAIN proc' -> Process]
    BY <1>2, <1>4
  <2>2. ASSUME NEW q \in DOMAIN proc' \ (Range(providers) \cup {manager})
        PROVE  /\ ~proc'[q].zombie
               /\ proc'[q].parent # NoPid =>
                    /\ proc'[q].parent \in DOMAIN proc' \ {manager}
                    /\ proc'[proc'[q].parent].owner = proc'[q].owner
    <3>1. q # p /\ q \in DOMAIN proc
      BY <1>2
    <3>2. ~proc'[q].zombie
      BY <1>4, <3>1 DEF AccountingInv, Population
    <3>3. ASSUME proc'[q].parent # NoPid
          PROVE  /\ proc'[q].parent \in DOMAIN proc' \ {manager}
                 /\ proc'[proc'[q].parent].owner = proc'[q].owner
      <4>1. proc'[q].parent = proc[q].parent /\ proc[q].parent # p /\ proc[q].parent # NoPid
        BY <1>4, <3>1, <3>3
      <4>2. proc[q].parent \in DOMAIN proc \ {manager} /\ proc[proc[q].parent].owner = proc[q].owner
        BY <3>1, <4>1 DEF AccountingInv, Population
      <4>3. proc[q].parent \in DOMAIN proc'
        BY <1>2, <4>1, <4>2
      <4>. QED
        BY <1>4, <4>1, <4>2, <4>3
    <3>. QED
      BY <3>2, <3>3
  <2>3. /\ manager \in DOMAIN proc'
        /\ proc'[manager] = [parent |-> NoPid, owner |-> NoPid, zombie |-> FALSE]
    <3>1. manager \in DOMAIN proc' /\ proc[manager].parent # p
      BY <1>1, <1>2, <1>3 DEF AccountingInv, Population
    <3>. QED
      BY <1>1, <1>2, <3>1 DEF AccountingInv, Population
  <2>4. ASSUME NEW t \in Owners
        PROVE  /\ providers[t] \in DOMAIN proc'
               /\ proc'[providers[t]].parent = manager /\ proc'[providers[t]].owner = t
    <3>1. providers[t] \in DOMAIN proc'
      BY <1>2, RootsOfOK DEF AccountingInv, Population
    <3>. QED
      BY <1>1, <1>4, <3>1 DEF AccountingInv, Population
  <2>. QED
    BY <1>1, <1>2, <1>3, <2>1, <2>2, <2>3, <2>4 DEF Population
<1>8. Gathered'
  <2>1. ASSUME NEW q \in (DOMAIN samples \cap DOMAIN proc') \ reused, proc'[q].parent # NoPid
        PROVE  samples[q].parent = proc'[q].parent
    <3>1. proc'[q].parent = proc[q].parent /\ q \in DOMAIN proc
      BY <1>2, <1>4, <2>1
    <3>. QED
      BY <2>1, <3>1 DEF AccountingInv, Gathered
  <2>. QED
    BY <1>1, <2>1 DEF AccountingInv, Gathered, Rooted
<1>9. Blamed'
  <2>. SUFFICES ASSUME reused = {}
               PROVE  /\ \A t \in Owners : \A q \in recorded[t] \cap DOMAIN proc' : proc'[q].owner = t
                      /\ \E own \in [PidSlots -> Owners \cup {NoPid}] : Belong(own)'
    BY <1>1 DEF Blamed
  <2>1. PICK own \in [PidSlots -> Owners \cup {NoPid}] : Belong(own)
    BY DEF AccountingInv, Blamed
  <2>2. Belong(own)'
    BY <1>1, <1>2, <1>4, <2>1 DEF Belong
  <2>3. \A t \in Owners : \A q \in recorded[t] \cap DOMAIN proc' : proc'[q].owner = t
    BY <1>2, <1>4 DEF AccountingInv, Blamed
  <2>. QED
    BY <2>2, <2>3
<1>10. \E Old \in SUBSET DOMAIN proc' : WereThere(Old)'
  <2>1. PICK Old \in SUBSET DOMAIN proc : WereThere(Old)
    BY DEF AccountingInv
  <2>0. PICK New : New = Old \cap DOMAIN proc'
    OBVIOUS
  <2>2. Range(providers) \subseteq New
    <3>1. Range(providers) \subseteq DOMAIN proc'
      BY <1>6, <1>7, <1>1 DEF Population, Placed, Range
    <3>. QED
      BY <2>0, <2>1, <3>1 DEF WereThere
  <2>3. \A q \in New : proc'[q].parent \in New \cup {NoPid, manager}
    <3>. SUFFICES ASSUME NEW q \in New, proc'[q].parent \notin {NoPid, manager}
                 PROVE  proc'[q].parent \in New
      OBVIOUS
    <3>1. proc'[q].parent = proc[q].parent /\ proc[q].parent \in Old
      BY <1>4, <2>0, <2>1 DEF WereThere
    <3>2. proc[q].parent # p \/ q = p
      BY <1>4, <1>3, <2>0
    <3>3. CASE q = p
      BY <1>1, <1>2, <1>4, <1>6, <1>7, <2>0, <3>1, <3>3 DEF Population, Placed, Range
    <3>4. CASE q # p
      BY <1>2, <2>0, <2>1, <3>1, <3>2, <3>4
    <3>. QED
      BY <3>3, <3>4
  <2>4. \A q \in New \cap DOMAIN samples :
          proc'[q].parent # NoPid => samples[q].parent = proc'[q].parent
    BY <1>2, <1>4, <2>0, <2>1 DEF WereThere
  <2>5. ~(cursor = MaxPid + 1 /\ samples = <<>>) =>
          \A q \in New : ~proc'[q].zombie /\ q < cursor => q \in DOMAIN samples
    BY <1>4, <2>0, <2>1 DEF WereThere
  <2>6. (EverRecorded(recorded) \cap DOMAIN proc') \ reused \subseteq New
    BY <1>2, <2>0, <2>1 DEF WereThere
  <2>7. WereThere(New)'
    BY <1>1, <2>0, <2>2, <2>3, <2>4, <2>5, <2>6 DEF WereThere
  <2>. QED
    BY <2>0, <2>7
<1>. QED
  BY <1>5, <1>6, <1>7, <1>8, <1>9, <1>10 DEF AccountingInv

(* The walk changes no process.                                            *)
LEMMA SameProcesses ==
  ASSUME AccountingInv, UNCHANGED <<proc, providers, manager>>
  PROVE  Placed' /\ Population'
BY DEF AccountingInv, Placed, Population

(* At rest, whatever is there was there.                                   *)
LEMMA AtRest ==
  ASSUME AccountingInv, samples' = <<>>, cursor' \in {1, MaxPid + 1},
         UNCHANGED <<proc, providers, manager>>
  PROVE  \E Old \in SUBSET DOMAIN proc' : WereThere(Old)'
<1>1. PICK Old : Old = DOMAIN proc
  OBVIOUS
<1>2. Range(providers) \subseteq Old
  BY <1>1 DEF AccountingInv, Population, Placed, Range
<1>3. \A p \in Old : proc[p].parent \in Old \cup {NoPid, manager}
  <2>. SUFFICES ASSUME NEW p \in Old PROVE proc[p].parent \in Old \cup {NoPid, manager}
    OBVIOUS
  <2>1. CASE p = manager
    BY <2>1 DEF AccountingInv, Population
  <2>2. CASE p \in Range(providers)
    BY <2>2 DEF AccountingInv, Population, Placed, Range
  <2>3. CASE p \notin Range(providers) \cup {manager}
    BY <1>1, <2>3 DEF AccountingInv, Population
  <2>. QED
    BY <2>1, <2>2, <2>3
<1>4. \A p \in Old : p >= 1
  BY <1>1, Apart, SlotsFinite DEF PidSlots
<1>5. WereThere(Old)'
  <2>1. ~(cursor' = MaxPid + 1 /\ samples' = <<>>) => \A p \in Old : ~(p < cursor')
    BY <1>1, <1>4, Apart, SlotsFinite DEF PidSlots
  <2>2. \A p : p \notin DOMAIN samples'
    BY NothingRead
  <2>. QED
    BY <1>1, <1>2, <1>3, <2>1, <2>2 DEF WereThere
<1>. QED
  BY <1>1, <1>5

LEMMA BeginWalkOK ==
  ASSUME AccountingInv, BeginWalk
  PROVE  AccountingInv'
<1>1. /\ UNCHANGED <<proc, providers, manager, halfRead, samples, recorded, reused, forks>>
      /\ samples = <<>> /\ cursor' = 1 /\ walks < MaxWalks /\ walks' = walks + 1
  BY DEF BeginWalk
<1>2. AccountingTypeOK'
  BY <1>1, AccountingAssumption DEF AccountingInv, AccountingTypeOK
<1>3. Placed' /\ Population'
  BY <1>1, SameProcesses
<1>4. Gathered'
  BY <1>1 DEF AccountingInv, Gathered, Rooted
<1>5. Blamed'
  BY <1>1 DEF AccountingInv, Blamed, Belong
<1>6. \E Old \in SUBSET DOMAIN proc' : WereThere(Old)'
  BY <1>1, AtRest
<1>. QED
  BY <1>2, <1>3, <1>4, <1>5, <1>6 DEF AccountingInv

LEMMA ReadStatOK ==
  ASSUME AccountingInv, ReadStat, cursor \in DOMAIN proc, ~proc[cursor].zombie
  PROVE  AccountingInv'
<1>1. /\ UNCHANGED <<proc, providers, manager, recorded, reused, forks, walks>>
      /\ cursor <= MaxPid /\ cursor' = cursor + 1 /\ halfRead' = cursor
      /\ samples' = [q \in DOMAIN samples \cup {cursor} |->
                       IF q = cursor THEN [parent |-> proc[cursor].parent, bytes |-> 0]
                       ELSE samples[q]]
  BY DEF ReadStat
<1>2. /\ DOMAIN samples' = DOMAIN samples \cup {cursor}
      /\ samples'[cursor] = [parent |-> proc[cursor].parent, bytes |-> 0]
      /\ \A q \in DOMAIN samples : q # cursor => samples'[q] = samples[q]
      /\ samples'[cursor].parent = proc[cursor].parent
  BY <1>1
<1>3. /\ MaxPid \in Nat /\ NoPid \notin PidSlots /\ cursor \in PidSlots /\ manager \in PidSlots
      /\ proc[cursor] \in Process
  BY Apart, SlotsFinite DEF AccountingInv, Population
<1>4. AccountingTypeOK'
  BY <1>1, <1>2, <1>3 DEF AccountingInv, AccountingTypeOK, PidSlots
<1>5. Placed' /\ Population'
  BY <1>1, SameProcesses
<1>6. Gathered'
  <2>1. IsSnapshot(samples')
    <3>1. samples'[cursor] \in Sample
      BY <1>2, <1>3 DEF Process, Sample
    <3>2. \A q \in DOMAIN samples' : samples'[q] \in Sample
      BY <1>2, <3>1 DEF AccountingInv, Gathered, Rooted, IsSnapshot
    <3>3. samples' \in [DOMAIN samples' -> Sample]
      BY <1>1, <3>2
    <3>. QED
      BY <1>2, <1>3, <3>3, Apart DEF IsSnapshot
  <2>2. Rooted(samples)'
    BY <1>1, <1>2, <2>1 DEF AccountingInv, Gathered, Rooted, Population
  <2>3. \A p \in (DOMAIN samples' \cap DOMAIN proc) \ reused :
          proc[p].parent # NoPid => samples'[p].parent = proc[p].parent
    BY <1>2 DEF AccountingInv, Gathered
  <2>. QED
    BY <1>1, <1>2, <2>2, <2>3 DEF Gathered
<1>7. Blamed'
  <2>. SUFFICES ASSUME reused = {}
               PROVE  \E own \in [PidSlots -> Owners \cup {NoPid}] : Belong(own)'
    BY <1>1 DEF AccountingInv, Blamed
  <2>1. PICK own \in [PidSlots -> Owners \cup {NoPid}] : Belong(own)
    BY DEF AccountingInv, Blamed
  <2>. DEFINE read == {cursor, proc[cursor].parent} \cap DOMAIN proc
  <2>2. PICK new : new = [p \in PidSlots |-> IF p \in read THEN proc[p].owner ELSE own[p]]
    OBVIOUS
  <2>3. new \in [PidSlots -> Owners \cup {NoPid}]
    BY <2>2 DEF AccountingInv, Population, Process
  <2>4. \A p \in Named(samples) \cap PidSlots : new[p] = own[p]
    BY <2>1, <2>2 DEF Belong
  <2>5. Named(samples') \cap PidSlots \subseteq Named(samples) \cup {cursor, proc[cursor].parent}
    BY <1>2 DEF Named
  <2>6. \A p \in DOMAIN proc : p \in read => new[p] = proc[p].owner
    BY <2>2, Apart
  <2>7. \A p \in Named(samples') \cap DOMAIN proc : new[p] = proc[p].owner
    <3>. SUFFICES ASSUME NEW p \in Named(samples') \cap DOMAIN proc, p \notin read
                 PROVE  new[p] = proc[p].owner
      BY <2>6
    <3>1. p \in PidSlots
      BY Apart
    <3>2. p \in Named(samples)
      BY <2>5, <3>1
    <3>. QED
      BY <2>1, <2>4, <3>1, <3>2 DEF Belong
  <2>8. new[manager] = NoPid /\ \A t \in Owners : new[providers[t]] = t
    BY <2>1, <2>2, Apart DEF Belong, AccountingInv, Population
  <2>9. ASSUME NEW p \in DOMAIN samples', samples'[p].parent \notin {NoPid, manager}
        PROVE  new[p] = new[samples'[p].parent]
    <3>1. CASE p = cursor
      <4>. DEFINE q == proc[cursor].parent
      <4>1. q \notin {NoPid, manager} /\ samples'[p].parent = q
        BY <1>2, <2>9, <3>1
      <4>2. cursor \notin Range(providers) \cup {manager}
        BY <4>1 DEF AccountingInv, Population, Placed, Range
      <4>3. q \in DOMAIN proc /\ proc[q].owner = proc[cursor].owner
        BY <4>1, <4>2 DEF AccountingInv, Population
      <4>. QED
        BY <2>6, <3>1, <4>1, <4>3
    <3>2. CASE p # cursor
      <4>1. p \in DOMAIN samples /\ samples'[p] = samples[p]
        BY <1>2, <3>2
      <4>2. own[p] = own[samples[p].parent]
        BY <2>1, <2>9, <4>1 DEF Belong
      <4>3. p \in PidSlots /\ samples[p].parent \in PidSlots
        BY <2>9, <4>1, Apart DEF AccountingInv, Gathered, Rooted, IsSnapshot, Sample
      <4>4. p \in Named(samples) /\ samples[p].parent \in Named(samples)
        BY <4>1 DEF Named
      <4>. QED
        BY <2>4, <4>1, <4>2, <4>3, <4>4
    <3>. QED
      BY <3>1, <3>2
  <2>10. Belong(new)'
    BY <1>1, <2>7, <2>8, <2>9 DEF Belong
  <2>. QED
    BY <2>3, <2>10
<1>8. \E Old \in SUBSET DOMAIN proc' : WereThere(Old)'
  <2>1. PICK Old \in SUBSET DOMAIN proc : WereThere(Old)
    BY DEF AccountingInv
  <2>2. \A p \in Old : ~proc[p].zombie /\ p < cursor + 1 => p \in DOMAIN samples'
    <3>1. cursor # MaxPid + 1
      BY <1>1, <1>3
    <3>2. \A p \in Old : p \in Int /\ (p < cursor + 1 => p < cursor \/ p = cursor)
      BY <1>3, <2>1, Apart DEF PidSlots
    <3>. QED
      BY <1>2, <2>1, <3>1, <3>2 DEF WereThere
  <2>3. \A p \in Old \cap DOMAIN samples' :
          proc[p].parent # NoPid => samples'[p].parent = proc[p].parent
    BY <1>2, <2>1 DEF WereThere
  <2>4. WereThere(Old)'
    BY <1>1, <2>1, <2>2, <2>3 DEF WereThere
  <2>. QED
    BY <1>1, <2>1, <2>4
<1>. QED
  BY <1>4, <1>5, <1>6, <1>7, <1>8 DEF AccountingInv

LEMMA SkipOK ==
  ASSUME AccountingInv, ReadStat, ~(cursor \in DOMAIN proc /\ ~proc[cursor].zombie)
  PROVE  AccountingInv'
<1>1. /\ UNCHANGED <<proc, providers, manager, halfRead, samples, recorded, reused, forks, walks>>
      /\ cursor <= MaxPid /\ cursor' = cursor + 1
  BY DEF ReadStat
<1>2. MaxPid \in Nat /\ cursor \in 1..(MaxPid + 1)
  BY SlotsFinite DEF AccountingInv, AccountingTypeOK
<1>3. AccountingTypeOK'
  BY <1>1, <1>2 DEF AccountingInv, AccountingTypeOK
<1>4. Placed' /\ Population'
  BY <1>1, SameProcesses
<1>5. Gathered'
  BY <1>1 DEF AccountingInv, Gathered, Rooted
<1>6. Blamed'
  BY <1>1 DEF AccountingInv, Blamed, Belong
<1>7. \E Old \in SUBSET DOMAIN proc' : WereThere(Old)'
  <2>1. PICK Old \in SUBSET DOMAIN proc : WereThere(Old)
    BY DEF AccountingInv
  <2>2. \A p \in Old : ~proc[p].zombie /\ p < cursor + 1 => p \in DOMAIN samples
    <3>1. cursor # MaxPid + 1
      BY <1>1, <1>2
    <3>2. \A p \in Old : p \in Int /\ (p < cursor + 1 => p < cursor \/ p = cursor)
      BY <1>2, <2>1, Apart DEF PidSlots
    <3>. QED
      BY <2>1, <3>1, <3>2 DEF WereThere
  <2>3. WereThere(Old)'
    BY <1>1, <2>1, <2>2 DEF WereThere
  <2>. QED
    BY <1>1, <2>1, <2>3
<1>. QED
  BY <1>3, <1>4, <1>5, <1>6, <1>7 DEF AccountingInv

LEMMA ReadMemoryOK ==
  ASSUME AccountingInv, ReadMemory
  PROVE  AccountingInv'
<1>1. /\ UNCHANGED <<proc, providers, manager, cursor, recorded, reused, forks, walks>>
      /\ halfRead # NoPid /\ halfRead' = NoPid
      /\ samples' = [samples EXCEPT ![halfRead].bytes = AccountedBytes(halfRead)]
  BY DEF ReadMemory
<1>2. halfRead \in DOMAIN samples /\ halfRead \in PidSlots /\ IsSnapshot(samples)
  BY <1>1, Apart DEF AccountingInv, Gathered, Rooted
<1>3. AccountedBytes(halfRead) \in Nat
  BY <1>2, AccountingAssumption DEF AccountedBytes
<1>4. /\ DOMAIN samples' = DOMAIN samples
      /\ samples' \in [DOMAIN samples -> Sample]
      /\ \A p \in DOMAIN samples : samples'[p].parent = samples[p].parent
  <2>. DEFINE amount == AccountedBytes(halfRead)
  <2>1. PICK half \in Sample : half = samples[halfRead]
    BY <1>2 DEF IsSnapshot
  <2>2. samples' = [samples EXCEPT ![halfRead] = [half EXCEPT !.bytes = amount]]
    BY <1>1, <2>1
  <2>. HIDE DEF amount
  <2>3. [half EXCEPT !.bytes = amount] \in Sample /\ [half EXCEPT !.bytes = amount].parent = half.parent
    BY <1>3, <2>1 DEF Sample, amount
  <2>. DEFINE full == [half EXCEPT !.bytes = amount]
  <2>4. full \in Sample /\ full.parent = half.parent /\ samples' = [samples EXCEPT ![halfRead] = full]
    BY <2>2, <2>3
  <2>. HIDE DEF full
  <2>. QED
    BY <1>2, <2>1, <2>4 DEF IsSnapshot
<1>5. AccountingTypeOK'
  BY <1>1, <1>4 DEF AccountingInv, AccountingTypeOK
<1>6. Placed' /\ Population'
  BY <1>1, SameProcesses
<1>7. Gathered'
  <2>1. IsSnapshot(samples')
    BY <1>2, <1>4 DEF IsSnapshot
  <2>. QED
    BY <1>1, <1>4, <2>1 DEF AccountingInv, Gathered, Rooted
<1>8. Named(samples') = Named(samples)
  BY <1>4 DEF Named
<1>9. Blamed'
  <2>. SUFFICES ASSUME reused = {}
               PROVE  \E own \in [PidSlots -> Owners \cup {NoPid}] : Belong(own)'
    BY <1>1 DEF AccountingInv, Blamed
  <2>1. PICK own \in [PidSlots -> Owners \cup {NoPid}] : Belong(own)
    BY DEF AccountingInv, Blamed
  <2>2. Belong(own)'
    BY <1>1, <1>4, <1>8, <2>1 DEF Belong
  <2>. QED
    BY <2>2
<1>10. \E Old \in SUBSET DOMAIN proc' : WereThere(Old)'
  <2>1. PICK Old \in SUBSET DOMAIN proc : WereThere(Old)
    BY DEF AccountingInv
  <2>2. samples # <<>>
    BY <1>2, NothingRead
  <2>3. WereThere(Old)'
    BY <1>1, <1>4, <2>1, <2>2 DEF WereThere
  <2>. QED
    BY <1>1, <2>1, <2>3
<1>. QED
  BY <1>5, <1>6, <1>7, <1>9, <1>10 DEF AccountingInv

(* The walk is over, and its samples are dropped.                          *)
LEMMA OverOK ==
  ASSUME AccountingInv, SnapshotTaken \/ SnapshotFails
  PROVE  AccountingInv'
<1>1. /\ UNCHANGED <<proc, providers, manager, reused, forks, walks>>
      /\ samples' = <<>> /\ cursor' = MaxPid + 1 /\ halfRead' = NoPid
      /\ recorded' \in {recorded, Recording(samples)}
  BY DEF SnapshotTaken, SnapshotFails, Complete
<1>2. AccountingTypeOK'
  BY <1>1, NothingRead, RecordingOK, SlotsFinite DEF AccountingInv, AccountingTypeOK
<1>3. Placed' /\ Population'
  BY <1>1, SameProcesses
<1>4. Gathered'
  BY <1>1, <1>3, NothingRead DEF Gathered, Rooted
<1>5. Blamed'
  <2>. SUFFICES ASSUME reused = {}
               PROVE  /\ \A t \in Owners : \A p \in recorded'[t] \cap DOMAIN proc : proc[p].owner = t
                      /\ \E own \in [PidSlots -> Owners \cup {NoPid}] : Belong(own)'
    BY <1>1 DEF Blamed
  <2>1. \A t \in Owners : \A p \in recorded'[t] \cap DOMAIN proc : proc[p].owner = t
    BY <1>1, BlameOK DEF AccountingInv, Blamed
  <2>2. PICK own \in [PidSlots -> Owners \cup {NoPid}] : Belong(own)
    BY DEF AccountingInv, Blamed
  <2>3. Belong(own)'
    BY <1>1, <2>2, NothingRead DEF Belong
  <2>. QED
    BY <2>1, <2>3
<1>6. \E Old \in SUBSET DOMAIN proc' : WereThere(Old)'
  BY <1>1, AtRest
<1>. QED
  BY <1>2, <1>3, <1>4, <1>5, <1>6 DEF AccountingInv

LEMMA StutterOK ==
  ASSUME AccountingInv, UNCHANGED accountingVars
  PROVE  AccountingInv'
<1>1. UNCHANGED <<proc, providers, manager, cursor, halfRead, samples, recorded, reused, forks, walks>>
  BY DEF accountingVars
<1>2. AccountingTypeOK'
  BY <1>1 DEF AccountingInv, AccountingTypeOK
<1>3. Placed' /\ Population'
  BY <1>1, SameProcesses
<1>4. Gathered'
  BY <1>1 DEF AccountingInv, Gathered, Rooted
<1>5. Blamed'
  BY <1>1 DEF AccountingInv, Blamed, Belong
<1>6. \E Old \in SUBSET DOMAIN proc' : WereThere(Old)'
  <2>1. PICK Old \in SUBSET DOMAIN proc : WereThere(Old)
    BY DEF AccountingInv
  <2>2. WereThere(Old)'
    BY <1>1, <2>1 DEF WereThere
  <2>. QED
    BY <1>1, <2>1, <2>2
<1>. QED
  BY <1>2, <1>3, <1>4, <1>5, <1>6 DEF AccountingInv

THEOREM AccountingHolds == AccountingSpec => []AccountingInv
<1>1. AccountingInit => AccountingInv
  BY InitOK
<1>2. AccountingInv /\ [AccountingNext]_accountingVars => AccountingInv'
  <2>. SUFFICES ASSUME AccountingInv, [AccountingNext]_accountingVars PROVE AccountingInv'
    OBVIOUS
  <2>1. CASE \E p \in DOMAIN proc : ForkProcess(p) \/ ExitProcess(p)
    BY <2>1, ForkOK, ExitOK
  <2>2. CASE BeginWalk
    BY <2>2, BeginWalkOK
  <2>3. CASE ReadStat
    BY <2>3, ReadStatOK, SkipOK
  <2>4. CASE ReadMemory
    BY <2>4, ReadMemoryOK
  <2>5. CASE SnapshotTaken \/ SnapshotFails
    BY <2>5, OverOK
  <2>6. CASE UNCHANGED accountingVars
    BY <2>6, StutterOK
  <2>. QED
    BY <2>1, <2>2, <2>3, <2>4, <2>5, <2>6 DEF AccountingNext
<1>. QED
  BY <1>1, <1>2, PTL DEF AccountingSpec

THEOREM SnapshotsHold == AccountingSpec => []SnapshotsAreExplained
<1>1. AccountingInv => SnapshotsAreExplained
  BY SnapshotOK
<1>. QED
  BY <1>1, AccountingHolds, PTL

=============================================================================
