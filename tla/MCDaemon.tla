------------------------------ MODULE MCDaemon ------------------------------
(***************************************************************************)
(* Instances of MemMuxDaemon for TLC.                                      *)
(***************************************************************************)
EXTENDS MemMuxDaemon

(* Two requests whose peaks (580 and 1320 MiB) do not fit a 1500 MiB budget *)
(* together: admission has to choose.                                      *)
TightRequests ==
  {[priority |-> "Low", class |-> "Small"], [priority |-> "Normal", class |-> "Standard"]}

OneRequest == {[priority |-> "Normal", class |-> "Standard"]}

(* Totals that put a 1500 MiB budget at Normal, at High and beyond its     *)
(* hard limit; growing swap raises the first two by one stage.             *)
AllLevels == {0, 1300, 1600}

Calm == {0}

=============================================================================
