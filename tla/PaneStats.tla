----------------------------- MODULE PaneStats ------------------------------
(***************************************************************************)
(* The system monitor: StatsPoller, which polls the machine the active tab *)
(* is about, useStatsStore, which keeps what came, and stats:fetch, which  *)
(* runs a command over the pane's client with a 12 s timer. What a sample  *)
(* says is left out: a sample is the target it was taken from.             *)
(***************************************************************************)
EXTENDS PaneLink

CONSTANT Local  (* the local machine, as a target                          *)
Fetches == [of : Panes \cup {Local}, link : Links \cup {None}, stale : BOOLEAN]
ASSUME LocalAssumption == Local \notin Panes \cup {None} /\ None \notin Fetches

VARIABLES
  fetch,       (* the fetch under way (fetchingRef): its target, its client*)
               (* and whether its effect was cleaned up                    *)
  latest       (* latest: the target it is of                              *)

statvars == <<fetch, latest>>

StatsInit == fetch = None /\ latest = None

(* statsTargetFor; None is 'pending'.                                      *)
Target(a, c) == IF a = None THEN Local ELSE IF c[a] # None THEN a ELSE None

(* poll: no fetch while one is under way.                                  *)
Poll(t, c) ==
  IF t = None THEN UNCHANGED fetch
  ELSE fetch' = [of |-> t, link |-> IF t = Local THEN None ELSE c[t], stale |-> FALSE]

(* The effects of StatsPoller, when the target has changed: the store is   *)
(* reset, the old effect cancelled, and the new one polls.                 *)
OnTarget ==
  LET t == Target(active', conn')
  IN IF Target(active, conn) = t THEN UNCHANGED statvars
     ELSE /\ latest' = None
          /\ IF fetch # None THEN fetch' = [fetch EXCEPT !.stale = TRUE]
             ELSE Poll(t, conn')

(* setInterval                                                             *)
Ticks ==
  /\ fetch = None
  /\ Target(active, conn) # None
  /\ Poll(Target(active, conn), conn)
  /\ UNCHANGED latest

(* setLatest, unless the effect was cancelled.                             *)
Sample == IF fetch.stale THEN latest ELSE fetch.of

Fetched ==
  /\ fetch # None /\ (fetch.of = Local \/ fetch.link \in up)
  /\ latest' = Sample
  /\ fetch' = None

(* Mutant of FetchFails: without its timer, so not for a dead client.      *)
FetchFailsUntimed ==
  /\ fetch # None /\ fetch.of # Local /\ fetch.link \in up
  /\ fetch' = None
  /\ UNCHANGED latest

(* No client, no answer within 12 s, or nothing that could be parsed.      *)
FetchFails ==
  /\ fetch # None /\ fetch.of # Local
  /\ fetch' = None
  /\ UNCHANGED latest

-----------------------------------------------------------------------------

StatsTypeOK ==
  /\ fetch \in Fetches \cup {None}
  /\ latest \in Panes \cup {Local, None}

(* The numbers on screen are of the machine the active tab is about, not   *)
(* the one before, nor the local one while a session connects (StatsPoller,*)
(* statsTargetFor, resetForTab).                                           *)
StatsAreTargets == latest # None => latest = Target(active, conn)
=============================================================================
