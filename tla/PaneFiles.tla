----------------------------- MODULE PaneFiles ------------------------------
(***************************************************************************)
(* The remote side of the file manager: the SFTP channel that SftpService  *)
(* keeps per pane, and usePane, which opens it and lists directories in it *)
(* for the pane the panel shows. A run is one asynchronous course of       *)
(* usePane: of its effect, or of a list() the user asked for.              *)
(***************************************************************************)
EXTENDS PaneLink

CONSTANTS
  Dirs,        (* remote directories                                       *)
  Runs         (* runs under way at a time: bounds them                    *)

RunSteps == {"asked", "opening", "home", "list"}
RunRecords == [pane : Panes, step : RunSteps, link : Links \cup {None},
               dir : Dirs \cup {None}, gone : BOOLEAN]
Listings == [pane : Panes, dir : Dirs]

ASSUME FilesAssumption == None \notin Dirs \cup RunRecords \cup Listings

VARIABLES
  wrapper,     (* wrappers: the client of the channel kept for each pane   *)
  channels,    (* SFTP channels opened on each client                      *)
  panel,       (* is the panel mounted?                                    *)
  run,         (* each run: its pane, step, client while it opens one, the *)
               (* directory it lists, and whether its panel is unmounted   *)
  listing,     (* entries and path: the pane and directory they are of     *)
  error        (* error                                                    *)

filevars == <<wrapper, channels, panel, run, listing, error>>

FileInit ==
  /\ wrapper = [p \in Panes |-> None] /\ channels = [l \in Links |-> 0]
  /\ panel = FALSE /\ run = [n \in Runs |-> None]
  /\ listing = None /\ error = FALSE

(* SftpPanel's tabId, of an active tab and the connections.                *)
TabId(a, c) == IF a # None /\ c[a] # None THEN a ELSE None

Idle == {n \in Runs : run[n] = None}
Loading == \E n \in Runs : run[n] # None /\ ~run[n].gone
NewRun(p, step, d) == [pane |-> p, step |-> step, link |-> None, dir |-> d, gone |-> FALSE]

(* The effect of usePane, when the panel is mounted with a tab or its tab  *)
(* has changed. What was listed stays, and so does an effect of before: the*)
(* flag that would cancel it is cleared again at once.                     *)
Effect(p) ==
  IF p = None THEN UNCHANGED <<run, error>>
  ELSE /\ Idle # {}
       /\ run' = [run EXCEPT ![Any(Idle)] = NewRun(p, "asked", None)]
       /\ error' = FALSE

(* Mutant of OnTab: what is listed is taken to be good for any tab.        *)
OnTabListed ==
  LET after == TabId(active', conn')
  IN IF panel /\ TabId(active, conn) # after /\ listing = None THEN Effect(after)
     ELSE UNCHANGED <<run, error>>

(* On a change of the tab or its connection.                               *)
OnTab ==
  LET before == TabId(active, conn)
      after  == TabId(active', conn')
  IN IF panel /\ before # after THEN Effect(after) ELSE UNCHANGED <<run, error>>

TogglePanel ==
  /\ scene.patient => ~Loading
  /\ panel' = ~panel
  /\ IF panel
     THEN /\ run' = [n \in Runs |-> IF run[n] = None THEN None
                                    ELSE [run[n] EXCEPT !.gone = TRUE]]
          /\ listing' = None /\ error' = FALSE
     ELSE Effect(TabId(active, conn)) /\ UNCHANGED listing
  /\ UNCHANGED <<wrapper, channels>>

Step(n, step) == run' = [run EXCEPT ![n].step = step]
Ends(n) == run' = [run EXCEPT ![n] = None]
(* A failed run says so, and an unmounted one goes no further.             *)
Errs(n) == Ends(n) /\ error' = (error \/ ~run[n].gone)
Goes(n, step) == IF run[n].gone THEN Ends(n) ELSE Step(n, step)

(* wrapper(): the channel that is kept, or a new one is asked for.         *)
Cached(p) == wrapper[p] # None

Asks(n) ==
  /\ run[n] # None /\ run[n].step = "asked"
  /\ LET p == run[n].pane
     IN IF Cached(p) THEN Goes(n, "home") /\ UNCHANGED error
        ELSE IF conn[p] = None THEN Errs(n)
        ELSE /\ run' = [run EXCEPT ![n].step = "opening", ![n].link = conn[p]]
             /\ UNCHANGED error
  /\ UNCHANGED <<wrapper, channels, panel, listing>>

(* The answer to client.sftp().                                            *)
Opened(n) ==
  /\ run[n] # None /\ run[n].step = "opening" /\ run[n].link \in up
  /\ channels' = [channels EXCEPT ![run[n].link] = @ + 1]
  /\ wrapper' = [wrapper EXCEPT ![run[n].pane] = run[n].link]
  /\ Goes(n, "home")
  /\ UNCHANGED <<panel, listing, error>>

OpenFails(n) ==
  /\ run[n] # None /\ run[n].step = "opening"
  /\ Errs(n)
  /\ UNCHANGED <<wrapper, channels, panel, listing>>

Answers(p) == wrapper[p] # None /\ wrapper[p] \in up

(* realpath, three times if need be; then the terminal's directory, the    *)
(* last one or the home is listed: any directory.                          *)
Home(n) ==
  /\ run[n] # None /\ run[n].step = "home"
  /\ IF ~Answers(run[n].pane) THEN Errs(n)
     ELSE IF run[n].gone THEN Ends(n) /\ UNCHANGED error
     ELSE /\ \E d \in Dirs : run' = [run EXCEPT ![n].step = "list", ![n].dir = d]
          /\ error' = FALSE
  /\ UNCHANGED <<wrapper, channels, panel, listing>>

(* A click on a directory.                                                 *)
ListDir(d) ==
  /\ panel /\ listing # None /\ TabId(active, conn) # None /\ Idle # {}
  /\ scene.patient => ~Loading
  /\ run' = [run EXCEPT ![Any(Idle)] = NewRun(TabId(active, conn), "list", d)]
  /\ error' = FALSE
  /\ UNCHANGED <<wrapper, channels, panel, listing>>

Listing(n) == run[n] # None /\ run[n].step = "list"

(* The directory arrives, whatever is shown by now.                        *)
Listed(n) ==
  /\ Listing(n) /\ Answers(run[n].pane)
  /\ Ends(n)
  /\ listing' = IF run[n].gone THEN listing ELSE [pane |-> run[n].pane, dir |-> run[n].dir]
  /\ UNCHANGED <<wrapper, channels, panel, error>>

(* The channel is dead, or the directory cannot be read.                   *)
ListFails(n) ==
  /\ Listing(n)
  /\ Errs(n)
  /\ UNCHANGED <<wrapper, channels, panel, listing>>

(* SftpService.close, of terminal:kill; nothing calls it when a link drops.*)
CloseSftp(p) == wrapper' = [wrapper EXCEPT ![p] = None]

-----------------------------------------------------------------------------

FileTypeOK ==
  /\ wrapper \in [Panes -> used \cup {None}] /\ channels \in [Links -> Nat]
  /\ panel \in BOOLEAN /\ error \in BOOLEAN
  /\ run \in [Runs -> RunRecords \cup {None}]
  /\ listing \in Listings \cup {None} /\ (listing # None => panel)

(* What the table shows is of the pane its menu acts on (SftpPanel passes  *)
(* its tabId and a path of the listing): when nothing is loading, for a    *)
(* user who waits before switching tabs.                                   *)
ListingIsTabs ==
  LET t == TabId(active, conn)
  IN scene.patient /\ panel /\ t # None /\ ~Loading /\ ~error
       => listing # None /\ listing.pane = t

(* One SFTP channel per connection, when the panel and the link are left to*)
(* open it (wrapper(), which checks the map before it awaits).             *)
OneChannel ==
  scene.patient /\ ~scene.drops => \A l \in Links : channels[l] <= 1

(* The channel that is kept is of the pane's own connection, unless a link *)
(* has dropped (wrappers, terminal:kill).                                  *)
ChannelIsLive ==
  ~scene.drops => \A p \in Panes : wrapper[p] # None => wrapper[p] = conn[p]
=============================================================================
