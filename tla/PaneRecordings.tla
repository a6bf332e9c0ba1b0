--------------------------- MODULE PaneRecordings ---------------------------
(***************************************************************************)
(* Session recording: RecordingService, its rows and its files, the record *)
(* button of TerminalToolbar with the flag the renderer keeps, the panel   *)
(* that deletes recordings, and the storage cap. A recording is as large as*)
(* another; the oldest by mtime may be any of them, since a file that is   *)
(* being written is as old as its last output.                             *)
(***************************************************************************)
EXTENDS PaneLink

CONSTANT Recs  (* recordings made: bounds them                             *)
ASSUME RecsAssumption == None \notin Recs

VARIABLES
  row,         (* recordings: no row yet, open (no duration), done, deleted*)
  files,       (* the .cast files                                          *)
  recording,   (* active: the recording of each pane                       *)
  recorders,   (* recorders: the panes whose output goes to a recorder     *)
  shown,       (* Pane.recording                                           *)
  replies      (* what the replies on their way set it to, by pane         *)

recvars == <<row, files, recording, recorders, shown, replies>>

RecordingInit ==
  /\ row = [r \in Recs |-> "none"] /\ files = {}
  /\ recording = [p \in Panes |-> None] /\ recorders = {}
  /\ shown = {} /\ replies = [p \in Panes |-> <<>>]

Unmade == {r \in Recs : row[r] = "none"}

(* start                                                                   *)
StartRecording(p) ==
  IF recording[p] # None THEN UNCHANGED <<row, files, recording, recorders>>
  ELSE /\ Unmade # {}
       /\ LET r == Any(Unmade)
          IN /\ row' = [row EXCEPT ![r] = "open"]
             /\ files' = files \cup {r}
             /\ recording' = [recording EXCEPT ![p] = r]
             /\ recorders' = recorders \cup {p}

(* enforceStorageCap: as many as are needed, oldest first.                 *)
Pruned ==
  IF scene.cap = 0 \/ Cardinality(files) <= scene.cap THEN {files}
  ELSE {S \in SUBSET files : Cardinality(S) = scene.cap}

(* Mutant of Finish: the row is not finished.                              *)
FinishUnwritten(r) == row

(* recordingsRepo.finish, an UPDATE                                        *)
Finish(r) == IF row[r] = "open" THEN [row EXCEPT ![r] = "done"] ELSE row

(* stop                                                                    *)
StopRecording(p) ==
  IF recording[p] = None THEN UNCHANGED <<row, files, recording, recorders>>
  ELSE /\ recorders' = recorders \ {p}
       /\ row' = Finish(recording[p])
       /\ recording' = [recording EXCEPT ![p] = None]
       /\ files' \in Pruned

(* toggleRecord, and the shortcut: by the flag, which the reply sets.      *)
Toggle(p) ==
  /\ p \notin closed /\ Len(replies[p]) < 2
  /\ IF p \in shown THEN StopRecording(p) ELSE StartRecording(p)
  /\ replies' = [replies EXCEPT ![p] = Append(@, p \notin shown)]
  /\ UNCHANGED shown

Reply(p) ==
  /\ replies[p] # <<>>
  /\ shown' = IF Head(replies[p]) THEN shown \cup {p} ELSE shown \ {p}
  /\ replies' = [replies EXCEPT ![p] = Tail(@)]
  /\ UNCHANGED <<row, files, recording, recorders>>

(* RecordingsPanel's delete: every row is listed, the open ones too.       *)
DeleteRecording(r) ==
  /\ row[r] \in {"open", "done"} /\ (scene.patient => row[r] = "done")
  /\ row' = [row EXCEPT ![r] = "deleted"]
  /\ files' = files \ {r}
  /\ UNCHANGED <<recording, recorders, shown, replies>>

(* terminal:kill: stop, and kill() drops the recorder in any case.         *)
EndRecording(p) == StopRecording(p)

(* pushExit leaves the recorder: a reconnect goes on in the same file.     *)
OnDrop(p) == UNCHANGED <<row, files, recording, recorders>>

-----------------------------------------------------------------------------

RecordingTypeOK ==
  /\ row \in [Recs -> {"none", "open", "done", "deleted"}]
  /\ files \subseteq {r \in Recs : row[r] \in {"open", "done"}}
  /\ recording \in [Panes -> Recs \cup {None}]
  /\ shown \subseteq Panes /\ replies \in [Panes -> Seq(BOOLEAN)]
  /\ recorders = {p \in Panes : recording[p] # None}

(* An open row is a recording under way, of one pane that is still there;  *)
(* when nobody deletes it, its output is in the list and, with no cap, in a*)
(* file (RecordingService, terminal:kill, maybeAutoRecord).                *)
OpenRowsAreLive ==
  /\ \A r \in Recs : row[r] = "open" => \E p \in Panes : recording[p] = r
  /\ scene.patient => \A p \in Panes : recording[p] # None =>
       /\ p \notin closed
       /\ row[recording[p]] = "open"
       /\ scene.cap = 0 => recording[p] \in files

(* The button tells what is going on, once the last click was answered:    *)
(* with auto-record it may miss a recording, never claim one (toggleRecord,*)
(* useGlobalShortcuts, RecordingService.start).                            *)
ButtonTells ==
  \A p \in Panes \ closed : replies[p] = <<>> =>
    /\ p \in shown => recording[p] # None
    /\ ~scene.auto /\ recording[p] # None => p \in shown
=============================================================================
