---------------------------- MODULE FileTransfers ---------------------------
(***************************************************************************)
(* What the file manager asks of the gate (TransferGate): batches of files *)
(* and folders dropped on a panel (SftpPanel), the walk of a folder, whose *)
(* files all queue at once (SftpService.uploadDir, downloadDir, summarize),*)
(* a remote file opened by a double click, and deletions. A batch is one   *)
(* such request, of any window; all of them have the same destination. A   *)
(* path is a name in it, or a name in a folder of that name.               *)
(***************************************************************************)
EXTENDS TransferGate, SequencesExt

CONSTANTS
  Batches,
  Names,
  Nothing,
  Base,        (* [Files -> Names]: the name of a file                     *)
  Numbered,    (* [Names -> Seq(Names)]: a name with (1), (2), ...         *)
  Scenes       (* what may happen: see SceneAssumption                     *)

(* kind: a drop, a double click or a deletion. up: the destination is      *)
(* remote. entries: what was dropped, each a folder or one file. policy:   *)
(* transfer.conflict. old: what the destination has, files and folders.    *)
(* loose: files asked for by others. calm: one batch at a time. readable:  *)
(* this machine's folder can be listed.                                    *)
Entry == [name : Names, dir : BOOLEAN, files : Seq(Files)]
Plan  == [kind : {"copy", "open", "delete"}, up : BOOLEAN, entries : Seq(Entry)]
Paths == {<<n>> : n \in Names} \cup {<<n, m>> : n \in Names, m \in Names}
ASSUME SceneAssumption ==
  \A s \in Scenes :
    /\ s.plans \in [DOMAIN s.plans -> Plan] /\ DOMAIN s.plans \subseteq Batches
    /\ s.policy \in {"overwrite", "skip", "rename", "prompt"}
    /\ s.old \in [DOMAIN s.old -> {"old", "dir"}] /\ DOMAIN s.old \subseteq Paths
    /\ s.loose \subseteq Files /\ s.calm \in BOOLEAN /\ s.readable \in BOOLEAN

ASSUME NamesAssumption ==
  /\ Base \in [Files -> Names] /\ Numbered \in [Names -> Seq(Names)]
  /\ Nothing \notin Names /\ {Nothing, "old", "dir"} \cap Files = {} /\ Nothing \notin {"old", "dir"}

(* A file is one call: a loose one, or of one entry. A folder's files have *)
(* names of their own. The destination is a tree, of the depth of Paths:   *)
(* what a folder of it holds is files.                                     *)
ASSUME TreeAssumption ==
  \A s \in Scenes :
    /\ \A b \in DOMAIN s.plans : s.plans[b].entries # <<>>
    /\ \A b \in DOMAIN s.plans : \A i \in DOMAIN s.plans[b].entries :
         LET e == s.plans[b].entries[i]
         IN /\ ToSet(e.files) \cap s.loose = {}
            /\ IF e.dir THEN \A j, k \in DOMAIN e.files : Base[e.files[j]] = Base[e.files[k]] => j = k
               ELSE Len(e.files) = 1
            /\ \A c \in DOMAIN s.plans : \A k \in DOMAIN s.plans[c].entries :
                 ToSet(e.files) \cap ToSet(s.plans[c].entries[k].files) # {} => b = c /\ i = k
    /\ \A n, m \in Names : <<n, m>> \in DOMAIN s.old =>
         s.old[<<n, m>>] = "old" /\ <<n>> \in DOMAIN s.old /\ s.old[<<n>>] = "dir"

VARIABLES
  scene,
  batch,       (* each request: where it is suspended, its entry, the names*)
               (* it knows to be taken, the name it writes as, the names   *)
               (* the user gave up, and what a deletion has yet to unlink  *)
  told,        (* what each entry was reported as                          *)
  there,       (* the destination: at each path, "old", "dir", or the file *)
               (* of a transfer                                            *)
  path,        (* where each file is written                               *)
  outcome      (* what became of each file                                 *)

batchvars == <<scene, batch, told, there, path, outcome>>
allvars == <<vars, batchvars>>

FInit ==
  /\ Init
  /\ scene \in Scenes
  /\ batch = [b \in Batches |->
                [at |-> "idle", entry |-> 0, existing |-> {}, name |-> Nothing,
                 said |-> {}, todo |-> {}]]
  /\ told = [b \in Batches |-> <<>>]
  /\ there = [p \in Paths |-> IF p \in DOMAIN scene.old THEN scene.old[p] ELSE Nothing]
  /\ path = [f \in Files |-> Nothing]
  /\ outcome = [f \in Files |-> "none"]

-----------------------------------------------------------------------------

Asked == DOMAIN scene.plans
At(b, step) == b \in Asked /\ batch[b].at = step
EntryOf(b) == scene.plans[b].entries[batch[b].entry]
FilesOf(b) == ToSet(EntryOf(b).files)
Kind(b) == scene.plans[b].kind

(* The next entry of the batch, or its end, after this one was told as t.  *)
Turn(b, t) ==
  /\ told' = [told EXCEPT ![b] = Append(@, t)]
  /\ batch' = [batch EXCEPT ![b].entry = @ + 1,
                 ![b].at = IF batch[b].entry = Len(scene.plans[b].entries) THEN "done" ELSE "naming"]

(* A drop: the destination is listed first.                                *)
Drop(b) ==
  /\ At(b, "idle")
  /\ scene.calm => \A c \in Asked : batch[c].at \in {"idle", "done"}
  /\ batch' = [batch EXCEPT ![b].entry = 1,
                 ![b].at = CASE Kind(b) = "copy" -> "listing" [] OTHER -> "naming"]
  /\ UNCHANGED <<vars, scene, told, there, path, outcome>>

Listed(b) ==
  /\ At(b, "listing") /\ (scene.plans[b].up \/ scene.readable)
  /\ batch' = [batch EXCEPT ![b].at = "naming",
                            ![b].existing = {n \in Names : there[<<n>>] # Nothing}]
  /\ UNCHANGED <<vars, scene, told, there, path, outcome>>

(* A listing that fails ends an upload, and nobody is told; a folder of    *)
(* this machine that cannot be read is taken to be empty.                  *)
ListingFails(b) ==
  /\ At(b, "listing") /\ (scene.plans[b].up \/ ~scene.readable)
  /\ batch' = [batch EXCEPT ![b].at = IF scene.plans[b].up THEN "done" ELSE "naming"]
  /\ UNCHANGED <<vars, scene, told, there, path, outcome>>

(* Mutant of As: the batch forgets the names it has used.                  *)
AsForgotten(b, n, give) ==
  batch' = [batch EXCEPT ![b].at = "looking", ![b].name = n, ![b].said = @ \cup give]

(* The name is settled: the transfer of the entry begins.                  *)
As(b, n, give) ==
  batch' = [batch EXCEPT ![b].at = "looking", ![b].name = n,
                         ![b].existing = @ \cup {n}, ![b].said = @ \cup give]

(* The first number that is free. (Bound: Numbered has one.)               *)
FreeName(n, taken) ==
  {Numbered[n][i] : i \in {j \in DOMAIN Numbered[n] :
     Numbered[n][j] \notin taken /\ \A k \in 1 .. (j - 1) : Numbered[n][k] \in taken}}

(* resolveName                                                             *)
ResolveName(b) ==
  LET n == EntryOf(b).name
      policy == scene.policy
      clash == n \in batch[b].existing
  IN /\ At(b, "naming") /\ Kind(b) = "copy"
     /\ \/ (~clash \/ policy = "overwrite") /\ As(b, n, {}) /\ UNCHANGED told
        \/ /\ clash /\ policy = "rename" /\ UNCHANGED told
           /\ \E m \in FreeName(n, batch[b].existing) : As(b, m, {})
        \/ clash /\ policy = "skip" /\ Turn(b, "skipped")
        \/ clash /\ policy = "prompt" /\ batch' = [batch EXCEPT ![b].at = "asking"] /\ UNCHANGED told
     /\ UNCHANGED <<vars, scene, there, path, outcome>>

(* onConfirm, onCancel                                                     *)
Answers(b) ==
  /\ At(b, "asking")
  /\ \/ As(b, EntryOf(b).name, {EntryOf(b).name}) /\ UNCHANGED told
     \/ Turn(b, "skipped")
  /\ UNCHANGED <<vars, scene, there, path, outcome>>

(* downloadAndOpen: nobody looks whether the name is taken.                *)
Opens(b) ==
  /\ At(b, "naming") /\ Kind(b) = "open"
  /\ As(b, EntryOf(b).name, {})
  /\ UNCHANGED <<vars, scene, told, there, path, outcome>>

(* stat, the listing of a folder below, or an mkdir of this machine throws.*)
LookFails(b) ==
  /\ At(b, "looking")
  /\ Turn(b, "failed")
  /\ UNCHANGED <<vars, scene, there, path, outcome>>

PathOf(b, f) == IF EntryOf(b).dir THEN <<batch[b].name, Base[f]>> ELSE <<batch[b].name>>

(* Calls of acquire() for fs, one after another, when n slots are taken.   *)
Acquires(fs, n) ==
  LET now == IF limit <= n THEN 0 ELSE IF limit - n < Len(fs) THEN limit - n ELSE Len(fs)
  IN /\ active' = n + now
     /\ phase' = [f \in Files |->
                    IF f \notin ToSet(fs) THEN phase[f]
                    ELSE IF f \in ToSet(SubSeq(fs, 1, now)) THEN "opening" ELSE "waiting"]
     /\ waiters' = waiters \o SubSeq(fs, now + 1, Len(fs))

(* Mutant of Calls: a folder takes a slot for itself before its files.     *)
CallsHoldingOne(b) ==
  Acquires(EntryOf(b).files, IF EntryOf(b).dir THEN active + 1 ELSE active)

(* downloadFile or uploadFile for every file of the entry, each up to its  *)
(* first suspension.                                                       *)
Calls(b) == Acquires(EntryOf(b).files, active)

(* The tree was walked and its folders made (of another server, as far as  *)
(* they can be); then all its files are called, or the one file is.        *)
Starts(b) ==
  /\ At(b, "looking")
  /\ LET top == <<batch[b].name>>
     IN IF EntryOf(b).dir
        THEN /\ scene.plans[b].up \/ there[top] \in {Nothing, "dir"}
             /\ there' = [there EXCEPT ![top] = IF @ = Nothing THEN "dir" ELSE @]
        ELSE UNCHANGED there
  /\ Calls(b)
  /\ batch' = [batch EXCEPT ![b].at = "files"]
  /\ path' = [f \in Files |-> IF f \in FilesOf(b) THEN PathOf(b, f) ELSE path[f]]
  /\ outcome' = [f \in Files |-> IF f \in FilesOf(b) THEN "called" ELSE outcome[f]]
  /\ UNCHANGED <<limit, paused, scene, told>>

(* Mutant of Summary: a folder has failed only if all of its files have.   *)
SummaryOfAll(b) ==
  LET failed == {f \in FilesOf(b) : outcome[f] = "failed"}
  IN IF EntryOf(b).dir THEN failed # FilesOf(b) ELSE \A f \in FilesOf(b) : outcome[f] = "done"

(* summarize: a folder has failed if a file has; a single file that was    *)
(* cancelled is reported as an error.                                      *)
Summary(b) ==
  \A f \in FilesOf(b) : outcome[f] = "done" \/ (EntryOf(b).dir /\ outcome[f] = "cancelled")

(* allSettled, or the one call.                                            *)
Settled(b) ==
  /\ At(b, "files")
  /\ \A f \in FilesOf(b) : phase[f] = "idle"
  /\ Turn(b, IF Summary(b) THEN "ok" ELSE "failed")
  /\ UNCHANGED <<vars, scene, there, path, outcome>>

-----------------------------------------------------------------------------
(* The files' own steps, with what they do to the destination.             *)

Becomes(f, o) == outcome' = [outcome EXCEPT ![f] = o]

(* A file that nobody's batch asked for.                                   *)
LooseCall(f) ==
  /\ f \in scene.loose
  /\ AcquireNow(f) \/ AcquireLater(f)
  /\ UNCHANGED batchvars

FileOpenFails(f) ==
  /\ OpenFails(f)
  /\ Becomes(f, IF f \in scene.loose THEN "none" ELSE "failed")
  /\ UNCHANGED <<scene, batch, told, there, path>>

(* createWriteStream empties what is there, unless there is no such folder *)
(* or it is one: then its stream fails.                                    *)
Writable(p) == there[p] # "dir" /\ (Len(p) = 2 => there[<<p[1]>>] = "dir")
FileStarts(f) ==
  /\ StartStreaming(f)
  /\ IF f \in scene.loose \/ ~Writable(path[f])
     THEN there' = there /\ Becomes(f, IF f \in scene.loose THEN "none" ELSE "stray")
     ELSE there' = [there EXCEPT ![path[f]] = f] /\ Becomes(f, "writing")
  /\ UNCHANGED <<scene, batch, told, path>>

(* onCancel, "best effort": rmSync may throw, unlink's answer is not       *)
(* looked at, and what was written may so stay.                            *)
Removed(f) ==
  \/ there' = [there EXCEPT ![path[f]] = IF @ = "dir" THEN @ ELSE Nothing]
  \/ UNCHANGED there

(* runTransfer settles.                                                    *)
FileSettles(f) ==
  /\ Settle(f)
  /\ \/ f \in scene.loose /\ UNCHANGED <<there, outcome>>
     \/ outcome[f] = "writing" /\ Becomes(f, "done") /\ UNCHANGED there
     \/ outcome[f] \in {"writing", "stray"} /\ Becomes(f, "failed") /\ UNCHANGED there
     \/ outcome[f] \in {"writing", "stray"} /\ Becomes(f, "cancelled") /\ Removed(f)
  /\ UNCHANGED <<scene, batch, told, path>>

FileStep(f) ==
  \/ LooseCall(f) \/ FileOpenFails(f) \/ FileStarts(f) \/ FileSettles(f)
  \/ (ResumeAcquire(f) \/ Leave(f) \/ Pause(f) \/ Unpause(f)) /\ UNCHANGED batchvars

-----------------------------------------------------------------------------
(* Deletion, confirmed: entry by entry, a remote folder name by name.      *)

Inside(n) == {p \in Paths : Len(p) = 2 /\ p[1] = n /\ there[p] # Nothing}

Gone(ps) == there' = [p \in Paths |-> IF p \in ps THEN Nothing ELSE there[p]]

(* unlink, rmSync or the listing of a remote folder.                       *)
Deletes(b) ==
  LET n == EntryOf(b).name
  IN /\ At(b, "naming") /\ Kind(b) = "delete"
     /\ \/ Turn(b, "failed") /\ UNCHANGED there
        \/ /\ EntryOf(b).dir /\ scene.plans[b].up /\ there[<<n>>] = "dir"
           /\ batch' = [batch EXCEPT ![b].at = "unlinking", ![b].todo = Inside(n)]
           /\ UNCHANGED <<told, there>>
        \/ /\ ~(EntryOf(b).dir /\ scene.plans[b].up)
           /\ EntryOf(b).dir \/ there[<<n>>] # "dir"
           /\ scene.plans[b].up => there[<<n>>] # Nothing
           /\ Gone({<<n>>} \cup Inside(n)) /\ Turn(b, "ok")
     /\ UNCHANGED <<vars, scene, path, outcome>>

Unlinks(b) ==
  /\ At(b, "unlinking") /\ batch[b].todo # {}
  /\ \E p \in batch[b].todo :
       \/ there[p] # Nothing /\ Gone({p})
          /\ batch' = [batch EXCEPT ![b].todo = @ \ {p}] /\ UNCHANGED told
       \/ Turn(b, "failed") /\ UNCHANGED there
  /\ UNCHANGED <<vars, scene, path, outcome>>

(* rmdir removes an empty folder only.                                     *)
Rmdir(b) ==
  LET n == EntryOf(b).name
  IN /\ At(b, "unlinking") /\ batch[b].todo = {}
     /\ IF there[<<n>>] = "dir" /\ Inside(n) = {} THEN Gone({<<n>>}) /\ Turn(b, "ok")
        ELSE Turn(b, "failed") /\ UNCHANGED there
     /\ UNCHANGED <<vars, scene, path, outcome>>

-----------------------------------------------------------------------------

Goes(b) ==
  \/ Listed(b) \/ ListingFails(b) \/ ResolveName(b) \/ Answers(b) \/ Opens(b) \/ Starts(b) \/ LookFails(b)
  \/ Settled(b) \/ Deletes(b) \/ Unlinks(b) \/ Rmdir(b)

FNext ==
  \/ \E f \in Files : FileStep(f)
  \/ \E n \in Limits : SetLimit(n) /\ UNCHANGED batchvars
  \/ \E b \in Asked : Drop(b) \/ Goes(b)

(* As in TransferGate; and a request is answered, and a user answers.      *)
FFairness ==
  /\ \A f \in Files :
       /\ WF_allvars(FileStep(f) /\ CallStep(f))
       /\ SF_allvars(f \notin paused /\ FileSettles(f))
  /\ \A b \in Batches : WF_allvars(b \in Asked /\ Goes(b))

FSpec == FInit /\ [][FNext]_allvars /\ FFairness

-----------------------------------------------------------------------------

FTypeOK ==
  /\ TypeOK /\ scene \in Scenes
  /\ \A b \in Asked :
       /\ batch[b].at \in {"idle", "listing", "naming", "asking", "looking", "files",
                           "unlinking", "done"}
       /\ batch[b].existing \cup batch[b].said \subseteq Names /\ batch[b].todo \subseteq Paths
       /\ told[b] \in Seq({"ok", "failed", "skipped"})
       /\ batch[b].at # "idle" => batch[b].entry \in 1 .. (Len(scene.plans[b].entries) + 1)
  /\ there \in [Paths -> {Nothing, "old", "dir"} \cup Files]
  /\ path \in [Files -> Paths \cup {Nothing}]
  /\ outcome \in [Files -> {"none", "called", "writing", "stray", "done", "failed", "cancelled"}]

Owner(f) == CHOOSE b \in Asked : \E i \in DOMAIN scene.plans[b].entries :
              f \in ToSet(scene.plans[b].entries[i].files)

(* A drop writes over nothing that was there, nor over what an earlier     *)
(* entry of it has written, unless the setting says so or the user did for *)
(* that name (resolveName), if one request is made at a time and a folder   *)
(* that can be written can be read.                                        *)
OverwritesAsked ==
  [][scene.calm /\ scene.readable => \A p \in Paths :
       there[p] # Nothing /\ there'[p] \notin {Nothing, there[p]} /\ Kind(Owner(there'[p])) = "copy"
         => scene.policy = "overwrite" \/ p[1] \in batch[Owner(there'[p])].said]_allvars

(* What is reported as transferred is there: each file in its place, but   *)
(* for those of a folder that were cancelled, which leave nothing or what  *)
(* could not be removed of them; and what is reported as deleted is not    *)
(* there, if one request is made at a time (summarize, onCancel,           *)
(* SftpPanel.transfer, delete).                                            *)
ReportedIsSo ==
  [][scene.calm => \A b \in Asked :
       told'[b] # told[b] /\ Last(told'[b]) = "ok" =>
         LET entry == EntryOf(b)
         IN IF Kind(b) = "delete" THEN ~\E p \in Paths : p[1] = entry.name /\ there'[p] # Nothing
            ELSE \A f \in FilesOf(b) :
                   \/ outcome[f] = "done" /\ there'[path[f]] = f
                   \/ outcome[f] = "cancelled" /\ entry.dir /\ there'[path[f]] \in {Nothing, f}]_allvars

(* A request comes to its end, whatever fails or is cancelled, unless a    *)
(* transfer is left paused: a folder that queues its files holds no slot.  *)
BatchEnds ==
  (\A g \in Files : []<>(g \notin paused)) =>
    \A b \in Batches : batch[b].at # "idle" ~> batch[b].at = "done"

(* What the file manager does is what was asked for, and is told.          *)
BatchesAreSound == []FTypeOK /\ OverwritesAsked /\ ReportedIsSo

(* No file and no folder waits for ever.                                   *)
TransfersEnd == QueuedServed /\ BatchEnds
=============================================================================
