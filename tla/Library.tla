------------------------------ MODULE Library -------------------------------
(***************************************************************************)
(* The saved sessions as the user keeps them: every window shows a copy of *)
(* the tables (store/useSessionStore.ts) in its tree, edits it in dialogs, *)
(* keeps keys in the vault dialog and moves sessions in and out of files.  *)
(* The main process handles one request at a time and those of a window in *)
(* the order they were sent; a window learns of a change only when it      *)
(* reads the tables again, in two requests, after a change of its own.     *)
(*                                                                         *)
(* `scene` fixes what the user has at hand: the windows, the files, the    *)
(* tables to begin with, the gestures (acts), the fields edited, and how   *)
(* the user behaves. A calm user waits for the window to settle before the *)
(* next gesture and works in one window.                                   *)
(***************************************************************************)
EXTENDS ImportExport, Dialogs

CONSTANT Scenes

\* A user begins with sound tables, and with files and documents of the kinds there are.
ASSUME ScenesAssumption ==
    \A sc \in Scenes :
        /\ TablesTyped(sc.db) /\ RowsResolve(sc.db) /\ ("byhand" \in sc.acts \/ KeysApart(sc.db))
        /\ sc.db.sessions \in [DOMAIN sc.db.sessions -> SessionRows]
        /\ IsFiniteSet(DOMAIN sc.files) /\ DOMAIN sc.files \subseteq Paths
        /\ \A p \in DOMAIN sc.files : sc.files[p] \in KeyFiles
        /\ sc.docs \subseteq Documents
        /\ sc.names \subseteq Names /\ sc.protocols \subseteq Protocols /\ sc.fresh \subseteq Fingerprints

VARIABLES
  scene,
  db,        (* the tables                                                 *)
  files,     (* the files on this machine                                  *)
  saved,     (* a backup the user has written                              *)
  view,      (* sessions and groups of the store of each window            *)
  loads,     (* its load() calls under way, the oldest first               *)
  assign     (* its applyToSessions under way                              *)

libvars == <<scene, db, files, saved, view, loads, assign>>
vars == <<libvars, dlgvars>>

NoAssign == [key |-> None, todo |-> <<>>, picked |-> {}, names |-> <<>>]
NoBackup == <<>>

Init ==
    /\ scene \in Scenes
    /\ db = scene.db /\ files = scene.files /\ saved = NoBackup
    /\ view = [w \in Windows |-> [sessions |-> scene.db.sessions, groups |-> scene.db.groups]]
    /\ loads = [w \in Windows |-> <<>>]
    /\ assign = [w \in Windows |-> NoAssign]
    /\ DialogInit

Acts(a) == a \in scene.acts
Here(w) == w \in scene.windows

\* Every request the window has sent so far has been handled.
Handled(w) == \A i \in DOMAIN loads[w] : loads[w][i].read = 2
Settled(w) == loads[w] = <<>> /\ assign[w] = NoAssign

\* The user is at this window and may act.
Free(w) == Here(w) /\ Handled(w) /\ Len(loads[w]) < scene.loads /\ (scene.calm => Settled(w))

\* Nothing covers the tree; or a keyboard shortcut is used, which asks nothing of what is open.
AtTree(w) == Free(w) /\ dialogs[w] = <<>>
Reach(w) == AtTree(w) \/ (Free(w) /\ Acts("shortcuts") /\ Len(dialogs[w]) < 2)

At(w, kind) == Free(w) /\ Top(w).kind = kind
Room(table) == db.next[table] <= scene.rows

---------------------------------------------------------------------------
(* useSessionStore *)

Load(then) == [read |-> 0, sessions |-> <<>>, groups |-> <<>>, then |-> then]

\* A request to the repositories: when it succeeds the window loads the tables again.
Send(w, result, then) ==
    /\ db' = result.db
    /\ loads' = IF result.ok THEN [loads EXCEPT ![w] = Append(@, Load(then))] ELSE loads

\* A load asks for the sessions and for the groups; something else may be handled between them.
ReadTable(w) ==
    /\ \E i \in DOMAIN loads[w] :
          /\ loads[w][i].read < 2 /\ \A k \in 1..(i - 1) : loads[w][k].read = 2
          /\ loads' = [loads EXCEPT ![w][i] =
                          IF @.read = 0 THEN [@ EXCEPT !.read = 1, !.sessions = db.sessions]
                          ELSE [@ EXCEPT !.read = 2, !.groups = db.groups]]
    /\ UNCHANGED <<scene, db, files, saved, view, assign, dlgvars>>

\* Mutant: only the sessions are taken.
LoadedSessions(w) ==
    /\ loads[w] # <<>> /\ Head(loads[w]).read = 2
    /\ view' = [view EXCEPT ![w].sessions = Head(loads[w]).sessions]
    /\ loads' = [loads EXCEPT ![w] = Tail(@)]
    /\ IF Head(loads[w]).then = "close" THEN dialogs' = [dialogs EXCEPT ![w] = Popped(@)] ELSE UNCHANGED dialogs
    /\ UNCHANGED <<scene, db, files, saved, assign, asking>>

\* Both answers are there: the store takes them, and who awaited the load goes on.
Loaded(w) ==
    /\ loads[w] # <<>> /\ Head(loads[w]).read = 2
    /\ view' = [view EXCEPT ![w] = [sessions |-> Head(loads[w]).sessions, groups |-> Head(loads[w]).groups]]
    /\ loads' = [loads EXCEPT ![w] = Tail(@)]
    /\ IF Head(loads[w]).then = "close" THEN dialogs' = [dialogs EXCEPT ![w] = Popped(@)] ELSE UNCHANGED dialogs
    /\ UNCHANGED <<scene, db, files, saved, assign, asking>>

---------------------------------------------------------------------------
(* SessionTree *)

\* Drop a session on a group, on a session of a group, or on the empty part of the tree.
MoveToGroup(w) ==
    /\ AtTree(w) /\ Acts("move")
    /\ \E s \in DOMAIN view[w].sessions, g \in DOMAIN view[w].groups \cup {None} :
          /\ g # view[w].sessions[s].group
          /\ Send(w, SessionsUpdate(db, s, [name |-> view[w].sessions[s].name,
                                            protocol |-> view[w].sessions[s].protocol, group |-> g]), "nothing")
    /\ UNCHANGED <<scene, files, saved, view, assign, dlgvars>>

CreateGroup(w) ==
    /\ AtTree(w) /\ Acts("groups") /\ Room("groups")
    /\ \E name \in scene.names \ {NoText}, parent \in DOMAIN view[w].groups \cup {None} :
          Send(w, GroupsCreate(db, name, parent), "nothing")
    /\ UNCHANGED <<scene, files, saved, view, assign, dlgvars>>

RenameGroup(w) ==
    /\ AtTree(w) /\ Acts("groups")
    /\ \E g \in DOMAIN view[w].groups, name \in scene.names \ {NoText} :
          /\ name # view[w].groups[g].name
          /\ Send(w, GroupsRename(db, g, name), "nothing")
    /\ UNCHANGED <<scene, files, saved, view, assign, dlgvars>>

Confirm(what, id) == [kind |-> "confirm", what |-> what, id |-> id]

\* Delete in a menu asks first.
AskDelete(w) ==
    /\ AtTree(w) /\ Acts("delete")
    /\ \/ \E s \in DOMAIN view[w].sessions : OpenDialog(w, Confirm("session", s))
       \/ \E g \in DOMAIN view[w].groups : OpenDialog(w, Confirm("group", g))
    /\ UNCHANGED <<libvars, asking>>

\* What a confirmed delete does; that of a key leaves the session list alone.
Delete(w, d) ==
    \/ d.what = "session" /\ Send(w, SessionsDelete(db, d.id), "nothing")
    \/ d.what = "group" /\ Send(w, GroupsDelete(db, d.id), "nothing")
    \/ d.what = "key" /\ db' = KeysDelete(db, d.id).db /\ UNCHANGED loads

\* Delete is clicked, or Enter is pressed anywhere: the dialog listens on the window,
\* whatever has been opened over it. It closes the top and deletes. (A calm user presses no
\* Enter while something else is on top.)
ConfirmDelete(w) ==
    /\ Free(w)
    /\ \E i \in DOMAIN dialogs[w] :
          /\ dialogs[w][i].kind = "confirm" /\ (scene.calm => i = Len(dialogs[w]))
          /\ Delete(w, dialogs[w][i])
          /\ dialogs' = [dialogs EXCEPT ![w] =
                LET rest == Popped(@) IN
                IF dialogs[w][i].what = "key" /\ rest # <<>> /\ Last(rest).kind = "vault"
                THEN [rest EXCEPT ![Len(rest)].keys = DOMAIN db'.keys] ELSE rest]
    /\ UNCHANGED <<scene, files, saved, view, assign, asking>>

---------------------------------------------------------------------------
(* NewSessionDialog *)

SessionDialog(mode, id, form) ==
    [kind |-> "session", mode |-> mode, id |-> id, base |-> form, form |-> form,
     keys |-> DOMAIN db.keys, sent |-> FALSE]

\* A new session, in a group or not; an edit or a copy of one begins with the row the tree
\* showed, and a typed password begins empty.
NewSession(w) ==
    /\ Reach(w) /\ Acts("new") /\ Room("sessions")
    /\ \E g \in DOMAIN view[w].groups \cup {None} :
          OpenDialog(w, SessionDialog("new", None, [Blank EXCEPT !.group = g]))
    /\ UNCHANGED <<libvars, asking>>

EditSession(w) ==
    /\ AtTree(w)
    /\ \E s \in DOMAIN view[w].sessions, mode \in {"edit", "copy"} :
          /\ Acts(mode) /\ (mode = "copy" => Room("sessions"))
          /\ OpenDialog(w, SessionDialog(mode, s, [view[w].sessions[s] EXCEPT !.password = FALSE]))
    /\ UNCHANGED <<libvars, asking>>

\* Picking a protocol sets its port and forgets how to log in.
SetProtocol(form, p) ==
    [protocol |-> p, auth |-> IF p = "ssh" THEN "password" ELSE "none",
     port |-> CASE p = "ssh" -> 22 [] p = "telnet" -> 23 [] p = "rdp" -> 3389 [] p = "vnc" -> 5900
                [] OTHER -> form.port]

\* What the fields of the form offer: the groups, sessions and keys the window knows of.
Offers(w, d) ==
    { [name |-> n] : n \in scene.names }
    \cup { [group |-> g] : g \in DOMAIN view[w].groups \cup {None} }
    \cup { SetProtocol(d.form, p) : p \in scene.protocols }
    \cup (IF d.form.protocol # "ssh" THEN {} ELSE
            { [jump |-> s] : s \in {x \in DOMAIN view[w].sessions \ {d.id} : view[w].sessions[x].protocol = "ssh"} \cup {None} }
            \cup { [auth |-> "key", key |-> k] : k \in d.keys }
            \cup (IF d.form.auth = "password" THEN {[password |-> TRUE]} ELSE {}))

Changed(d) == {c \in DOMAIN Blank : d.form[c] # d.base[c]}

EditField(w) ==
    /\ At(w, "session") /\ ~Top(w).sent /\ Changed(Top(w)) = {}
    /\ \E patch \in Offers(w, Top(w)) :
          /\ DOMAIN patch \cap scene.fields # {}
          /\ ChangeTop(w, [Top(w) EXCEPT !.form = Patched(patch, @)])
    /\ UNCHANGED <<libvars, asking>>

\* Import… beside the key: the key goes into the vault and into the form.
ImportIntoForm(w) ==
    /\ At(w, "session") /\ ~Top(w).sent /\ Top(w).form.auth = "key" /\ Acts("byhand") /\ Room("keys")
    /\ \E p \in DOMAIN files :
          LET r == KeysImport(db, files[p], BaseOf[p], FALSE) IN
          /\ r.ok /\ db' = r.db
          /\ ChangeTop(w, [Top(w) EXCEPT !.form.key = r.id, !.keys = DOMAIN r.db.keys])
    /\ UNCHANGED <<scene, files, saved, view, loads, assign, asking>>

Twin(w, d) ==
    \E s \in DOMAIN view[w].sessions :
        ~(d.mode = "edit" /\ s = d.id) /\ SameSession(view[w].sessions[s], d.form)

\* Save sends the whole form, and closes the top dialog once the list is loaded again; a
\* refusal leaves the dialog open. Nothing disables the button meanwhile.
SaveSession(w) ==
    /\ At(w, "session") /\ (scene.calm => ~Top(w).sent)
    /\ LET d == Top(w)
           r == IF d.mode = "edit" THEN SessionsUpdate(db, d.id, d.form) ELSE SessionsCreate(db, d.form)
       IN /\ d.form.name # NoText /\ ~Twin(w, d) /\ r.ok
          /\ Room("sessions") \/ d.mode = "edit"
          /\ Send(w, r, "close")
          /\ ChangeTop(w, [d EXCEPT !.sent = TRUE])
    /\ UNCHANGED <<scene, files, saved, view, assign, asking>>

\* A pane asked for a password or a key of a session, and it is kept (GlobalPrompts).
RememberCredentials(w) ==
    /\ Free(w) /\ Acts("remember")
    /\ \E s \in {x \in DOMAIN view[w].sessions : view[w].sessions[x].protocol = "ssh"} :
          \E patch \in {[auth |-> "password", password |-> TRUE]}
                       \cup {[auth |-> "key", key |-> k] : k \in DOMAIN db.keys} :
              Send(w, SessionsUpdate(db, s, Patched(patch, [name |-> view[w].sessions[s].name, protocol |-> "ssh"])), "nothing")
    /\ UNCHANGED <<scene, files, saved, view, assign, dlgvars>>

---------------------------------------------------------------------------
(* KeyVaultDialog *)

NoPicker == [key |-> None, picked |-> {}]

OpenVault(w) ==
    /\ Reach(w) /\ Acts("vault")
    /\ OpenDialog(w, [kind |-> "vault", keys |-> DOMAIN db.keys, picker |-> NoPicker])
    /\ UNCHANGED <<libvars, asking>>

AtVault(w) == At(w, "vault") /\ Top(w).picker = NoPicker

\* Generate, Import and Import from ~/.ssh, and the list of keys read again.
FillVault(w) ==
    /\ AtVault(w) /\ Room("keys")
    /\ \/ /\ Acts("byhand")
          /\ \E fp \in scene.fresh : (\A k \in DOMAIN db.keys : db.keys[k].fp # fp)
                /\ \E name \in scene.names : db' = KeysGenerate(db, name, fp).db
       \/ /\ Acts("byhand")
          /\ \E p \in DOMAIN files, pass \in BOOLEAN : db' = KeysImport(db, files[p], BaseOf[p], pass).db
       \/ Acts("scan") /\ db' = ImportFromDir(db, files).db
    /\ ChangeTop(w, [Top(w) EXCEPT !.keys = DOMAIN db'.keys])
    /\ UNCHANGED <<scene, files, saved, view, loads, assign, asking>>

AskDeleteKey(w) ==
    /\ AtVault(w) /\ Acts("delete")
    /\ \E k \in Top(w).keys : OpenDialog(w, Confirm("key", k))
    /\ UNCHANGED <<libvars, asking>>

SshSessions(w) == {s \in DOMAIN view[w].sessions : view[w].sessions[s].protocol = "ssh"}
Users(w, k) == {s \in SshSessions(w) : view[w].sessions[s].key = k}

\* "Use for sessions…" opens a picker that begins with the sessions that use the key.
OpenPicker(w) ==
    /\ AtVault(w) /\ Acts("assign") /\ SshSessions(w) # {}
    /\ \E k \in Top(w).keys : ChangeTop(w, [Top(w) EXCEPT !.picker = [key |-> k, picked |-> Users(w, k)]])
    /\ UNCHANGED <<libvars, asking>>

Toggle(w) ==
    /\ At(w, "vault") /\ Top(w).picker # NoPicker
    /\ \E s \in SshSessions(w) :
          ChangeTop(w, [Top(w) EXCEPT !.picker.picked = IF s \in @ THEN @ \ {s} ELSE @ \cup {s}])
    /\ UNCHANGED <<libvars, asking>>

\* applyToSessions: the sessions to change are taken from the list as it is shown, and in its
\* order, which is none of the ids.
Apply(w) ==
    /\ At(w, "vault") /\ Top(w).picker # NoPicker /\ assign[w] = NoAssign
    /\ LET p == Top(w).picker
           changed == {s \in SshSessions(w) : (s \in p.picked) # (s \in Users(w, p.key))}
       IN \E todo \in SetToSeqs(changed) :
             assign' = [assign EXCEPT ![w] = [key |-> p.key, todo |-> todo, picked |-> p.picked,
                                              names |-> [s \in changed |-> view[w].sessions[s].name]]]
    /\ ChangeTop(w, [Top(w) EXCEPT !.picker = NoPicker])
    /\ UNCHANGED <<scene, db, files, saved, view, loads, asking>>

\* One session after the other, each awaited with the load that follows it; a refusal ends it.
\* The name sent with it is the one the list showed when Apply was clicked.
AssignNext(w) ==
    /\ assign[w].todo # <<>> /\ Handled(w) /\ \A i \in DOMAIN loads[w] : loads[w][i].then # "assign"
    /\ LET s == Head(assign[w].todo)
           use == s \in assign[w].picked
           r == SessionsUpdate(db, s, [name |-> assign[w].names[s], protocol |-> "ssh",
                                       key |-> IF use THEN assign[w].key ELSE None,
                                       auth |-> IF use THEN "key" ELSE "password"])
       IN /\ Send(w, r, "assign")
          /\ IF r.ok THEN assign' = [assign EXCEPT ![w].todo = Tail(@)]
             ELSE assign' = [assign EXCEPT ![w] = NoAssign]
    /\ UNCHANGED <<scene, files, saved, view, dlgvars>>

AssignDone(w) ==
    /\ assign[w] # NoAssign /\ assign[w].todo = <<>> /\ \A i \in DOMAIN loads[w] : loads[w][i].then # "assign"
    /\ assign' = [assign EXCEPT ![w] = NoAssign]
    /\ UNCHANGED <<scene, db, files, saved, view, loads, dlgvars>>

---------------------------------------------------------------------------
(* ExportImportDialog *)

ImportDialog(inputs) ==
    [kind |-> "import", inputs |-> inputs, refs |-> KeyRefsFor(db, files, inputs),
     located |-> [p \in Paths |-> NoText], sent |-> FALSE]

\* Preview: a document of another program, or a backup written before.
Preview(w) ==
    /\ Reach(w) /\ Acts("import")
    /\ \/ \E doc \in scene.docs : OpenDialog(w, ImportDialog(ParseSessions(doc.source, doc.body)))
       \/ saved # NoBackup /\ OpenDialog(w, ImportDialog(ParseSessions("ternix", saved)))
    /\ UNCHANGED <<libvars, asking>>

Unresolved(d, p) == d.refs[p] = "missing" /\ d.located[p] = NoText

\* Locate… takes any private key for a key file that is missing.
LocateKey(w) ==
    /\ At(w, "import") /\ ~Top(w).sent
    /\ \E p \in DOMAIN Top(w).refs, q \in DOMAIN files :
          /\ Unresolved(Top(w), p) /\ InspectKeyFile(files, q).read
          /\ ChangeTop(w, [Top(w) EXCEPT !.located[p] = q])
    /\ UNCHANGED <<libvars, asking>>

\* Import. When the commit fails nothing is loaded and the dialog stays as it is.
CommitImport(w) ==
    /\ At(w, "import") /\ (scene.calm => ~Top(w).sent) /\ Room("sessions")
    /\ \E r \in {Commit(db, files, Top(w).inputs, Top(w).located)} :
          Send(w, r, "close") /\ ChangeTop(w, [Top(w) EXCEPT !.sent = r.ok])
    /\ UNCHANGED <<scene, files, saved, view, assign, asking>>

ExportBackup(w) ==
    /\ AtTree(w) /\ Acts("backup") /\ db.sessions # <<>>
    /\ saved' = Export("ternix", db)
    /\ UNCHANGED <<scene, db, files, view, loads, assign, dlgvars>>

---------------------------------------------------------------------------
(* SnippetDialog, SnippetsPanel and TunnelDialog *)

\* A snippet is new or an old one; it may be scoped to its owner, or else to the session of
\* the active pane.
OpenSnippet(w) ==
    /\ AtTree(w) /\ Acts("snippets")
    /\ \E id \in DOMAIN db.snippets \cup {None}, active \in DOMAIN view[w].sessions \cup {None} :
          /\ id = None => Room("snippets")
          /\ LET old == IF id = None THEN [global |-> TRUE, session |-> None] ELSE db.snippets[id]
             IN OpenDialog(w, [kind |-> "snippet", id |-> id, global |-> old.global,
                               owner |-> IF old.session # None THEN old.session ELSE active])
    /\ UNCHANGED <<libvars, asking>>

ScopeToggle(w) ==
    /\ At(w, "snippet") /\ Top(w).owner # None
    /\ ChangeTop(w, [Top(w) EXCEPT !.global = ~@])
    /\ UNCHANGED <<libvars, asking>>

SaveSnippet(w) ==
    /\ At(w, "snippet")
    /\ LET d == Top(w)
           owner == IF d.global THEN None ELSE d.owner
           r == IF d.id # None THEN SnippetsUpdate(db, d.id, d.global, owner) ELSE SnippetsCreate(db, d.global, owner)
       IN r.ok /\ db' = r.db
    /\ dialogs' = [dialogs EXCEPT ![w] = Popped(@)]
    /\ UNCHANGED <<scene, files, saved, view, loads, assign, asking>>

SnippetList(w) ==
    /\ AtTree(w) /\ Acts("snippets")
    /\ \/ \E id \in DOMAIN db.snippets : db' = SnippetsDelete(db, id).db
       \/ Room("snippets") /\ db' = SnippetsImport(db, 1).db
    /\ UNCHANGED <<scene, files, saved, view, loads, assign, dlgvars>>

Tunnels(w) ==
    /\ AtTree(w) /\ Acts("tunnels")
    /\ \/ Room("tunnels") /\ \E s \in DOMAIN view[w].sessions, auto \in BOOLEAN : db' = TunnelsCreate(db, s, auto).db
       \/ \E t \in DOMAIN db.tunnels :
             db' \in {TunnelsSetAuto(db, t, ~db.tunnels[t].auto).db, TunnelsDelete(db, t).db}
    /\ UNCHANGED <<scene, files, saved, view, loads, assign, dlgvars>>

---------------------------------------------------------------------------
(* Around the library *)

\* A key file comes to this machine or goes.
FilesChange ==
    /\ Acts("disk")
    /\ \E p \in DOMAIN scene.files :
          files' = IF p \in DOMAIN files THEN Without(files, {p}) ELSE Patched(files, Single(p, scene.files[p]))
    /\ UNCHANGED <<scene, db, saved, view, loads, assign, dlgvars>>

\* A pane connects, or reconnects by itself, and the vault is locked.
PaneAsks(w) ==
    /\ Here(w) /\ Acts("asks") /\ Len(dialogs[w]) < 2 /\ (scene.calm => Settled(w))
    /\ AskVault(w) /\ UNCHANGED libvars

PaneAnswered(w) == Free(w) /\ AnswerUnlock(w) /\ UNCHANGED libvars

\* Cancel closes the picker of the vault alone; Escape closes both.
Cancel(w) ==
    /\ Free(w) /\ UNCHANGED libvars
    /\ IF Top(w).kind = "vault" /\ Top(w).picker # NoPicker
       THEN ChangeTop(w, [Top(w) EXCEPT !.picker = NoPicker]) /\ UNCHANGED asking
       ELSE CloseTop(w)

PressEscape(w) == Free(w) /\ Escape(w) /\ UNCHANGED libvars

---------------------------------------------------------------------------
Next ==
    \/ FilesChange
    \/ \E w \in Windows :
        \/ ReadTable(w) \/ Loaded(w)
        \/ MoveToGroup(w) \/ CreateGroup(w) \/ RenameGroup(w) \/ AskDelete(w) \/ ConfirmDelete(w)
        \/ NewSession(w) \/ EditSession(w) \/ EditField(w) \/ ImportIntoForm(w) \/ SaveSession(w)
        \/ RememberCredentials(w)
        \/ OpenVault(w) \/ FillVault(w) \/ AskDeleteKey(w) \/ OpenPicker(w) \/ Toggle(w) \/ Apply(w)
        \/ AssignNext(w) \/ AssignDone(w)
        \/ Preview(w) \/ LocateKey(w) \/ CommitImport(w) \/ ExportBackup(w)
        \/ OpenSnippet(w) \/ ScopeToggle(w) \/ SaveSnippet(w) \/ SnippetList(w) \/ Tunnels(w)
        \/ PaneAsks(w) \/ PaneAnswered(w) \/ Cancel(w) \/ PressEscape(w)

\* The main process answers and the renderer takes the answers. An assignment goes on with
\* its next session however many other requests of the window come between.
Fairness ==
    \A w \in Windows :
        /\ WF_vars(ReadTable(w)) /\ WF_vars(Loaded(w))
        /\ SF_vars(AssignNext(w)) /\ WF_vars(AssignDone(w))

Spec == Init /\ [][Next]_vars /\ Fairness

---------------------------------------------------------------------------
(* Properties *)

TypeOK ==
    /\ scene \in Scenes
    /\ TablesTyped(db)
    /\ DOMAIN files \subseteq Paths /\ \A p \in DOMAIN files : files[p] \in KeyFiles
    /\ \A w \in Windows : \A i \in DOMAIN loads[w] : loads[w][i].read \in 0..2

\* Imports and scans put a key that can be parsed into the vault once, however many files,
\* sessions and imports name it (KeyService.ensureKeyFromFile, importFromDir).
KeysOnce == Acts("byhand") \/ KeysApart(db)

Committed(d, doc) == Commit(d, files, ParseSessions(doc.source, doc.body), [p \in Paths |-> NoText])

\* Importing a file a second time changes nothing: the sessions are known, the groups of the
\* folders are found again, the keys are in the vault (commitImport, resolveGroupPath).
ImportIsIdempotent ==
    \A doc \in scene.docs :
        \A first \in {Committed(db, doc)} : first.ok => Committed(first.db, doc).db = first.db

\* What was exported is recognised when it is imported into the same database: no session
\* comes twice, in any of the five formats that are written (export, commitImport).
BackupIsKnown ==
    \A target \in {"ternix", "csv", "sshconfig", "mobaxterm", "tabby"} :
        (\A s \in DOMAIN db.sessions : Carries(target, db.sessions[s]))
        => Committed(db, [source |-> target, body |-> Export(target, db)]).made = 0

Asked(what, id) ==
    \E w \in Windows : \E i \in DOMAIN dialogs[w] :
        /\ dialogs[w][i] = Confirm(what, id) /\ Len(dialogs'[w]) < Len(dialogs[w])
        /\ scene.calm => i = Len(dialogs[w])

\* A session, a group or a key goes only because its own deletion was confirmed, or, for a
\* group, that of a group it lies under: no other request, import or cascade takes one
\* (SessionTree: "Sessions inside move to ungrouped"; keysRepo.delete).
DeletesAsConfirmed ==
    [][ /\ \A s \in DOMAIN db.sessions \ DOMAIN db'.sessions : Asked("session", s)
        /\ \A g \in DOMAIN db.groups \ DOMAIN db'.groups :
              \E top \in DOMAIN db.groups : g \in Under(db, top) /\ Asked("group", top)
        /\ \A k \in DOMAIN db.keys \ DOMAIN db'.keys : Asked("key", k) ]_vars

\* The user has one window.
Alone == \E w \in Windows : scene.windows = {w}

\* The user waits for the one window, covers no form by a keyboard shortcut, and no pane keeps
\* a login in a session meanwhile.
Tidy == scene.calm /\ Alone /\ ~Acts("shortcuts") /\ ~Acts("remember")

Sends(w) == Top(w).kind = "session" /\ ~Top(w).sent /\ dialogs'[w] # <<>> /\ Last(dialogs'[w]) = [Top(w) EXCEPT !.sent = TRUE]

\* Saving an edited session leaves alone every column its user did not touch, a stored
\* password included, when nothing else wrote the row meanwhile (NewSessionDialog sends the
\* whole form; sessionsRepo.update).
EditKeepsOthers ==
    [][ \A w \in Windows :
          Tidy /\ Sends(w) /\ Top(w).mode = "edit" =>
             /\ \A s \in DOMAIN db.sessions \ {Top(w).id} : db'.sessions[s] = db.sessions[s]
             /\ \A c \in DOMAIN Blank \ Changed(Top(w)) : db'.sessions[Top(w).id][c] = db.sessions[Top(w).id][c]
      ]_vars

\* A key that is gone reads as none: its deletion is the one change that reads nothing again.
Shown(rows) == [s \in DOMAIN rows |-> [rows[s] EXCEPT !.key = IF @ \in DOMAIN db.keys THEN @ ELSE None]]

\* No backup is imported: one that fails half-way is not followed by a load.
ForeignOnly == ~Acts("backup") /\ \A doc \in scene.docs : doc.source # "ternix"

\* No session is twice in the tables the user begins with, or in a document.
OneOfEach == Apart(scene.db.sessions) /\ \A doc \in scene.docs : Apart(ParseSessions(doc.source, doc.body))

\* Once a calm user's only window has settled, its list is what the database holds
\* (useSessionStore: every change is followed by a load).
ListIsDatabase ==
    scene.calm /\ Alone /\ ForeignOnly =>
        \A w \in scene.windows :
            Settled(w) => Shown(view[w].sessions) = db.sessions /\ view[w].groups = db.groups

\* With one window every session of the list hangs in the tree: its group is there, and so
\* are the groups above it (SessionTree draws from the roots down).
NothingHidden ==
    Alone =>
        \A w \in scene.windows :
            /\ \A s \in DOMAIN view[w].sessions : Names_(view[w].groups, view[w].sessions[s].group)
            /\ \A g \in DOMAIN view[w].groups : Names_(view[w].groups, view[w].groups[g].parent)

Imports(w) == Top(w).kind = "import" /\ ~Top(w).sent /\ dialogs'[w] # <<>> /\ Last(dialogs'[w]).kind = "import" /\ Last(dialogs'[w]).sent

KeyFileOf(d, raw) == IF d.located[raw] # NoText THEN d.located[raw] ELSE NormalizeKeyPath(files, raw)

\* What the preview says of a key file comes true: a session whose key is in the vault, on
\* disk or located gets a key, the one in the file if that can be parsed; one whose key is
\* missing says so in its notes, unless a key of that name turns up (ImportExportService
\* inspectKeyRef against resolveKeyToVault; README.md:215).
ImportLinks ==
    [][ \A w \in Windows :
          Tidy /\ ~Acts("disk") /\ Imports(w) =>
             \A s \in DOMAIN db'.sessions \ DOMAIN db.sessions :
                LET d == Top(w) new == db'.sessions[s] IN
                \E i \in DOMAIN d.inputs :
                   LET raw == d.inputs[i].keyPath
                       seen == InspectKeyFile(files, KeyFileOf(d, raw)) IN
                   /\ SameSession(d.inputs[i], new)
                   /\ (raw # NoText /\ ~Unresolved(d, raw)) => new.key # None
                   /\ (raw # NoText /\ seen.fp # NoText) => new.key # None /\ db'.keys[new.key].fp = seen.fp
                   /\ (raw # NoText /\ new.key = None) => Note("RequiresKey", raw) \in ToSet(new.notes)
      ]_vars

\* When "Use for sessions…" is through, the key is used by the sessions that were picked and
\* by no other (KeyVaultDialog.applyToSessions), unless the lists moved meanwhile.
AssignIsPicked ==
    [][ \A w \in Windows :
          Tidy /\ assign[w] # NoAssign /\ assign[w].todo = <<>> /\ assign'[w] = NoAssign =>
             {s \in DOMAIN db.sessions : db.sessions[s].protocol = "ssh" /\ db.sessions[s].key = assign[w].key}
             = assign[w].picked ]_vars

\* A pane that asked for the vault can be answered: as long as one waits, an unlock dialog
\* that has not answered is on the stack, and none is left that would answer nobody, if the
\* user is calm and opens no dialog by the keyboard over another (vaultGuard.pending,
\* UnlockVaultDialog).
UnlockAnswers ==
    scene.calm /\ ~Acts("shortcuts") =>
        \A w \in Windows :
            LET unlocks == {i \in DOMAIN dialogs[w] : dialogs[w][i].kind = "unlock"} IN
            IF asking[w] THEN \E i \in unlocks : unlocks = {i} /\ dialogs[w][i] = Unlock
            ELSE unlocks = {}

\* A calm user with one window, who begins with no session twice, ends up with no two sessions
\* of one name, protocol, host and user, whether they are typed, copied, edited or imported
\* (NewSessionDialog.save, commitImport). Two windows know a new session from each other only
\* after a load, and a backup that fails half-way leaves sessions the list does not show.
NoTwins == scene.calm /\ Alone /\ ForeignOnly /\ OneOfEach => Apart(db.sessions)

\* An assignment of a key to sessions comes to its end.
AssignEnds == \A w \in Windows : assign[w] # NoAssign ~> assign[w] = NoAssign

\* Whatever is edited, imported and deleted, in which order and from which window: every
\* reference of the tables leads to a row, the groups form a tree, a snippet is global or
\* owned, and no key is in twice (schema.ts: the cascades; groupsRepo.delete,
\* keysRepo.delete, scopeSnippet, KeyService.ensureKeyFromFile).
TablesAreSound == TypeOK /\ RowsResolve(db) /\ KeysOnce

\* What is there already is known again: importing it, from a foreign file or an own backup,
\* adds nothing, and no session has a twin.
ImportsAreKnown == ImportIsIdempotent /\ BackupIsKnown /\ NoTwins

\* A settled window shows the sessions of the database, each of them in the tree.
ListIsWhole == ListIsDatabase /\ NothingHidden

\* A request changes what its user asked for: the rows that were confirmed go, the columns
\* that were edited are written, the keys that were previewed are linked, and the sessions
\* that were picked get the key, in the end.
RequestsDoAsAsked ==
    DeletesAsConfirmed /\ EditKeepsOthers /\ ImportLinks /\ AssignIsPicked /\ AssignEnds
=============================================================================
