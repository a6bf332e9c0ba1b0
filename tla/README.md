# Ternix, modelled and checked

This directory is a verification development of Ternix, the Electron
SSH/terminal manager in this repository. The TLA+ modules model the stateful
parts of the main process and of the renderer; TLC checks them on small
instances; TLAPS proves the main invariants of the core for every value of the
constants. `PROJECT.json` maps every definition to the source lines it stands
for, and lists under `hazards` the places where this code can go wrong in ways
a test would hardly reach, each with the property that would catch it.

    tlc -workers 2 -config MCVault.cfg MCVault       # a run
    tlapm LibraryProofs.tla                          # the proofs of a module

Contents: [the system](#1-the-system) ·
[how it is modelled](#2-how-the-code-is-modelled) ·
[modules](#3-modules) · [runs](#4-runs) · [bounds](#5-bounds) ·
[fairness](#6-fairness) · [proofs](#7-proofs) ·
[what the models show of the code](#8-what-the-models-show-of-the-code) ·
[plan](#9-plan) · [not modelled](#10-what-stays-out)

## 1. The system

Ternix has one main process (Node, single threaded), any number of windows
(renderers, single threaded each), and optionally a phone that reaches the main
process over an encrypted websocket. All main-process state lives in singletons
under `electron/services`; the renderers call it over IPC (`electron/ipc/*`) and
hear from it through events pushed to every window (`events.ts`).

| component | state it keeps | operations | hard because |
|---|---|---|---|
| SFTP transfer gate (`SftpService.acquire/release`, `downloadFile`, `uploadFile`) | `active`, `waiters` | take and give back one of `transfer.maxConcurrent` slots | a woken waiter runs later than its wake-up; the limit changes while files queue; six ways out of a transfer must each give back one slot |
| SFTP transfer streams (`runTransfer`, `pause`, `resume`, `cancel`) | the `transfers` map, each entry's `paused`, `cancelled` | pause, resume, cancel, progress, settle | `finish`, `close` and two `error`s race each other and the user; piping restarts streams by itself |
| Connection registry (`ConnectionManager`, `SpawnService`) | `entries`: backend, owner window, log row, scrollback, recorder | spawn or adopt, register, write, resize, exit, kill | spawn looks, awaits and then registers; exits are reported by pane, not by connection |
| Terminal backends (`SshService`, `TelnetService`, `SerialService`, `PtyService`) | the transport | connect, exit, kill | each reports its failures in its own order and number of events |
| Terminal pane (`useTerminal`) | pane state, reconnect attempts, one timer handle | mount, reconnect, Ctrl+R, react to status, exit and reply | events and replies of an old attempt arrive during a new one; more timers than handles |
| Windows and tear-off (`TabBar`, `useTabStore`, `App`, `main.ts`) | pending tear-offs, live windows | tear off, adopt, close | a connection is handed over in several messages between three processes |
| SSH connect phase (`SshService`, `GlobalPrompts`, `mobileGate`) | pending prompts, the modals, pinned host keys | connect over a jump chain, check host keys, ask, time out | prompts are kept by pane and shown one per kind and window; clocks, answers and second attempts race |
| SSH tunnels (`TunnelService`) | one listener per tunnel | start, stop, stop for a pane, auto-start | stopped while it starts; the connection ends under a tunnel |
| Recordings (`RecordingService`) | rows, files, the recorder of a pane | start, stop, delete, cap, auto-record | the pane ends while recording; auto-record comes after several awaits |
| SFTP panel (`usePane`, `SftpService.wrapper`) | the channel kept per pane, what is listed | open, list | the channel may outlive its connection; listings arrive for the tab before |
| Statistics (`StatsPoller`, `ipc/stats`) | the fetch under way, the last sample | poll, time out | a slow answer comes after the tab was switched |
| Remote desktop (`RemoteDesktopPane`, `VncBridgeService`, `RdpGatewayService`, `NativeClientService`) | a loopback server, tokens, log rows, pending certificates | open, close, hand-shake, hand off | every step of a connect awaits, and the pane may go in each |
| Tab store (`useTabStore`, `TabBar`, `SplitLayout`) | tabs, grids, groups, sizes | open, split, close, move, group, resize, tear off | caps and tree surgery under menus and drags that captured an older tab |
| Command sequencing (`runCommands`, `SnippetsPanel`) | one listener and two timers per line | send the next line at a prompt | output mistaken for a prompt; the pane goes away |
| Phone: panes and sockets (`MobileService.onSocket`, `orphan`, `stop`) | per-socket pane, `ownPanes`, `orphans` timers | spawn, attach, detach, kill, close, grace timer, stop | dead links are noticed late; the spawn is answered after its socket is gone |
| Phone: pairing and devices (`MobileService`, `pairingGate`, `PhonePanel`) | pairing secret, attempts, device list | mint, redeem, revoke, handshake | expiry, attempts, requests and a panel that shows the code race |
| Phone: Cloudflare tunnel (`MobileService`, `CloudflaredService`) | process, URL, install promise | install, start, stop, time out | stop during a start; late events of a replaced process |
| Vault key (`CryptoService`, `vaultKeyPlan`, `SecuritySettings`) | key in memory; key file, OS credential store, `vault_meta`; the idle timer | start, migrate, set/remove master password, lock, unlock | three awaits on a store that may fail, lie or crash in between, and losing the key loses every secret |
| Library (`db/*`, `KeyService`, `ImportExportService`, `useSessionStore`, the dialogs) | sessions, groups, keys, snippets, tunnels; each window's copy; a stack of dialogs | edit, copy, move, delete, assign keys, import, export | copies and forms that are stale, imports that fail half-way, cascades, one Escape for every dialog |
| Phone page, updates, clipboard, themes, settings views | sockets, caches, timers | polling, presentation | [section 10](#10-what-stays-out) |

Components interact in three ways: calls over IPC (a renderer's messages arrive
in order, those of different windows interleave freely), events to every window
(handled by whoever shows the pane), and direct calls between main-process
services. A transfer holds a gate slot from `acquire` to its `finally`; the phone
and the windows share one registry; a pane's tunnels, recorder, SFTP channel and
statistics stand on its entry in that registry; the vault's key is used by every
session that is saved or connected.

What makes the parts correct, in one line each: a slot taken is given back
exactly once and a queued file is served; a reported transfer was reported once
and a file reported done is whole; the registry lists living connections only,
and a pane that says connected has one; the log, the windows and the connections
agree; a prompt's answer reaches the attempt that asked, and a pinned key changes
only by auto-accept or by the user's yes to that key; nothing a pane opened outlives it, and what a panel shows is of
the tab it is under; a viewer and its server run one handshake over a
certificate somebody vouched for; a pane is in one cell of one tab until it is
closed or handed over; a pairing code is good once and a revoked phone is on its
way out; the phone never reaps what the desktop opened, and a pane whose phone is
gone is reaped unless the phone had let go of it;
a stored secret is readable after any crash; every reference between the saved
rows resolves, an import repeated adds nothing, and a request changes what its
user asked for.

## 2. How the code is modelled

*Steps.* Node runs one callback at a time, and so does a renderer, so an action
is the code between two suspensions: a handler up to its first `await`, a
continuation, a timer, an event. Everything that happens in it happens in the
action, in the order of the code. Where the order of two callbacks is not fixed
by the platform the model allows both. SQLite calls are synchronous and appear
as assignments.

*Time.* Delays are left out: a timer that runs may fire next, or after anything
else. This over-approximates reconnect delays (1–30 s), the 120 s grace period,
the connect deadlines and the idle lock.

*Data.* Files, panes, windows, keys, links and connection attempts are model
values. Byte counts, screen contents, texts of messages and frame encodings are
left out, except where one decides a branch: a name's blanks matter to an OpenSSH
export, a security type's number to the VNC handshake, so they are there.

*Users.* A user may do anything the interface offers at any moment. Some
promises hold only for a user who waits, and which are meant is a part of the
model, never of a property's wording:

| where | says |
|---|---|
| `PaneClient!Hasty` | windows close, tabs are torn off and Ctrl+R is pressed at any moment, or only once nothing is under way for the pane (`AtRest`); a pane is closed at any moment either way, and a far end hangs up at any moment too, without `Hasty` but for the one between a pane's mount in its new window and its call |
| `Vault!Overlap` | a second `removeMasterPassword` may start while the first awaits |
| `scene.patient` (`PhoneTunnel`, `SshConnect`, `PaneLink`, `RemoteDesktop`) | the user waits for what is under way before the next click |
| `scene.calm` (`Library`) | a window has settled before each gesture; some properties also ask for one window (`Alone`) or tables without twins to begin with (`Tidy`) |
| `scene.calm` (`FileTransfers`) | one drop, double click or deletion at a time |

*Scenes.* The larger modules have a variable `scene` that never changes: a record
drawn from the constant `Scenes` in the initial state, which says what the user
has at hand, what may fail and how much of it there is. One run so covers many
small instances of one system, and a property can name the kind of user or fault
it is about (`scene.patient => …`, `~scene.drops => …`): it is checked in every
scene, and its premise is true in several.

## 3. Modules

Composition is by `EXTENDS`, each arrow a module that adds to another's state:

    Connections <- PaneClient
    TransferGate <- FileTransfers    TransferStream      (what the gate calls streaming)
    PhonePanes
    PhoneTunnel <- PhoneAccess          OneTimeCodes     (refined by PhoneAccess)
    Vault <- VaultIdle
    SshConnect
    PaneLink <- PaneTunnels, PaneRecordings, PaneFiles, PaneStats <- PaneResources
    VncHandshake <- RemoteDesktop
    TabStore <- Snippets <- Workspace
    Database <- KeyVault <- ImportExport <- Library -> Dialogs

### Transfers

**TransferGate** — the gate of `SftpService`. `active`, `waiters` and `limit` are
the fields and the setting; `phase[f]` says where the call for file `f` is
suspended. `AcquireNow`/`AcquireLater` are the two outcomes of the synchronous
head of a call, `ResumeAcquire` the continuation of a resolved waiter,
`OpenFails` and `Leave` the two ways to the `finally` (whatever `runTransfer`
returned), both through `Release`. The limit is read at each acquire only, as in
the code, so it may change under a queue.

**TransferStream** — what happens inside `phase = "streaming"`: `runTransfer` with
`onDone`, `onErr`, `settleCancelled`, and the three buttons. The two Node streams
and `pipe()` are external and modelled by what they do: buffering up to a
high-water mark, stopping and restarting the source, `finish` then `close`, a
destroyed stream reporting a pending read's error or not. `TransferGate!Settle`
is this module's step from `result = "pending"` to any other.

**FileTransfers** — who asks the gate for files: `SftpPanel.transfer` with its
conflict setting and its question (`Drop`, `Listed`, `ResolveName`, `Answers`),
`uploadDir`/`downloadDir`, which walk a folder and then call all of its files at
once (`Starts`), `allSettled` with `summarize` (`Settled`), the double click on a
remote file (`Opens`) and deletions (`Deletes`, `Unlinks`, `Rmdir`). A file's steps
are those of TransferGate, and those that open and settle it also change
`there`, the destination. What a cancelled transfer has written is removed with
best effort (`Removed`): it may stay. A folder has one level; `batch[b].at` is the await its
request is suspended at.

### Connections and panes

**Connections** — `ConnectionManager` and `SpawnService`: `entry`, `owner` and
`log` are the fields of an entry; `conn[b]` is the transport of the backend made
by attempt `b`. `SpawnBegin` is `spawnTerminal` up to its await, `Established`
and `ConnectFails` its continuation, `Exit` a backend's end with `pushExit`,
`KillPanes` kill (of one pane, or of all a closing window owns). Its callers are
arbitrary: what holds of `CSpec` holds whatever the renderer does to the registry.

**PaneClient** — extends Connections with the renderer: a `useTerminal` instance
per pane (`state`, `pending` calls behind a timer or the vault gate, `attempts`,
and the `inbox` of events and replies on their way to it), and windows with
tear-off (`wins`, `view`, `moving`). A reply and the events sent before it keep
their order; those of two attempts mix as the main process sends them. A failed
Telnet connect is one action that rejects the call and reports the exit, because
Node emits `error` and `close` in one turn of its loop. Each tab has one pane.
An SSH session's auto-start tunnels delay the reply of its spawn after its
status event; the model sends both at once. Dropping a torn-off tab back onto
another window has no code (`README.md:65` mentions it) and no action.

**SshConnect** — the inside of `ConnectFails`/`Established` for SSH. `phase[a]`
says what attempt `a` waits for (credentials, the dial, a host-key answer, the
server's authentication, a login question, the shell), `clock` whether
`applyDeadline` runs, `pendCred`/`pendHostKey`/`pendKbi` are the service's three
maps by tab, `modal` the one slot per kind and window of `GlobalPrompts`. A
prompt and its modal are set in different processes; the model takes them
together, the user's answer later. `ServerActs` is everything a server may do
next, the key it presents included. `gateSession` and the unattended checks
decide what a phone's attempt may reach.

**PaneLink**, **PaneTunnels**, **PaneRecordings**, **PaneFiles**, **PaneStats**,
**PaneResources** — what hangs on a connection. PaneLink is the pane's entry, its
SSH client and the active tab; the next four are the services, each with its own
variables; PaneResources composes them: `Spawn` and `Spawned` are `spawnTerminal` with
the auto-started tunnels and, after the last of them has answered, auto-record;
`Kill` is `terminal:kill`, `LinkDrops` a link that ends, with nobody telling the
services. A `RunningTunnel` is an object that lives on after it left the map,
for as long as its start awaits. A run of `usePane` is an object too, which ends
when its `cancelRef` was set or its last await answered.

**VncHandshake**, **RemoteDesktop** — VncHandshake is the pure part of the
bridge: `NeedsBridge`, the choice among the X.509 subtypes, what is offered to
the viewer for it and what the viewer's choice makes of it, on both sides.
RemoteDesktop has a record per mounted effect (`run`), whose `step` is the await
it is in, and per bridged socket (`link`); `targets`, `byTab`, `pending` are the
bridge's maps, `host` the loopback server with its `starting` promise, `rows` and
`logs` the connection log. It covers the VNC bridge, the RDP gateway and the
hand-off to a native client (`probe`, `launch`). Of the calls that wait for the
server, `waiting` keeps the last of each pane: the ones before it get a token too,
but `byTab` and the open row are the last one's.

### The window

**TabStore** — `useTabStore` as operators on the store's value (`store`), each a
function of the source with its name, and the gestures that call them as
actions: the strip, the tab menu with the tab it captured, drags with each
strip's own `dragId`, splits and the shortcuts, dividers with the shares they
captured, tear-off with `sent` and `moved`, exits, and the four ways a window
starts. Sizes are in shares of a whole.

**Snippets** — `runCommands` with the shell it types into: a line is sent, the
wait ends when the tail of the output looks like a prompt and 300 ms of quiet
have passed, or after ten minutes. Modes of a scene: commands that are quiet
without a prompt, output that looks like one, commands beyond ten minutes, a user
who sends two snippets to one pane.

**Workspace** — both together with their properties: tabs close under running
snippets.

### The phone

**PhonePanes** — `MobileService` from the first frame of a socket on: `conn` is
the link as both ends see it (`dead`: the phone is gone, the server has yet to
notice; `closing`: the server has called `ws.close`, which only begins the closing
handshake), `paneId` what a socket shows, `ownPanes` and `orphans` the fields. A
`spawn` frame is two actions, around its await. `ServerStops` leaves the sockets' close
events to come, as the code does, and a socket that is closing is served like an
open one (`Served`: the message handler does not ask). The phone may send any frame
at any time. Two variables are the specification's own and no step reads them:
`left`, the panes the phone let go of, and `shared`, those two sockets showed at once.

**PhoneTunnel**, **PhoneAccess** — the way in, and who gets in. HTTP servers and
`cloudflared` processes are objects, because a call that resumes after an await
may find another one in `this.http` or `this.tunnel` than it began with.
PhoneAccess adds pairing secrets, the device list, sockets up to the handshake
(and served until they are closed, `Heard`),
and `PhonePanel`: its poll, its tick, the code it shows and the reply it waits
for. What a linked phone does with its panes is PhonePanes.

**OneTimeCodes** — the abstract specification of pairing: at most one code is
live, each is issued once, links one phone, and stands fewer than
`PAIR_MAX_ATTEMPTS` wrong requests. PhoneAccess implements it
(`Promise == INSTANCE OneTimeCodes WITH …`, property `CodesAreOneTime`).

### What is kept

**Vault** — `CryptoService` and `planVaultKey`. Durable: `mode` and `mkey`
(`vault_meta`), `under` (the keys the stored secrets are encrypted under), `chain`
(credential store) and `file`. `loadOrCreateKeychainKey` is the actions `Probed`,
`Written` and `Checked`, one per await, for `init()` ("boot") and for every
`removeMasterPassword` (a member of `Calls`), whose continuation re-encrypts.
The credential store may be unreachable at any read, may keep a write it
reported as failed or garble one it reported as done. `Crash` may fall between
any two steps. AES-GCM is exact: what one key sealed no other key opens. `lock()`
zeroes the buffer, which a removal in progress may still hold (`alias`).

**VaultIdle** — extends Vault with the settings page (`status`, what it shows, and
`refresh`, its call under way) and with the ping every call gives the idle timer
before it runs (`ipc/util.ts`). `setMasterPassword` arms no timer in a vault that
had no password; that the page then asks for the status does.

**Database**, **KeyVault**, **ImportExport** — pure: the tables as one value and
the repositories as operators that fail or give the next value, with the foreign
keys, cascades and `ON DELETE` of `schema.ts`; how a key file enters the vault;
seven formats parsed, five written, as what each keeps and loses of a session,
and `commitImport`, row by row, with the database it had reached when a row was
refused.

**Dialogs**, **Library** — the stack of `useUiStore` with `DialogHost`'s one Escape
handler and `Modal`, the unlock dialog that panes share, and everything that
reads or writes the tables from a window: the tree, the session form, copy,
move, delete with its confirmation, the key vault with `applyToSessions`, the
import and export dialog, snippets and tunnels, and `load()` as two requests
whose answers are set together (`loads`).

## 4. Runs

Every property has a mutant in `PROJECT.json`: an operator of the module
(`…Unguarded`, `…KeepsSlot`, …) that breaks the code the way a bug might, and
that TLC then refutes. A property with several parts is one conjunction, named
for what the parts say together; each part is a definition of its own, with its
comment, beside the part of the model it is about. Type invariants are parts of
those conjunctions.

| run | states | property | says |
|---|---|---|---|
| `transfer_gate` | 81,374 | `SlotAccounting` | the counter is the number of calls inside, whatever failed |
| | | `NoLostWakeup` | while a call waits, another holds a slot or is about to take one |
| | | `FifoService` | the queue is served in order |
| | | `BatchesAreSound` | nothing is written over unless the setting or the user said so (`OverwritesAsked`); what is reported as transferred or deleted is so (`ReportedIsSo`) |
| | | `TransfersEnd` | a queued file gets a slot and a drop, a double click or a deletion comes to its end (`BatchEnds`), if nothing stays paused for good |
| `transfer_stream` | 490 | `DoneIsWhole`, `ReportedOnce` | what the transfer list is told is true, and is told once |
| | | `TransferSettles` | a cancelled transfer settles, paused or blocked as it may be; so does one that is not left paused |
| `pane_client` | 266,810 | `ListedIsLive` | the registry lists live connections, each of its own pane, whatever the hastiest user does |
| | | `ConnectingIsBacked`, `ConnectedIsBacked` | what a pane shows has something behind it, or news on its way |
| `pane_client_calm` | 528,716 | `BooksAgree` | with a user who waits, whatever far ends hang up meanwhile (section 2): one connection per pane and every end in the log (Telnet panes run and are excepted), no owner that is gone |
| `phone_panes` | 1.82 M | `DesktopNotReaped` | no desktop pane is ever marked for reaping |
| | | `ReapsTheAbandoned` | a phone pane that runs is on a screen, has its timer, or was let go of by its phone; only a pane two sockets showed at once is both on a screen and timed |
| `vault` | 17,858 | `SecretsReadable` | after a crash at any point the next start reads the key every secret is under |
| | | `MemoryIsDurable` | the key in memory is that key |
| | | `OpenVaultIsTimed` | no order of calls leaves an open vault without its idle timer |
| `phone_access` | 128 k | `CodesAreOneTime` | PhoneAccess implements OneTimeCodes |
| | | `AccessIsOwned` | no `cloudflared` runs that the service has lost, the address shown is the running one's, no server is beyond stop's reach, every socket of a revoked phone is being closed or closed; at rest, the code on the screen is the live one |
| | | `AccessSettles` | "starting" ends, a dead code leaves the screen, a socket introduces itself or is closed, an unlinked phone's is closed |
| `ssh_connect` | 265 k | `PromptsAgree` | the key on the screen is the one the answer is about; what waits for the user is shown; a phone's attempt never waits for the desktop; a clock runs wherever no user does |
| | | `PinsAsAnswered` | a pinned host key changes only by auto-accept or by a user's yes to the pending question for that key, never on a refusal or in any other step; accepting a changed key once keeps the old pin; strict mode pins nothing new |
| | | `AttemptSettles` | an attempt ends, live or failed, or is left in its login, its clock stopped, by a server that says no more |
| `pane_resources` | 241 k | `TunnelsAgree` | every open port is of a tunnel in the list, none outlives its pane, an active one is on a live link |
| | | `RecordingsAgree` | an open row is a recording under way of a pane that is there; the button tells |
| | | `ShownIsTabs` | listing and numbers are of the tab's machine; one channel per connection, of the pane's own |
| | | `ShownArrives` | and they come |
| `remote_desktop` | 58 k | `NothingIsLeft` | tokens, log rows, prompts, viewers and the gateway are of a pane's present attempt |
| | | `HandshakeIsSound` | TLS only over a certificate vouched for; both sides run one authentication |
| | | `ConnectSettles` | a pane does not connect for ever |
| `workspace` | 142 k | `LayoutIsSound` | the grid shows each pane once, within 2 × 3, and its sizes fill it, whatever is dragged while it changes |
| | | `SidesShowTabs` | the focus is on an open tab that is on screen; no side of a split is blank |
| | | `PanesAccounted` | a pane goes by being closed or handed over, never both or neither; a split adds none beyond 2 × 2 |
| | | `SnippetRuns` | a snippet's lines run in order, none ahead of its prompt, and it ends |
| `library` | 158 k | `TablesAreSound` | every reference resolves, no cycles, no key twice |
| | | `ImportsAreKnown` | a second import of a document changes nothing; the import of an own export adds no session whose identity its format carries (`Carries`); a calm user's only window, with no session twice to begin with and no native backup, never gets a twin |
| | | `ListIsWhole` | a calm user's only window, once settled, shows what the database holds, as long as no native backup is imported; and the only window of any user shows all of its list in the tree |
| | | `UnlockAnswers` | whoever waits for the vault has a dialog that can answer, and only then |
| | | `RequestsDoAsAsked` | deletions are the confirmed ones; an edit keeps what was not touched; an import links the keys its preview announced; an assignment reaches the sessions picked, and ends |

## 5. Bounds

*Core.* The gate's interesting cases need one holder, one woken call, one
queued call and one newcomer: four files, and limits that can go down below and
up above the number of holders. *FileTransfers*: two requests, each with a folder
of one or two files and single files, over four names, of which two exist; a
folder of two files is what fills a gate of one slot. A stream needs more chunks than the buffer
holds, so that it fills, drains and fills again. Two attempts are enough for a
pane to have an old and a new connection; `Backends` bounds how many are ever
made, so a behaviour stops when they are used up. Two windows are what tear-off
needs. Three sockets let one die, its successor attach, and another phone
mirror. Four keys are the vault's, a leftover in the credential store, the next
master key and the next random one.

*SshConnect*: two attempts, on one pane or two, over at most one jump host (the
code loops over the chain: one hop before the target shows a hop's end and the
next one's begin), two keys per host so that one can change, `MaxAsks = 1` login
question per attempt. *PhoneAccess*: two servers, processes, codes and devices
(an old and a new), one socket, two wrong attempts. *PaneResources*: two panes,
two links (one of them after a drop), two tunnels of which one remote, two
recordings, two runs of `usePane`; a user starts tunnels by hand only where
nothing is started automatically, and the scenes with a hasty file panel or with
auto-start before auto-record have one pane, the latter a patient user's (that
nobody has to be patient is proved). *RemoteDesktop*: three attempts of
one pane or two panes; every kind of server with one attempt, since the
handshake has no other memory than the pinned certificate.
*Workspace*: up to four tabs without splits, seven panes in one tab (one more
than the limit), five over two tabs; a drag is one step. *Snippets*: two jobs of
two lines. *Library*: up to three rows a table (`rows` bounds the ids), two
loads under way, one change of a field per dialog, a prompt answered in one
step, one `applyToSessions` at a time; fifteen scenes give the user the gestures
that meet each other.

*Symmetry* is declared in runs without liveness only, over attempts, sockets and
keys. *Deadlock* is checked where the system cannot stop (`transfer_gate`,
`vault`); the runs whose supplies run out say `CHECK_DEADLOCK FALSE`.

## 6. Fairness

The user owes nothing unless a scene says he answers; a server, a phone and a
process owe nothing but what a timer of the code enforces.

- `TransferGate!FairSpec`: continuations run (`WF` of `CallStep`: Node runs every
  resolved promise), and a transfer that is again and again not paused ends or
  fails (`SF` of `Settle`; `TransferStream` is where that is checked). A transfer
  left paused keeps its slot for good, and `TransfersEnd` and `UnpausedSettles`
  say so in their premise. The link of a transfer is assumed to fail or to make
  progress: `SshService` always sets ssh2's keepalive (30 s and three misses
  unless the session says otherwise), which closes a connection whose peer is
  silent.
- `FileTransfers!FSpec`: the same, a call of `listDir`, `stat` or `unlink` is
  answered or fails, and the user answers a question about a file.
- `TransferStream!StreamFairSpec`: what the streams have pending is delivered.
- `PhoneAccess`: timers fire (handshake, 30 s of a tunnel, expiry, the panel's
  tick), sockets that are being closed close (ws gives a peer 30 s to answer), `listen` answers, a download ends,
  status pushes and replies arrive. A process that runs need never print.
- `SshConnect`: deadlines fire, a user answers what is on the screen, and a shell
  that was asked for comes or its connection ends (ssh2's keepalive, which starts
  after the login). Nothing is assumed of a server during the login: one that has
  stopped the clock by a banner or a question may say no more, and `AttemptSettles`
  names that outcome (`LeftAlone`, section 8).
- `PaneResources`: replies come, the poller ticks, its 12 s end; `SF` of
  `StatsFetched`: a host that can answer in time does so now and then.
- `RemoteDesktop`: the event loops run, `listen` answers, a server says something
  or goes, the user answers a certificate. Neither `rfb.js` nor the bridge's
  reads have a timeout, so a silent server is left out of `ConnectSettles`.
- `Workspace`: the two timers of a wait fire, a command ends.
- `Library`: requests are answered and the answers taken; `SF` of `AssignNext`,
  because other requests of the window come in between.

The remaining specifications have no liveness property and no fairness.

## 7. Proofs

All with TLAPS, for every number of files, panes, windows, attempts, sockets and
keys, from the named assumptions of the modules only (constants are disjoint,
limits are positive, …) and the premises a row names.

| theorem | says | argument |
|---|---|---|
| `ConnectionProofs!TypeCorrect`, `SlotsAccounted`, `WakeupNeverLost` | types, `SlotAccounting` and `NoLostWakeup` are invariants | inductive invariant `IInv`: types, `active = Cardinality(Holders)`, the queue holds exactly the waiting calls once each, and a non-empty queue has a holder or a woken call. `active \in Nat` is not inductive alone: `Release` needs the accounting, the accounting needs that a queued call is not a holder. Lemmas say how `Holders` grows or shrinks by one |
| `ConnectionProofs!QueueAgrees`, `ServedInOrder` | `QueueIsWaiting` and `FifoService` | both from `IInv`: a queue without repetitions, of which only the head is ever taken, keeps the order of those left |
| `ConnectionProofs!DoneAlwaysWhole`, `CancelAlwaysWins`, `AlwaysReportedOnce` | what the transfer list is told is true and is told once | `SInv` says what a stream's state implies: a sink that was ended has been handed every chunk, only a cancel destroys the sink of a listed transfer, an entry leaves the map in the step that sets the result, and no transfer that is over leaves its source running |
| `ConnectionProofs!StreamKeepsToGate` | TransferStream is the inside of the gate's `phase = "streaming"`: `Gate` maps its state to the gate's | each of its steps is a pause, a resume, the one settling, or nothing the gate sees |
| `ConnectionProofs!BatchesKeepSlots`, `BatchesServedInOrder` | the same of FileTransfers: drops, double clicks, deletions and cancellations use the gate as it is specified | every step of FileTransfers is one of the gate's or leaves it alone, so `IInv` is inductive there too |
| `ConnectionProofs!BatchesAlwaysSound` | nothing is written over unasked, and what is reported as done is done, though a cancelled file's rest may stay | `FInv`, request by request: what became of a file agrees with where its call is suspended (`OutcomeOf`), nothing was done for an entry whose turn has not come (`NotYet`), each file of the present entry has its place (`Placed`), and a drop that could list the destination knows every name in it (`KnowsTaken`), so that what lies under the name it writes as is its own (`WasFree`). The last two hold while one request runs at a time (`scene.calm`), which is what the properties say, too |
| `ConnectionProofs!RegistryInductive`, `ListedAlwaysLive` | the registry lists live connections of its own pane, with an open log row, under any callers | `CInv` adds to `ListedIsLive` the types and that an attempt that has begun has a pane |
| `ConnectionProofs!ClientListedAlwaysLive` | and so with the renderer as the caller, however hasty its user | every action of PaneClient is one of Connections' or leaves the registry alone, by definition (the lemma `ClientImplementsRegistry`) |
| `ConnectionProofs!ConnectingAlwaysBacked`, `ConnectedAlwaysBacked`, `ClientTypeCorrect` | a pane never shows "connecting" or "connected" with nothing behind it | `ShownInv`. What a pane shows is stale while messages are on their way, so the invariant promises something of the *last* message: a last "connecting" has an attempt, a last "connected" or "ok" an entry or an exit to come, and "ok" follows "connected", whose status it does not set itself. A step does one of four things to a pane: nothing it sees, unmount it, send to it, let it take its oldest message; one lemma each |
| `ConnectionProofs!BooksAlwaysAgree` | for a user who waits (`~Hasty`), while panes are closed and far ends hang up meanwhile: one connection per pane and an ended row for each closed one, Telnet panes excepted, and an owner that is open | `CalmInv`: at most one thing leads to a pane's next connection (a call to be made, an attempt, or one message that may make it retry), and none does while it has one (`OneAhead`); a pane is in one open window or on its way to one (`Housed`). Telnet panes may be among the panes, but these two claims are not made of them: a Telnet connect that fails is reported twice (section 8), and with two retries TLC finds two attempts of one pane |
| `PhoneProofs!DesktopNeverReaped`, `ReapingSparesDesktop` | no desktop pane is ever under a reap timer or in `ownPanes`; so neither the grace timer nor `stop()` ends one | `PInv` adds that only phone panes are ever spawning |
| `PhoneProofs!AbandonedAlwaysReaped` | for a phone that sends any frames: a phone pane that runs is on a screen, timed, or was let go of; only one that two sockets showed at once is both on a screen and timed | `RInv` adds to the two parts that a live phone pane is in `ownPanes`, so the cleanup of its last socket times it, and that an unused one is nowhere (`Known`) |
| `LibraryProofs!SecretsAlwaysReadable`, `MemoryAlwaysDurable` | with one removal at a time, at every moment all secrets are encrypted under the key the next start reads, and the key in memory is that key | `VInv` adds that at most one load is under way (`OneLoad`) and that a load that writes the credential store has its key backed (`WriteBacked`): by the key file, by the master password still in force, or by there being no secret yet. Without the latter a crash during `Written` would not be covered |
| `LibraryProofs!OpenVaultAlwaysTimed` | with one removal at a time, an open vault of master mode with a timeout has its idle timer, or the page is about to start it | over `VInv`: a load that goes on either ends in keychain mode, where no timer is due, or changes neither the mode nor the key in memory (`LoadOpensKeychain`) |
| `LibraryProofs!UnlockAlwaysAnswers` | for a calm user who opens no dialog by the keyboard over another: a window whose panes wait for the vault has one unlock dialog, unanswered, and no other window has any | `AskInv`: an unlock dialog is the top of its stack or there is none (`CalmStack`). What could take it away unanswered is a load that closes a dialog when it is done: such a load is the only thing under way in its window, no assignment runs, and the dialog it found on top is its own (`CalmLoads`); a pane asks only where nothing is under way. One lemma per way a gesture treats the stack |
| `LibraryProofs!TablesAlwaysSound` | whatever is edited, deleted, imported, scanned and assigned, from any number of windows, with files and documents of any length: every reference of the tables leads to a row, the groups are a tree, a snippet is global or owned, no key that can be parsed is in twice | `LInv`: the tables are `GoodTables`, and whatever may be sent to them later fits (`ViewsGood`, `LoadsGood`, `StacksGood`, `DiskGood`), since a dialog writes what it was filled with: a form that edits a session does not make it jump through itself, a parsed document is rows of the right kind, a backup holds rows the tables had. A stale reference is not excluded by that: it is refused by the foreign keys when it is sent. One lemma per operator of the repositories (`...Good`), one per format (`...Typed`), one per fold, one per gesture (`...Fits`) |
| `LibraryProofs!OnlyConfirmedDeletes` | `DeletesAsConfirmed` of `RequestsDoAsAsked`: a session, a group or a key goes only because its own deletion was confirmed, or that of a group it lies under | over `LInv`: every step is one of nine kinds (`StepKinds`), and of those only a confirmation takes a row (`StepTakes`). What an import, a scan or an edit does to the tables is `Grows`, carried through each repository operator and along the folds |
| `LibraryProofs!ListAlwaysWhole` | unless a native backup is imported, a calm user's only window, once settled, shows the sessions and groups of the database, a deleted key read as none; and with one window every session hangs in the tree, however the user behaves | `WInv` adds to `LInv` what a window is owed (`InSync`): at most one load is under way, that of the assignment if there is one; what it has read is still what the tables hold; and when none is, the list is theirs. A request that succeeds sends a load, a refused one leaves the tables alone (backups excepted), and one that adds keys, snippets or tunnels leaves the list alone. A key's deletion reads nothing again, so the list is compared as it is shown (`ShownWithout`), and no new key takes the id of one the list still names (`Grows`). `TreesFit` needs no calm user: the second answer of a load finds the tables as the first did, since the only window has sent nothing in between (`Requested`) |
| `LibraryProofs!ImportsAlwaysKnown` | importing a document again changes nothing; an export is recognised when it is imported into the same tables; and a calm user with one window, no session twice to begin with and no native backup gets no twin | over `LInv`, in three parts. *Twice*: what the first import leaves is found by the second, whose fold runs over tables that only grew (`Extends`): the keys it took are held (`Held`), the folders of each path are there (`Laid`), and so is each session (`InPlace`), so no step of the second adds a row (`ImportsRepeat`). *Export*: the rows a parser reads from what was written are known, name by name, entry by entry (`Recognised`), and for an OpenSSH config block by block, since a session is several lines there and the parser keeps the host it is reading (`BlockRead`, `LinesOf`); one lemma per format. *Twins*: a commit compares with the sessions it found and not with those it made, so a document must have no twins itself (`OneOfEach`), and an edit or a copy compares with the list of its window, which is what the tables hold because the window has settled (`WInv`) |
| `SshConnectProofs!PromptsAlwaysAgree` | who is asked while a session connects | four parts. Attempts: the panes marked unattended are those of phone attempts on their way, a patient user has one attempt under way. Prompts: a pending one is of its tab, and is on the screen of the window the tab is in |
| `SshConnectProofs!PinsAlwaysAsAnswered` | a pinned key changes only by auto-accept or by a yes to the pending question for that key; strict mode pins nothing new | pins: with one pane, a host unknown when its question was asked is unknown still when it is answered |
| `PhoneProofs!AccessAlwaysOwned` | the way in is the service's own; every socket of who was revoked is being closed or closed; the code on a screen at rest is the live one | for a patient user the panel's calls exclude each other (`OneCall`), so what resumes after an await finds the server and the tunnel it began with; of the panel's two copies of the code the reply on its way counts, and else the one on the screen (`CodeIsPanels`) |
| `PhoneProofs!CodesAlwaysOneTime` | PhoneAccess implements OneTimeCodes | step by step; a pairing that links one phone needs that no device was linked by the live code yet |
| `PaneResourcesProofs!TunnelsAlwaysAgree`, `RecordingsAlwaysAgree`, `ShownAlwaysTabs` | the properties of tunnels, recordings, listing and numbers | five parts, one per module that PaneResources composes; each service's part needs its own and the links', and recordings that an auto-start loop is of an open pane. Tunnels: what a patient user waits for is in the map, on the link its pane has. Recordings: the last reply on its way, and not the first, is what the button will show. Files: a run that waits for a channel asked the client its pane has. Numbers: a fetch that is not stale is of the pane in front |
| `RemoteDesktopProofs!NothingAlwaysLeft` | what is open of a remote desktop is its pane's present attempt's | what a pane shows is where its present attempt is (`Attempts`); of the calls that wait for the server the last is the present one's, and with VNC there is no token until the server is up (`Hosted`, `Tokens`); a token of the present attempt is the one `byTab` knows, so `close` finds it; a link needs a viewer, and with VNC the token (`Links`), so that a viewer which outlives its pane is refused |
| `RemoteDesktopProofs!HandshakeAlwaysSound` | both ends run one authentication; TLS only over a certificate vouched for | link by link (`LinkIsSound`): no subtype before VeNCrypt, one the bridge can take after it, past the certificate somebody vouched for it; the table of subtypes names what the server runs inside (`InnerIsServers`) |
| `WorkspaceProofs!LayoutAlwaysSound` | each tab's grid shows every pane of it in one cell, within two rows, three columns and six panes, and its shares fill it | `TabInv`: the strip names each tab once and no pane twice, and each tab in it is `Sound`, so a step that changes one tab, brings one, drops some, or moves some leaves a strip of sound tabs; one lemma per way, and one per operator of the grid (a cell beside, a row below, a cell taken out) and of the sizes (halves, thirds, a divider dragged). A held divider keeps the sizes it began with, which fill a tab (`DividerOK`), and gives them to whatever grid the tab has by then; stored sizes always fill (`Stored`), and those that do not match the grid are not used (`Shares`) |
| `WorkspaceProofs!SidesAlwaysShowTabs` | the focus is on an open tab its side shows; both sides of a split show a tab of their own | `StoreOK`: what a side is remembered to show may be gone while there is one side only, so `Focus` speaks of the focused tab's side and `Named` of both sides of a split. A lost `dragend` may move a tab that the strip remembers and leave a side nameless: `Named` is claimed without it, as the property does |
| `WorkspaceProofs!PanesAlwaysAccounted` | a pane that left was closed or handed over; a split tab strip adds no pane beyond two by two | the panes of the store after a step are those before it less what was killed or handed over plus the fresh ones (`Kept`); the menu still has the tab it opened on, unless a key or an exit came under it (`MenuOK`); `Budget` is proved of every step beside the invariant |
| `WorkspaceProofs!LinesAlwaysInOrder` | `LinesInOrder` and `NothingTypedAhead` of `SnippetRuns` | what a terminal was given is ordered by job and below the job's `next` (`ShellsOK`); with calm snippets a terminal has one active job and is idle when the job is due (`CalmOK`) |

`ConnectionProofs!QueueAgrees`, `ConnectionProofs!CancelAlwaysWins`,
`ConnectionProofs!ListedAlwaysLive` and the two `TypeCorrect`s state facts no run
spends a property on, because a theorem says them for every instance.

What the proofs assume of constants is named in the modules, and TLC evaluates it
in every run. Most of it is that a name is not another's: `None` is no record, no
run, no run's record, and `NoKey` no key. Beyond that: a phone's pane id is new (`SceneAssumption` of
SshConnect: `MobileService.ts:518` makes a UUID), the bound
on questions is a number (`MaxAsksAssumption`), a scene of PhoneAccess uses codes
and sockets there are (`ScopeAssumption`), the trees and names of FileTransfers are trees
and names (`TreeAssumption`, `NamesAssumption`: no file twice in the requests,
since each has its own call). A scene of Workspace is any user, budget and situation
(`ScenesAssumption`); a snippet that is sent line by line has two lines or more
and terminals are numbered like panes (`SnippetAssumption`). In the library a
new session's defaults are a row (`ColumnsAssumption`), each path has a file name
and each name a place in `~/.ssh` (`PathsAssumption`), and a user begins with
sound tables and a finite disk, and picks documents of the kinds there are
(`ScenesAssumption`; a document may be of any length).

*Folds.* Imports, scans and folder paths are folds over what a document or a
directory holds, and the library's induction theorems, which take a predicate as
a parameter, are out of reach. `ImportExportProofs`, which holds what can be said of
any tables and documents and no state of the library, goes round them: every fold takes the step
`StepOf` names, a fold is the last link of a chain of accumulators
(`FoldIsChain`), and what holds of the base and goes from each link to the next
holds of the last because there is no least position at which it fails (`Least`,
`Climb`). The predicate is a set of positions there, so the lemmas need no
operator as a parameter. `Under`, the groups below a group, is a recursive
function over the ids, which exists because a group lies under an older one
(`InsideExists`).

*Only model-checked*: liveness, which the prover does not do under fairness
(`SnippetEnds`, a part of `SnippetRuns`, and `AssignEnds`, a part of
`RequestsDoAsAsked`, among them), and the other parts of `RequestsDoAsAsked` but
`DeletesAsConfirmed`.

## 8. What the models show of the code

The properties hold of the code as it is, under the premises they name. Behind a
premise there is usually something the code does otherwise; here is what the
models reach when it is taken away, or what was met in modelling. None of it
is a run of its own. `README.md:n` here is the repository's README.

*Documents and code.*
- `README.md:150` (pausing a transfer): `pauseFn` (`SftpService.ts:301`) pauses
  the source; when `pipe()` waits for the sink to drain, the drain resumes it, and
  the transfer runs on, shown as paused.
- `main.ts:62-63` says a closing window's connections are killed since nothing
  would close them; a connect that is under way registers afterwards and nobody
  does (`OwnerIsOpen` with `Hasty`).
- `README.md:198` and `MobileService.ts:611-612`: a phone pane survives 120 s without
  a socket, then it is reaped. The late cleanup of a dead socket starts that timer
  after a reattach, and a pane on a screen is reaped (`shared` in
  `ShownIsNotReaped`). A pane left with the page's Back (`detach`) or for another
  pane, or whose spawn is answered when its socket has gone, is never reaped
  (`left` in `AbandonedIsReaped`).
- `README.md:202`: a phone "unlinked instantly". `revoke` calls `ws.close`
  (`MobileService.ts:117`), which begins the closing handshake, and the message
  handler (`:496`) asks neither for `readyState` nor for the device: a phone that
  does not answer the close is served until ws gives up (30 s). So is one of a
  server that stops, which may leave a pane running there (`RevokedIsOut` and
  `RevokedLeaves` say what does hold).
- `vaultKeyPlan.ts:11` promises to protect data that cannot be recovered; two
  overlapping removals of the master password may leave the vault encrypted under
  one key and the key file holding another (`SecretsReadable` with `Overlap`).
- `README.md:121` on changed host keys: with strictness `auto-accept` a changed key
  is re-pinned silently; and "Accept once" pins an unknown host for good.
- `CloudflaredService.ts:108-110`: the binary is renamed into place before its
  version is checked. `MobileService.ts:187`: a burned secret is replaced at the
  panel's tick, not at once.
- `useTabStore.ts:267`: each strip has its own drag, so a drop on the other strip
  joins its group and does not take the place it was dropped at.
- The MobaXterm parser reads its own export's type 0 as SSH whatever it was
  (`ImportExportService.ts:551` against `:324`).

*Connections.* A failed Telnet connect is handled twice, as a rejected spawn and
as an exit: two reconnect timers run, both may connect, and the exit of the first
drops the registry entry of the second, alive (`ConnectionManager.ts:181`). Two
attempts of one pane leave the first's log row open. The old window of a
torn-off tab closing before the new one has mounted it kills what it handed over,
so no property promises that a tear-off keeps its connection.
Two windows asking about one unknown host: "Accept once" in the second replaces
the pin of the first unsaid. A prompt for a pane that is closed is dropped. The
client of a jump host is never ended, nor that of a target whose shell fails;
`exec()` to a host that prompts hangs; a server that closes cleanly, or says
nothing more, after the clock was stopped leaves its attempt hanging
(`SshService.ts:273-274` hears `ready` and `error` only; `LeftAlone`).

*Pane services.* A tunnel stopped while its start awaits leaves a listener no map
holds; after a drop and a reconnect a tunnel stays "active" over the dead client,
and the kept SFTP channel makes the panel fail until the pane is closed.
`usePane`'s one `cancelRef` lets the old tab's listing show under the new tab. An
auto-record does not light the button; one that comes after the pane was closed
leaves an open row; the cap deletes files and not rows, and may take one that is
being written. In `ipc/stats.ts` every caller shares one in-flight promise, the
last value is served again on an error, and the baseline of the remote CPU is a
file per user of the remote host.

*Remote desktop.* `disposed` is not looked at after the RDP viewer was imported,
and RDP tokens are not revoked: a closed pane may leave a session running
(`NoGhosts` is for VNC, or for an RDP user who waits). Closing while the first
bridge starts leaves a token and an open log row. A `listen` that failed once
fails every later VNC pane. A changed guacd replaces the gateway under other
panes. An "always" for a certificate overwrites an SSH pin of the same host and
port. Closing a whole window leaves its VNC tokens and log rows.

*The window.* A lost `dragend` may leave the right side blank (`EachSideShows`
excludes it). A tab menu acts on the tab it was opened for, as it was: with keys
or exits under it, a tab may be sent to a new window and stay, and "Close tabs to
the right" of a tab that is gone closes all. A tab wider than 2 × 2 stays so in a
split. Two snippets on one pane type ahead of each other's prompts. A torn-off
window that closes before it adopted its tab may overwrite the saved tabs.

*The phone.* The late line of a killed `cloudflared` becomes the address on show
and disarms the next start's timer, so "Starting…" may stay. A secret of a panel
that was closed is good for the rest of its two minutes. In the page that runs on the phone
(`resources/mobile/index.html`), `ws`, `sessionKey` and the retry timer are
globals of all sockets' handlers: a reconnect closes the old socket and opens the
next, and the old one's late `onclose` clears the new one's key and schedules a
third; its socket stays open at the server.

*Files.* A double click on a remote file writes over a local file of the same
name without asking (`SftpPanel.tsx:101`). A folder of this machine that cannot
be read is listed as empty (`ipc/sftp.ts:30`), so nothing in it seems taken
(`OverwritesAsked` without `readable`); a remote one that cannot be listed ends a
drop without a word. Two drops that overlap each see the destination as it was
before the other. A single file that was cancelled is reported as an error, in a
folder it is forgiven.

*The vault.* `setLockTimeout(0)` leaves a running idle timer, which locks once
more. *The gate.* A call that arrives between `release()` and the continuation it
woke makes one more transfer run than `transfer.maxConcurrent`.

*The library.* Forms save whole rows, filled when they were opened: a lost
update. `MoveToGroup`, `applyToSessions` and the credential picker send the whole
row too. Other windows never learn of a change, and two of them may each hide a
session in a group the other deleted. A list is two requests: what changes
between them is half shown until the next. Deleting a key does not reload the
sessions, so the next edit of one that used it is refused. A native backup is
imported with its raw ids: it fails half-way or links unrelated rows. Two equal
entries of one file are both made. An encrypted key is recognised by its name. A
session that others jump through cannot be deleted, without a word. A second
click on Save makes a twin. The close of a save, the Escape key and a
confirmation's Enter act on whatever dialog is on top: an unlock dialog may go
without an answer and its panes wait for ever (`DialogHost.tsx:22`,
`vaultGuard.ts:9`). Escape in a dialog that a shortcut opened over an unlock
dialog answers the one below, too, which stays on the screen and answers nobody
(hence the premises of `UnlockAnswers`).

## 9. Plan

Written: everything in section 3. What is left is the phone page as a client of
PhonePanes, and of the library's proofs `EditKeepsOthers` and `AssignIsPicked`,
which need of a dialog what `WInv` says of a list.

## 10. What stays out

- **Phone page** (`resources/mobile/index.html`): PhonePanes and PhoneAccess leave
  the phone free to send any frame at any time, which covers what the page does;
  its own screens are not modelled. What was read there is in section 8.
- **Three failures**: a refusal by a handler of the VNC bridge while its server is
  up (`RemoteDesktop!OpenVnc` has none), a failing import of the viewer
  (`Imported`), and `spawn()` of `cloudflared` throwing at once
  (`MobileService.ts:681`), which would leave `tunnelStarting` set.
- **Updates, clipboard, system calls, themes, settings pages, layout**: no state
  other parts rely on, or presentation.
- **Terminal contents**: the emulator, scrollback, resizing, Telnet option
  negotiation, the bytes of forwarded connections, SOCKS, VNC and RDP.
- **Renaming, permissions and new folders in the file panel, archives**: one call
  each, without state of their own. A folder of FileTransfers has one level.
- **How statistics are computed**, the `.cast` text of a recording, the wording of
  failures, the arguments of native clients.
- **Migrations, key bindings, macros, quick commands**: lists that are read and
  written as a whole.
- **Whole windows closing under a remote desktop pane**: ipc/remote has no handler
  for it (section 8).
- **External**: the cryptographic primitives, ssh2, node-pty, serialport, noVNC,
  guacd, cloudflared, SQLite, Node's streams and the operating system's
  credential store. The modules say what the code expects of them.
