---------------------------- MODULE PhoneAccess -----------------------------
(***************************************************************************)
(* Phone access, who gets in: MobileService's pairing codes, linked devices*)
(* and websockets up to the handshake, composed with its server and tunnel *)
(* (PhoneTunnel) and with the panel that shows the code (PhonePanel). What *)
(* a phone does with its panes is PhonePanes.                              *)
(***************************************************************************)
EXTENDS PhoneTunnel

CONSTANTS
  Codes,       (* pairing secrets, each minted once                        *)
  Devices,     (* ids of linked phones, each used once                     *)
  Sockets,     (* websockets: bounds how many connections phones make      *)
  MaxTries     (* PAIR_MAX_ATTEMPTS                                        *)

ASSUME CodesAssumption == None \notin Codes \cup Devices /\ MaxTries \in Nat \ {0}
ASSUME ScopeAssumption ==
  \A s \in Scenarios : s.codes \subseteq Codes /\ s.socks \subseteq Sockets

VARIABLES
  pairing,     (* this.pairing: its secret (or None) and its attempts      *)
  minted,      (* secrets made so far                                      *)
  expired,     (* secrets whose two minutes are over                       *)
  devices,     (* the stored devices                                       *)
  linkedBy,    (* the secret each device was linked with                   *)
  sock,        (* each websocket: state, device id and server              *)
  panel        (* PhonePanel: open, pair, the reply it waits for,          *)
               (* justLinked, prevDeviceCount, the last status, and whether*)
               (* toggleServer is about to call stop                       *)

phones == <<pairing, minted, expired, devices, linkedBy, sock>>
vars   == <<way, phones, panel>>

NoCode == [secret |-> None, tries |-> 0]
Closed0 == [open |-> FALSE, pair |-> None, reply |-> None, justLinked |-> FALSE,
            prev |-> None, running |-> FALSE, stopping |-> FALSE]

Init ==
  /\ TunnelInit
  /\ pairing = NoCode /\ minted = {} /\ expired = {}
  /\ devices = {} /\ linkedBy = [d \in Devices |-> None]
  /\ sock = [w \in Sockets |-> [st |-> "new", dev |-> None, srv |-> None]]
  /\ panel = Closed0

-----------------------------------------------------------------------------
(* Pairing.                                                                *)

Fresh == scene.codes \ minted

(* newPairing: any code before it is dead. The panel waits for the reply.  *)
Mint(p) ==
  LET c == Any(Fresh)
  IN /\ minted' = minted \cup {c}
     /\ pairing' = [secret |-> c, tries |-> 0]
     /\ panel' = [p EXCEPT !.reply = c]

(* generateCode, unless a mint is under way. (With no secret left nothing  *)
(* is minted: the bound Codes.)                                            *)
Generate(p) ==
  IF p.reply = None /\ Fresh # {} THEN Mint(p)
  ELSE panel' = p /\ UNCHANGED <<minted, pairing>>

Dead(c) == c \in expired

(* Two minutes have passed. (Of no matter for a code that is forgotten.)   *)
Expire(c) ==
  /\ c \in minted \ expired
  /\ c \in {pairing.secret, panel.pair, panel.reply}
  /\ expired' = expired \cup {c}
  /\ UNCHANGED <<way, pairing, minted, devices, linkedBy, sock, panel>>

(* redeemPairing: what becomes of the pairing state.                       *)
Verdict(ok) ==
  IF pairing.secret = None \/ Dead(pairing.secret) \/ ok THEN NoCode
  ELSE IF pairing.tries + 1 >= MaxTries THEN NoCode
  ELSE [pairing EXCEPT !.tries = @ + 1]

Unlinked == {d \in Devices : linkedBy[d] = None}

Serving == \E s \in Servers : srv[s] = "listening"

(* Mutant of Redeem: the secret is kept for the next phone.                *)
RedeemKeeps(c) ==
  /\ Serving /\ c = pairing.secret /\ ~Dead(c)
  /\ Unlinked # {}
  /\ devices' = devices \cup {Any(Unlinked)}
  /\ linkedBy' = [linkedBy EXCEPT ![Any(Unlinked)] = c]
  /\ UNCHANGED <<pairing, way, minted, expired, sock, panel>>

(* redeemPair, of a request sealed under the live secret.                  *)
Redeem(c) ==
  /\ Serving /\ c = pairing.secret /\ ~Dead(c)
  /\ Unlinked # {}
  /\ devices' = devices \cup {Any(Unlinked)}
  /\ linkedBy' = [linkedBy EXCEPT ![Any(Unlinked)] = c]
  /\ pairing' = Verdict(TRUE)
  /\ UNCHANGED <<way, minted, expired, sock, panel>>

(* redeemPair, of any other: an old code, or one that never was.           *)
Reject ==
  /\ Serving /\ pairing.secret # None /\ scene.socks # {}
  /\ pairing' = Verdict(FALSE)
  /\ UNCHANGED <<way, minted, expired, devices, linkedBy, sock, panel>>

(* Mutant of Revoke: the device is only struck from the list.              *)
RevokeLists(d) ==
  /\ MayPress /\ d \in devices
  /\ devices' = devices \ {d}
  /\ UNCHANGED <<way, pairing, minted, expired, linkedBy, sock, panel>>

(* revoke: ws.close, which only begins the closing handshake, on the       *)
(* device's sockets of the server that is known now.                       *)
Revoke(d) ==
  /\ MayPress /\ d \in devices
  /\ devices' = devices \ {d}
  /\ sock' = [w \in Sockets |->
                IF http # None /\ sock[w].srv = http /\ sock[w].dev = d /\ sock[w].st = "open"
                THEN [sock[w] EXCEPT !.st = "closing"] ELSE sock[w]]
  /\ UNCHANGED <<way, pairing, minted, expired, linkedBy, panel>>

-----------------------------------------------------------------------------
(* Sockets, up to the handshake; with a device from then on. The message   *)
(* handler asks neither whether the socket is being closed nor whether the *)
(* device is still linked: until a socket is closed its frames are served. *)

SetSock(w, st, d) ==
  /\ sock' = [sock EXCEPT ![w].st = st, ![w].dev = d]
  /\ UNCHANGED <<way, pairing, minted, expired, devices, linkedBy, panel>>

Connect(w) ==
  \E s \in Servers :
    /\ w \in scene.socks /\ srv[s] = "listening" /\ sock[w].st = "new"
    /\ sock' = [sock EXCEPT ![w] = [st |-> "open", dev |-> None, srv |-> s]]
    /\ UNCHANGED <<way, pairing, minted, expired, devices, linkedBy, panel>>

(* A socket whose frames are handled; one that has sent no first frame.    *)
Heard(w) == sock[w].st \in {"open", "closing"}
Unknown(w) == sock[w].dev = None

(* handshake: the first frame opens under a stored device's key.           *)
Handshake(w, d) ==
  Heard(w) /\ Unknown(w) /\ d \in devices /\ SetSock(w, sock[w].st, d)

(* A first frame that no key opens ('not linked').                         *)
NotLinked(w) == sock[w].st = "open" /\ Unknown(w) /\ SetSock(w, "closing", None)

HandshakeTimeout(w) == sock[w].st = "open" /\ Unknown(w) /\ SetSock(w, "closing", None)

(* The phone answers the close, or ws gives it up.                         *)
SocketCloses(w) == sock[w].st = "closing" /\ SetSock(w, "closed", sock[w].dev)

PhoneLeaves(w) == sock[w].st = "open" /\ SetSock(w, "closed", sock[w].dev)

OnServer(s) == {w \in Sockets : sock[w].srv = s /\ Heard(w)}

-----------------------------------------------------------------------------
(* The panel. A call's request is handled before anything the renderer     *)
(* sends later; its reply and the status pushes come when they come.       *)

Running == http # None

(* stop closes the known server's sockets.                                 *)
CloseSockets ==
  sock' = [w \in Sockets |->
             IF http # None /\ sock[w].srv = http /\ sock[w].st = "open"
             THEN [sock[w] EXCEPT !.st = "closing"] ELSE sock[w]]

Count == Cardinality(devices)

(* The effects that follow a render: no code without a server, and with one*)
(* always a code, but for the moment after a phone was linked.             *)
Effects(p) ==
  IF ~p.running THEN panel' = [p EXCEPT !.pair = None] /\ UNCHANGED <<minted, pairing>>
  ELSE IF p.pair = None /\ ~p.justLinked THEN Generate(p)
  ELSE panel' = p /\ UNCHANGED <<minted, pairing>>

(* The code whose QR is on the screen (or behind the blur).                *)
OnScreen ==
  IF panel.open /\ panel.running /\ ~panel.justLinked THEN panel.pair ELSE None

(* toggleServer, off: with no code shown, the effects ask for another one  *)
(* while the setting is being saved, before stop is called.                *)
TurnOff ==
  /\ MayPress /\ panel.open /\ panel.running /\ ~panel.stopping /\ MayStop
  /\ Effects([panel EXCEPT !.pair = None, !.stopping = TRUE])
  /\ UNCHANGED <<way, expired, devices, linkedBy, sock>>

(* stop, up to its await.                                                  *)
Stop ==
  /\ panel.stopping /\ panel' = [panel EXCEPT !.stopping = FALSE]
  /\ CloseServer /\ CloseSockets /\ pairing' = NoCode
  /\ UNCHANGED <<minted, expired, devices, linkedBy>>

(* toggleServer, on; or the program starts with phone access enabled.      *)
TurnOn ==
  /\ panel.open => ~panel.running /\ ~panel.stopping
  /\ Start
  /\ UNCHANGED <<phones, panel>>

PanelOpens ==
  /\ ~panel.open
  /\ panel' = [panel EXCEPT !.open = TRUE]
  /\ UNCHANGED <<way, phones>>

(* Leaving the view forgets the code, which stays live.                    *)
PanelCloses ==
  /\ panel.open /\ MayPress
  /\ scene.patient => ~panel.stopping
  /\ panel' = [Closed0 EXCEPT !.stopping = panel.stopping]
  /\ UNCHANGED <<way, phones>>

(* A status arrives; a device more than before means the code was used.    *)
StatusArrives ==
  LET linked == panel.prev # None /\ Count > panel.prev /\ panel.pair # None
      p == [panel EXCEPT !.running = Running, !.prev = Count,
                         !.pair = IF linked THEN None ELSE @,
                         !.justLinked = @ \/ linked]
  IN /\ panel.open /\ (panel.running # Running \/ panel.prev # Count)
     /\ Effects(p)
     /\ UNCHANGED <<way, expired, devices, linkedBy, sock>>

JustLinkedOver ==
  /\ panel.justLinked
  /\ Effects([panel EXCEPT !.justLinked = FALSE])
  /\ UNCHANGED <<way, expired, devices, linkedBy, sock>>

(* Mutant of MintReplies: a code that is shown already is kept.            *)
MintRepliesKeeps ==
  /\ panel.reply # None
  /\ Effects([panel EXCEPT !.pair = IF @ = None THEN panel.reply ELSE @, !.reply = None])
  /\ UNCHANGED <<way, expired, devices, linkedBy, sock>>

MintReplies ==
  /\ panel.reply # None
  /\ Effects([panel EXCEPT !.pair = panel.reply, !.reply = None])
  /\ UNCHANGED <<way, expired, devices, linkedBy, sock>>

(* Mutant of Tick: the countdown only counts.                              *)
TickIdle ==
  /\ panel.pair # None /\ panel.pair = None
  /\ Generate(panel)
  /\ UNCHANGED <<way, expired, devices, linkedBy, sock>>

(* The one-second tick, on a code whose time is over.                      *)
Tick ==
  /\ panel.pair # None /\ Dead(panel.pair) /\ panel.reply = None /\ Fresh # {}
  /\ Generate(panel)
  /\ UNCHANGED <<way, expired, devices, linkedBy, sock>>

(* "New code".                                                             *)
NewCode ==
  /\ panel.pair # None /\ panel.reply = None /\ Fresh # {}
  /\ Generate(panel)
  /\ UNCHANGED <<way, expired, devices, linkedBy, sock>>

-----------------------------------------------------------------------------
PanelNext ==
  \/ TurnOff \/ Stop \/ PanelOpens \/ PanelCloses \/ StatusArrives \/ JustLinkedOver
  \/ MintReplies \/ Tick \/ NewCode \/ TurnOn

PhoneNext ==
  \/ \E c \in Codes : Redeem(c) \/ Expire(c)
  \/ Reject
  \/ \E d \in Devices : Revoke(d) \/ \E w \in Sockets : Handshake(w, d)
  \/ \E w \in Sockets : \/ Connect(w) \/ NotLinked(w) \/ HandshakeTimeout(w)
                        \/ SocketCloses(w) \/ PhoneLeaves(w)

(* A step of the server, the binary or the tunnel only.                    *)
Way(A) == A /\ UNCHANGED <<phones, panel>>

ServerNext ==
  \/ Way(WayNext)
  \/ Way(Buttons) /\ (scene.patient => ~panel.stopping)
  \/ \E s \in Servers : Way(Closed(s, OnServer(s) # {})) \/ Way(StopReturns(s))

Next == PanelNext \/ PhoneNext \/ ServerNext

(* Timers fire, a download ends, calls are answered, replies and status    *)
(* pushes arrive, sockets close.                                           *)
Fairness ==
  /\ WF_vars(\E w \in Sockets : HandshakeTimeout(w))
  /\ WF_vars(\E w \in Sockets : SocketCloses(w))
  /\ WF_vars(\E s \in Servers : Way(Listens(s) \/ Refused(s)))
  /\ WF_vars(Way(CheckPasses \/ InstallFails))
  /\ WF_vars(\E p \in Procs : Way(TimesOut(p) \/ LaunchFails(p)))
  /\ WF_vars(\E c \in Codes : Expire(c))
  /\ WF_vars(StatusArrives \/ MintReplies) /\ WF_vars(Tick)

Spec == Init /\ [][Next]_vars /\ Fairness

-----------------------------------------------------------------------------
(* Properties.                                                             *)

TypeOK ==
  /\ WayTypeOK
  /\ pairing \in [secret : Codes \cup {None}, tries : 0 .. (MaxTries - 1)]
  /\ minted \subseteq Codes /\ expired \subseteq minted
  /\ devices \subseteq Devices /\ linkedBy \in [Devices -> Codes \cup {None}]
  /\ sock \in [Sockets -> [st : {"new", "open", "closing", "closed"},
                           dev : Devices \cup {None}, srv : Servers \cup {None}]]
  /\ panel \in [open : BOOLEAN, pair : Codes \cup {None}, reply : Codes \cup {None},
                justLinked : BOOLEAN, prev : Nat \cup {None}, running : BOOLEAN,
                stopping : BOOLEAN]

(* The service keeps what a pairing code promises: redeemPair, newPairing  *)
(* and stop, in any order with the panel's calls, refine OneTimeCodes.     *)
Promise == INSTANCE OneTimeCodes
             WITH live <- pairing.secret, tries <- pairing.tries, issued <- minted,
                  links <- Cardinality({d \in Devices : linkedBy[d] # None})
CodesAreOneTime == Promise!Spec

(* An unlinked phone is on its way out at once, even in the middle of a    *)
(* session: every socket of a revoked device is being closed or is closed  *)
(* (revoke, handshake and stop), with a user who waits for each call. What *)
(* the phone sends until then is served: RevokedLeaves.                    *)
RevokedIsOut ==
  scene.patient =>
    \A w \in Sockets : sock[w].st = "open" /\ ~Unknown(w) => sock[w].dev \in devices

(* With the panel open and at rest, the code that links a phone is the one *)
(* on the screen (generateCode, its reply and the effects against stop).   *)
AtRest ==
  /\ panel.open /\ panel.running /\ panel.reply = None
  /\ ~panel.justLinked /\ ~panel.stopping

ShownCodeLinks ==
  AtRest /\ (OnScreen # None \/ Fresh # {})
    => pairing.secret \in {None, OnScreen}

(* A dead code does not stay on the screen: it is replaced by a live one,  *)
(* or the panel is closed, the server stops or no secret is left to mint   *)
(* (the tick).                                                             *)
ShownCodeRevives ==
  (OnScreen # None /\ pairing.secret # OnScreen)
    ~> (OnScreen = pairing.secret \/ OnScreen = None \/ Fresh = {})

(* A socket that opens introduces itself or is closed in the end (the      *)
(* handshake timer), and that of a revoked phone is closed in the end,     *)
(* which is all that revoke's ws.close can promise.                        *)
SocketsSettle ==
  \A w \in Sockets : (sock[w].st = "open" /\ Unknown(w)) ~> (~Unknown(w) \/ ~Heard(w))
RevokedLeaves ==
  \A w \in Sockets :
    (scene.patient /\ ~Unknown(w) /\ sock[w].dev \notin devices) ~> ~Heard(w)

(* What the service, the tunnel, the server and the panel hold belongs     *)
(* together: the processes, the address, the listener, the linked phones   *)
(* and the code on the screen.                                             *)
AccessIsOwned ==
  /\ TypeOK /\ TunnelIsOwned /\ UrlIsTunnels /\ ServerIsReachable
  /\ RevokedIsOut /\ ShownCodeLinks

(* No wait of the phone access is for ever: a tunnel that starts, a dead   *)
(* code on the screen, a socket that has not introduced itself, an         *)
(* unlinked phone's.                                                       *)
AccessSettles == StartingEnds /\ ShownCodeRevives /\ SocketsSettle /\ RevokedLeaves
=============================================================================
