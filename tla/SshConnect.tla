----------------------------- MODULE SshConnect -----------------------------
(***************************************************************************)
(* Connecting over SSH: SshService from the credential check through the   *)
(* jump host, the host key, keyboard-interactive login and the shell, with *)
(* the modals of GlobalPrompts that answer it, the windows' ownership of   *)
(* panes, and the gate that lets a phone open a session (mobileGate).      *)
(*                                                                         *)
(* A prompt is kept in the main process by tab and shown in a window by    *)
(* kind, one slot each; what the attempt does meanwhile (its clock, its    *)
(* server, a second attempt) goes on. A prompt is on the screen by the time*)
(* anybody acts on it.                                                     *)
(***************************************************************************)
EXTENDS Naturals, FiniteSets

CONSTANTS
  Attempts,    (* calls of spawn() or exec()                               *)
  Tabs,        (* panes                                                    *)
  Windows,
  Keys,        (* host keys                                                *)
  None,
  Scenes,      (* what may happen: see SceneAssumption                     *)
  MaxAsks      (* bound: login questions a server asks an attempt          *)

Hosts == {"jump", "target"}

(* tab: the pane of each attempt. phone: attempts with no window behind    *)
(* them. strictness: ssh.hostKeyStrictness. jump: is there a jump host?    *)
(* patient: the user has one attempt under way at a time, closes and moves *)
(* no pane. stored: are the target's credentials saved? The pane a phone   *)
(* opens has a fresh id, which no other attempt uses.                      *)
ASSUME SceneAssumption ==
  \A s \in Scenes :
    /\ s.tab \in [Attempts -> Tabs] /\ s.phone \subseteq Attempts
    /\ s.strictness \in {"prompt", "strict", "auto-accept"}
    /\ s.jump \in BOOLEAN /\ s.patient \in BOOLEAN /\ s.stored \in BOOLEAN
    /\ \A a \in s.phone, b \in Attempts : s.tab[a] = s.tab[b] => a = b
ASSUME NoneAssumption == None \notin Attempts \cup Tabs \cup Windows \cup Keys
ASSUME MaxAsksAssumption == MaxAsks \in Nat

VARIABLES
  scene,       (* the scene, which never changes                           *)
  stored,      (* does the session have credentials in the vault?          *)
  pins,        (* known_hosts: the pinned key of each host                 *)
  phase,       (* where each attempt is                                    *)
  hop,         (* the host it is connecting to                             *)
  clock,       (* is its connect deadline running?                         *)
  asks,        (* login questions it was asked                             *)
  unattended,  (* tabs that connect with no window behind them             *)
  owner,       (* the window whose tree has the pane                       *)
  pendHostKey, (* pendingHostKey, by tab: attempt, host, key and whether   *)
               (* another one was pinned                                   *)
  pendKbi,     (* pendingKbi, by tab: the attempt                          *)
  pendCred,    (* pendingCredentials, by tab: the attempt                  *)
  modal        (* the prompts each window shows                            *)

attempt == <<phase, hop, clock, asks, unattended>>
pending == <<pendHostKey, pendKbi, pendCred>>
vars    == <<scene, stored, pins, attempt, owner, pending, modal>>

Tab(a) == scene.tab[a]
Settled(a) == phase[a] \in {"live", "failed"}
Under(a) == phase[a] \notin {"idle", "live", "failed"}
NoModal == [hostKey |-> None, kbi |-> None, cred |-> None]

Init ==
  /\ scene \in Scenes
  /\ stored = scene.stored
  /\ pins \in [Hosts -> Keys \cup {None}]
  /\ phase = [a \in Attempts |-> "idle"]
  /\ hop = [a \in Attempts |-> "target"]
  /\ clock = [a \in Attempts |-> FALSE]
  /\ asks = [a \in Attempts |-> 0]
  /\ unattended = {}
  /\ owner \in [Tabs -> Windows]
  /\ pendHostKey = [t \in Tabs |-> None]
  /\ pendKbi = [t \in Tabs |-> None] /\ pendCred = [t \in Tabs |-> None]
  /\ modal = [w \in Windows |-> NoModal]

-----------------------------------------------------------------------------
(* Starting.                                                               *)

(* The hosts of the chain, as gateSession walks it.                        *)
Chain == IF scene.jump THEN Hosts ELSE {"target"}

(* gateSession: no prompt is to be expected on the way.                    *)
Gate ==
  /\ stored
  /\ scene.strictness # "auto-accept" => \A h \in Chain : pins[h] # None

(* Mutant of Show: a prompt that is on the screen is not replaced.         *)
ShowFirst(t, kind, what) ==
  modal' = [w \in Windows |->
              IF owner[t] = w /\ modal[w][kind] = None THEN [modal[w] EXCEPT ![kind] = what]
              ELSE modal[w]]

(* Only the window that owns the pane shows a prompt; it has one slot.     *)
Show(t, kind, what) ==
  modal' = [w \in Windows |->
              IF owner[t] = w /\ t \notin unattended' THEN [modal[w] EXCEPT ![kind] = what]
              ELSE modal[w]]

(* connectOne: a new client, and its deadline.                             *)
Dial(a, h) ==
  /\ phase' = [phase EXCEPT ![a] = "dial"]
  /\ hop' = [hop EXCEPT ![a] = h]
  /\ clock' = [clock EXCEPT ![a] = TRUE]

FirstHop == IF scene.jump THEN "jump" ELSE "target"

MayStart(a) ==
  /\ phase[a] = "idle"
  /\ a \in scene.phone => Gate
  /\ a \notin scene.phone => owner[Tab(a)] # None
  /\ scene.patient => \A b \in Attempts : ~Under(b)

(* spawn of a session with its credentials: straight to connectChain.      *)
Start(a) ==
  /\ MayStart(a) /\ stored
  /\ unattended' = IF a \in scene.phone THEN unattended \cup {Tab(a)} ELSE unattended
  /\ Dial(a, FirstHop)
  /\ UNCHANGED <<scene, stored, pins, asks, owner, pending, modal>>

(* needsCreds: the picker comes first, without any deadline.               *)
StartAsks(a) ==
  /\ MayStart(a) /\ ~stored
  /\ phase' = [phase EXCEPT ![a] = "creds"]
  /\ pendCred' = [pendCred EXCEPT ![Tab(a)] = a]
  /\ UNCHANGED unattended
  /\ Show(Tab(a), "cred", a)
  /\ UNCHANGED <<scene, stored, pins, hop, clock, asks, owner, pendHostKey, pendKbi>>

(* The attempt rejects. Its prompts are left where they are.               *)
Fail(a) ==
  /\ phase' = [phase EXCEPT ![a] = "failed"]
  /\ clock' = [clock EXCEPT ![a] = FALSE]
  /\ unattended' = unattended \ {Tab(a)}

Close(w, kind) == modal' = [modal EXCEPT ![w][kind] = None]

(* The picker's Connect: the credentials are saved, then the answer goes to*)
(* whatever the tab has pending.                                           *)
SubmitCredentials(w) ==
  LET t == Tab(modal[w].cred)
      a == pendCred[t]
  IN /\ modal[w].cred # None
     /\ stored' = TRUE
     /\ pendCred' = [pendCred EXCEPT ![t] = None]
     /\ IF a # None THEN Dial(a, FirstHop) ELSE UNCHANGED <<phase, hop, clock>>
     /\ Close(w, "cred")
     /\ UNCHANGED <<scene, pins, asks, unattended, owner, pendHostKey, pendKbi>>

CancelCredentials(w) ==
  LET t == Tab(modal[w].cred)
      a == pendCred[t]
  IN /\ modal[w].cred # None
     /\ pendCred' = [pendCred EXCEPT ![t] = None]
     /\ IF a # None THEN Fail(a) ELSE UNCHANGED <<phase, clock, unattended>>
     /\ Close(w, "cred")
     /\ UNCHANGED <<scene, stored, pins, hop, asks, owner, pendHostKey, pendKbi>>

-----------------------------------------------------------------------------
(* The host key.                                                           *)

Enter(a, p) == phase' = [phase EXCEPT ![a] = p]

(* verifyHostKey, up to its prompt.                                        *)
Trusted(h, k) == pins[h] = k
Refused(a, h) ==
  \/ scene.strictness = "strict" /\ pins[h] = None
  \/ Tab(a) \in unattended

KeyTrusted(a, k) ==
  /\ phase[a] = "dial"
  /\ Trusted(hop[a], k) \/ scene.strictness = "auto-accept"
  /\ pins' = [pins EXCEPT ![hop[a]] = k]
  /\ Enter(a, "auth")
  /\ UNCHANGED <<scene, stored, hop, clock, asks, unattended, owner, pending, modal>>

(* The verifier says no, and the client fails.                             *)
KeyRefused(a, k) ==
  /\ phase[a] = "dial"
  /\ ~Trusted(hop[a], k) /\ scene.strictness # "auto-accept" /\ Refused(a, hop[a])
  /\ Fail(a)
  /\ UNCHANGED <<scene, stored, pins, hop, asks, owner, pending, modal>>

(* The prompt remembers what was pinned when it was made.                  *)
KeyPrompted(a, k) ==
  LET p == [att |-> a, host |-> hop[a], key |-> k, changed |-> pins[hop[a]] # None]
  IN /\ phase[a] = "dial"
     /\ ~Trusted(hop[a], k) /\ scene.strictness # "auto-accept" /\ ~Refused(a, hop[a])
     /\ Enter(a, "hostkey")
     /\ pendHostKey' = [pendHostKey EXCEPT ![Tab(a)] = p]
     /\ UNCHANGED unattended
     /\ Show(Tab(a), "hostKey", p)
     /\ UNCHANGED <<scene, stored, pins, hop, clock, asks, owner, pendKbi, pendCred>>

Pin(p) == pins' = [pins EXCEPT ![p.host] = p.key]

(* Mutant of PinAnswer: an accepted key is pinned, changed or not.         *)
PinAnswerAny(p, decision) ==
  IF decision # "reject" THEN Pin(p) ELSE UNCHANGED pins

(* Mutant of PinAnswer: a key nothing was pinned for is pinned anyway.     *)
PinAnswerUnasked(p, decision) ==
  IF decision = "always" \/ ~p.changed THEN Pin(p) ELSE UNCHANGED pins

(* respondHostKey: 'always' pins; 'accept' does for a host that was unknown*)
(* when the question was asked.                                            *)
PinAnswer(p, decision) ==
  IF decision = "always" \/ (decision = "accept" /\ ~p.changed)
  THEN Pin(p) ELSE UNCHANGED pins

(* The answer settles the attempt that asked, unless it failed meanwhile.  *)
AnswerHostKey(w, decision) ==
  LET shown == modal[w].hostKey
      p == pendHostKey[Tab(shown.att)]
      a == p.att
  IN /\ shown # None
     /\ Close(w, "hostKey")
     /\ IF p = None THEN UNCHANGED <<pins, phase, clock, unattended, pendHostKey>>
        ELSE /\ pendHostKey' = [pendHostKey EXCEPT ![Tab(a)] = None]
             /\ PinAnswer(p, decision)
             /\ IF phase[a] # "hostkey" THEN UNCHANGED <<phase, clock, unattended>>
                ELSE IF decision = "reject" THEN Fail(a)
                ELSE Enter(a, "auth") /\ UNCHANGED <<clock, unattended>>
     /\ UNCHANGED <<scene, stored, hop, asks, owner, pendKbi, pendCred>>

-----------------------------------------------------------------------------
(* Authentication.                                                         *)

(* A banner stops the clock for good.                                      *)
Banner(a) ==
  /\ phase[a] = "auth" /\ clock[a]
  /\ clock' = [clock EXCEPT ![a] = FALSE]
  /\ UNCHANGED <<scene, stored, pins, phase, hop, asks, unattended, owner, pending, modal>>

AsksLogin(a) ==
  /\ phase[a] = "auth" /\ asks[a] < MaxAsks
  /\ asks' = [asks EXCEPT ![a] = @ + 1]
  /\ UNCHANGED <<scene, stored, pins, hop, owner, pendHostKey, pendCred>>

(* A lone password question is answered with the stored password.          *)
AnswersItself(a) ==
  /\ AsksLogin(a) /\ stored
  /\ clock' = [clock EXCEPT ![a] = FALSE]
  /\ UNCHANGED <<phase, unattended, pendKbi, modal>>

(* Nobody could answer: the attempt says so and ends.                      *)
NobodyAnswers(a) ==
  /\ AsksLogin(a) /\ Tab(a) \in unattended
  /\ Fail(a)
  /\ UNCHANGED <<pendKbi, modal>>

AsksUser(a) ==
  /\ AsksLogin(a) /\ Tab(a) \notin unattended
  /\ Enter(a, "kbi") /\ clock' = [clock EXCEPT ![a] = FALSE]
  /\ pendKbi' = [pendKbi EXCEPT ![Tab(a)] = a]
  /\ UNCHANGED unattended
  /\ Show(Tab(a), "kbi", a)

(* Mutant of AnswerKbi: the question is dropped, not answered.             *)
AnswerKbiDrops(w) ==
  LET t == Tab(modal[w].kbi)
  IN /\ modal[w].kbi # None
     /\ Close(w, "kbi")
     /\ pendKbi' = [pendKbi EXCEPT ![t] = None]
     /\ UNCHANGED <<scene, stored, pins, attempt, owner, pendHostKey, pendCred>>

(* Submit, or closing the modal, which answers with empty strings.         *)
AnswerKbi(w) ==
  LET t == Tab(modal[w].kbi)
      a == pendKbi[t]
  IN /\ modal[w].kbi # None
     /\ Close(w, "kbi")
     /\ pendKbi' = [pendKbi EXCEPT ![t] = None]
     /\ IF a # None /\ phase[a] = "kbi" THEN Enter(a, "auth") ELSE UNCHANGED phase
     /\ UNCHANGED <<scene, stored, pins, hop, clock, asks, unattended, owner,
                    pendHostKey, pendCred>>

(* 'ready' on the jump host, and forwardOut from it: the next client.      *)
JumpReady(a) ==
  /\ phase[a] = "auth" /\ hop[a] = "jump"
  /\ Dial(a, "target")
  /\ UNCHANGED <<scene, stored, pins, asks, unattended, owner, pending, modal>>

(* 'ready' on the target: the chain is done and the shell is asked for.    *)
Ready(a) ==
  /\ phase[a] = "auth" /\ hop[a] = "target"
  /\ Enter(a, "shell")
  /\ clock' = [clock EXCEPT ![a] = FALSE]
  /\ unattended' = unattended \ {Tab(a)}
  /\ UNCHANGED <<scene, stored, pins, hop, asks, owner, pending, modal>>

ShellOpens(a) ==
  /\ phase[a] = "shell"
  /\ Enter(a, "live")
  /\ UNCHANGED <<scene, stored, pins, hop, clock, asks, unattended, owner, pending, modal>>

(* A client's 'error', a wrong password, a forward or shell that is        *)
(* refused. connectOne hears no 'close' or 'end': a connection that closes *)
(* without an error is, to the attempt, a server that does nothing more.   *)
ConnFails(a) ==
  /\ phase[a] \in {"dial", "hostkey", "auth", "kbi", "shell"}
  /\ Fail(a)
  /\ UNCHANGED <<scene, stored, pins, hop, asks, owner, pending, modal>>

(* ssh.connectTimeout of the hop, which a host-key prompt does not stop.   *)
TimesOut(a) ==
  /\ clock[a] /\ phase[a] \in {"dial", "hostkey", "auth"}
  /\ Fail(a)
  /\ UNCHANGED <<scene, stored, pins, hop, asks, owner, pending, modal>>

-----------------------------------------------------------------------------
(* The pane is closed, or torn off into another window.                    *)
ClosePane(t) ==
  /\ ~scene.patient /\ owner[t] # None
  /\ owner' = [owner EXCEPT ![t] = None]
  /\ UNCHANGED <<scene, stored, pins, attempt, pending, modal>>

TearOff(t, w) ==
  /\ ~scene.patient /\ owner[t] \notin {None, w}
  /\ owner' = [owner EXCEPT ![t] = w]
  /\ UNCHANGED <<scene, stored, pins, attempt, pending, modal>>

Decisions == {"accept", "always", "reject"}

UserAnswers(w) ==
  \/ SubmitCredentials(w) \/ CancelCredentials(w) \/ AnswerKbi(w)
  \/ \E d \in Decisions : AnswerHostKey(w, d)

ServerActs(a) ==
  \/ \E k \in Keys : KeyTrusted(a, k) \/ KeyRefused(a, k) \/ KeyPrompted(a, k)
  \/ Banner(a) \/ AnswersItself(a) \/ NobodyAnswers(a) \/ AsksUser(a)
  \/ JumpReady(a) \/ Ready(a) \/ ShellOpens(a) \/ ConnFails(a)

Next ==
  \/ \E a \in Attempts : Start(a) \/ StartAsks(a) \/ TimesOut(a) \/ ServerActs(a)
  \/ \E w \in Windows : UserAnswers(w)
  \/ \E t \in Tabs : ClosePane(t) \/ \E w \in Windows : TearOff(t, w)

(* Deadlines fire; a user answers what is on the screen; the shell opens,  *)
(* or ssh2 ends the channel with the connection. Of a server that logs one *)
(* in nothing is assumed: it may be silent, or gone without an error.      *)
Fairness ==
  /\ \A a \in Attempts :
       /\ WF_vars(TimesOut(a))
       /\ WF_vars(phase[a] = "shell" /\ ServerActs(a))
  /\ \A w \in Windows : WF_vars(UserAnswers(w))

Spec == Init /\ [][Next]_vars /\ Fairness

-----------------------------------------------------------------------------
(* Properties.                                                             *)

Prompt == [att : Attempts, host : Hosts, key : Keys, changed : BOOLEAN]

(* Types; a tab is unattended only while a phone's attempt is under way    *)
(* (the finally of spawn).                                                 *)
TypeOK ==
  /\ scene \in Scenes /\ stored \in BOOLEAN
  /\ pins \in [Hosts -> Keys \cup {None}]
  /\ phase \in [Attempts -> {"idle", "creds", "dial", "hostkey", "auth", "kbi", "shell",
                             "live", "failed"}]
  /\ hop \in [Attempts -> Hosts] /\ clock \in [Attempts -> BOOLEAN]
  /\ asks \in [Attempts -> 0 .. MaxAsks]
  /\ unattended \subseteq {Tab(a) : a \in {b \in scene.phone : Under(b)}}
  /\ owner \in [Tabs -> Windows \cup {None}]
  /\ pendHostKey \in [Tabs -> Prompt \cup {None}]
  /\ pendKbi \in [Tabs -> Attempts \cup {None}]
  /\ pendCred \in [Tabs -> Attempts \cup {None}]
  /\ modal \in [Windows -> [hostKey : Prompt \cup {None}, kbi : Attempts \cup {None},
                            cred : Attempts \cup {None}]]

(* The host key a user reads is the one the answer is about: the prompt    *)
(* pending for the tab is the one shown, or gone (verifyHostKey and        *)
(* respondHostKey, keyed by tab), while panes stay in their windows.       *)
AnswerIsForShown ==
  scene.patient =>
    \A w \in Windows : modal[w].hostKey # None =>
      pendHostKey[Tab(modal[w].hostKey.att)] \in {None, modal[w].hostKey}

(* The clock runs whenever nothing else bounds the wait: an attempt that is*)
(* dialling, or waits for a host key, has its deadline.                    *)
WaitIsBounded ==
  \A a \in Attempts : phase[a] \in {"dial", "hostkey"} => clock[a]

(* The question that a click in w answers: the one its tab has pending.    *)
Asked(w) == pendHostKey[Tab(modal[w].hostKey.att)]

Said(decision) == \E w \in Windows : AnswerHostKey(w, decision)

(* In auto-accept mode the key that a server offers is pinned unasked, a   *)
(* changed one too; a user pins the key of a question, the one on the      *)
(* screen if panes stay in their windows, by saying yes to it.             *)
AutoPins(h) ==
  /\ scene.strictness = "auto-accept"
  /\ \E a \in Attempts, k \in Keys : hop[a] = h /\ KeyTrusted(a, k) /\ pins'[h] = k
UserPins(h) ==
  /\ scene.strictness # "auto-accept" /\ ~Said("reject")
  /\ \E w \in Windows :
       /\ modal[w].hostKey # None /\ Asked(w) # None
       /\ Asked(w).host = h /\ Asked(w).key = pins'[h]
       /\ scene.patient => Asked(w) = modal[w].hostKey
       /\ AnswerHostKey(w, "accept") \/ AnswerHostKey(w, "always")

(* A pin changes only so, never on a refusal, a timeout or any other step; *)
(* and accepting a changed key once leaves the old one pinned, whatever    *)
(* became of the attempt that asked (verifyHostKey, respondHostKey). That  *)
(* much of one pane: a second one may have pinned the key since.           *)
OnePane == \A a, b \in Attempts : Tab(a) = Tab(b)
PinsAreKept ==
  [][\A h \in Hosts : pins'[h] # pins[h] =>
       /\ AutoPins(h) \/ UserPins(h)
       /\ scene.patient /\ OnePane /\ pins[h] # None => ~Said("accept")]_vars

(* Strict mode pins no host it did not know (verifyHostKey).               *)
StrictPinsNothing ==
  [][scene.strictness = "strict" =>
       \A h \in Hosts : pins[h] = None => pins'[h] = None]_vars

(* What waits for the user alone is on the screen: with one attempt at a   *)
(* time, a pending login question or credential request is shown.          *)
AskedIsShown ==
  scene.patient => \A a \in Attempts :
    /\ phase[a] = "kbi" => \E w \in Windows : modal[w].kbi = a /\ pendKbi[Tab(a)] = a
    /\ phase[a] = "creds" => \E w \in Windows : modal[w].cred = a /\ pendCred[Tab(a)] = a

(* A session a phone may open never waits for the desktop (gateSession and *)
(* the unattended checks).                                                 *)
PhoneNeverAsks ==
  \A a \in scene.phone : phase[a] \notin {"creds", "hostkey", "kbi"}

(* An attempt comes to an end, live or failed: a phone's always, a pane's  *)
(* if its user has one at a time and answers; but for one that is left in  *)
(* its login, with its clock stopped by a banner or a question, by a server*)
(* that says no more: connectOne waits for that one for ever.              *)
LeftAlone(a) == phase[a] = "auth" /\ ~clock[a]
AttemptSettles ==
  \A a \in Attempts :
    \/ <>[]LeftAlone(a)
    \/ (Under(a) /\ (scene.patient \/ a \in scene.phone)) ~> Settled(a)

(* Who is asked, and for how long: the prompts pending in the main process *)
(* are those on the screen, none is a phone's, and a clock runs wherever   *)
(* no user does (SshService's maps by tab, the modals, applyDeadline).     *)
PromptsAgree ==
  TypeOK /\ AnswerIsForShown /\ AskedIsShown /\ PhoneNeverAsks /\ WaitIsBounded

(* A pin changes only as the mode and the user's answer say.               *)
PinsAsAnswered == PinsAreKept /\ StrictPinsNothing
=============================================================================
