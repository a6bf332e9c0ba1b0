---------------------------- MODULE VncHandshake ----------------------------
(***************************************************************************)
(* The security handshake that VncBridgeService plays between a viewer     *)
(* (noVNC, over a web socket) and a VNC server (over TCP). The bridge steps*)
(* in only when the server offers nothing the viewer can do: it then takes *)
(* VeNCrypt and TLS on itself, and offers the viewer what runs inside.     *)
(* A security type is its number in the protocol; a stream is its next     *)
(* message, since either side waits for the other's.                       *)
(***************************************************************************)
EXTENDS Naturals, FiniteSets

SecNone == 1
SecVncAuth == 2
SecVeNCrypt == 19
SecPlain == 256
NovncTypes == {1, 2, 6, 16, 22, 30, 113}

(* X509_SUBTYPES, best first, with what runs inside.                       *)
X509Subtypes == <<[sub |-> 262, inner |-> SecPlain],
                  [sub |-> 261, inner |-> SecVncAuth],
                  [sub |-> 260, inner |-> SecNone]>>

NeedsBridge(types) == SecVeNCrypt \in types /\ types \cap NovncTypes = {}

Offered(subs) == {i \in DOMAIN X509Subtypes : X509Subtypes[i].sub \in subs}

(* pickTlsSubtype; 0 is null.                                              *)
PickTlsSubtype(subs) ==
  IF Offered(subs) = {} THEN 0
  ELSE X509Subtypes[CHOOSE i \in Offered(subs) : \A k \in Offered(subs) : i <= k].sub

(* Mutant of InnerAuth: the tunnel is taken for the whole authentication.  *)
InnerAuthNone(sub) == SecNone

InnerAuth(sub) ==
  IF \E i \in DOMAIN X509Subtypes : X509Subtypes[i].sub = sub
  THEN X509Subtypes[CHOOSE i \in DOMAIN X509Subtypes : X509Subtypes[i].sub = sub].inner
  ELSE SecNone

(* What the server itself runs under a subtype (RFB's VeNCrypt).           *)
ServerRuns(sub) ==
  CASE sub \in {260, 257} -> SecNone
    [] sub \in {261, 258} -> SecVncAuth
    [] OTHER -> SecPlain

-----------------------------------------------------------------------------
(* A link: the step the bridge is at, the subtype it took, the certificate *)
(* the server showed, whether the user said yes to it, and the             *)
(* authentication each end believes to be running.                         *)

Steps == {"ws", "dial", "version", "types", "vencrypt", "tls", "cert", "prompt",
          "offer", "piped", "cut"}
NewLink == [step |-> "ws", sub |-> 0, said |-> FALSE, viewer |-> 0, server |-> 0]
Open(l) == l.step \notin {"ws", "cut"}

At(l, step) == [l EXCEPT !.step = step]
Cut(l) == At(l, "cut")
Piped(l, viewer, server) ==
  [l EXCEPT !.step = "piped", !.viewer = viewer, !.server = server]

(* What noVNC takes of an offer.                                           *)
ViewerTakes(types) == types \cap NovncTypes

(* bridge: the socket connects; handshake: the versions. A viewer that     *)
(* answers below 3.7 is left alone with the server.                        *)
AfterDial(l) == {At(l, "version")}
AfterVersion(l) == {Piped(l, SecVncAuth, SecVncAuth), At(l, "types")}

(* The server's types. None: it refuses, and the viewer reads why. What the*)
(* viewer can do is passed on as it is, and so is its choice.              *)
AfterTypes(l, server) ==
  IF server.types = {} THEN {Cut(l)}
  ELSE IF NeedsBridge(server.types) THEN {At(l, "vencrypt")}
  ELSE IF ViewerTakes(server.types) = {} THEN {Cut(l)}
  ELSE {Piped(l, t, t) : t \in ViewerTakes(server.types)}

(* VeNCrypt with the server, up to its subtypes, and the go-ahead for TLS. *)
(* With no X.509 one, the viewer gets the real list: it can do Plain.      *)
AfterVeNCrypt(l, server) ==
  LET sub == PickTlsSubtype(server.subs)
  IN {Cut(l)} \cup
     (IF sub # 0 THEN {[At(l, "tls") EXCEPT !.sub = sub]}
      ELSE IF SecPlain \in server.subs THEN {Piped(l, SecPlain, SecPlain)}
      ELSE {})

(* startTls: the server shows its certificate. One of a known authority    *)
(* needs no confirmation.                                                  *)
AfterTls(l, server) ==
  {Cut(l), IF server.ca THEN At(l, "offer") ELSE At(l, "cert")}

(* confirmCertificate: the pinned one, or ask.                             *)
CertTrusted(cert, pinned) == pinned = cert
AfterCert(l, server, pinned) ==
  IF CertTrusted(server.cert, pinned) THEN {At(l, "offer")} ELSE {At(l, "prompt")}

(* The viewer takes what it is offered: there is one type.                 *)
AfterOffer(l) == {Piped(l, InnerAuth(l.sub), ServerRuns(l.sub))}

(* Every step of handshake() but the answer to the prompt.                 *)
After(l, server, pinned) ==
  CASE l.step = "dial"     -> AfterDial(l)
    [] l.step = "version"  -> AfterVersion(l)
    [] l.step = "types"    -> AfterTypes(l, server)
    [] l.step = "vencrypt" -> AfterVeNCrypt(l, server)
    [] l.step = "tls"      -> AfterTls(l, server)
    [] l.step = "cert"     -> AfterCert(l, server, pinned)
    [] l.step = "offer"    -> AfterOffer(l)
    [] OTHER               -> {}
=============================================================================
