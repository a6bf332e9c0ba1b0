---------------------------- MODULE ImportExport ----------------------------
(***************************************************************************)
(* Sessions in and out of Ternix (electron/services/ImportExportService):  *)
(* seven formats parsed, five written, and the commit that puts a parsed   *)
(* batch into the database. A document is what is left of a file once its  *)
(* syntax is gone: a sequence of lines for OpenSSH and MobaXterm, of       *)
(* entries for the others. An input is a session row with the key file and *)
(* the group path it names.                                                *)
(***************************************************************************)
EXTENDS KeyVault

CONSTANT Dashed(_)    \* a name with its blanks replaced by dashes

Each(seq, F(_)) == [i \in DOMAIN seq |-> F(seq[i])]
Sifted(seq, Test(_), F(_)) ==
    FoldLeft(LAMBDA acc, x : IF Test(x) THEN Append(acc, F(x)) ELSE acc, <<>>, seq)

\* The documents a user may pick.
SshLines ==
    [kw : {"host"}, value : {"*"} \cup (Names \cap Hosts), port : Ports]
    \cup [kw : {"hostname", "user"}, value : Hosts, port : Ports]
    \cup [kw : {"identityfile"}, value : Paths, port : Ports]
    \cup [kw : {"port", "proxyjump"}, value : STRING, port : Ports]
Entries == [name : Names, protocol : STRING, host : Names \cap Hosts, port : Ports, user : Hosts,
            keyPath : Paths, agent : BOOLEAN]
MobaLines ==
    [kind : {"section"}, bookmarks : BOOLEAN] \cup [kind : {"subrep"}, path : Seq(Names)]
    \cup [kind : {"entry"}, type : Nat, name : Names, protocol : STRING, host : Names \cap Hosts,
          port : Ports, user : Hosts, keyPath : Paths, agent : BOOLEAN]
Documents ==
    [source : {"sshconfig"}, body : Seq(SshLines)] \cup [source : {"mobaxterm"}, body : Seq(MobaLines)]
    \cup [source : {"putty", "winscp", "csv", "tabby"}, body : Seq(Entries)]
    \cup [source : {"ternix"}, body : Seq(SessionRows)]

InputRows ==
    [group : Nat, name : Names, protocol : Protocols, host : Hosts, port : Ports, user : Hosts,
     auth : AuthTypes, key : Nat, jump : Nat, password : BOOLEAN, notes : Seq(Notes),
     keyPath : Paths, groupPath : Seq(Names)]
NoFolder == <<>>
Input(row, keyPath, groupPath) == Patched(row, [keyPath |-> keyPath, groupPath |-> groupPath])
Row(input) == [c \in DOMAIN Blank |-> input[c]]

\* Authentication of a parsed session: a key file defers to the commit.
KeyFields(row, keyPath, fallback, groupPath) ==
    Input([row EXCEPT !.auth = IF keyPath = NoText THEN fallback ELSE "key"], keyPath, groupPath)

---------------------------------------------------------------------------
(* Parsing *)

\* OpenSSH: a Host line starts a session, one with a wildcard drops what follows it.
Flushed(acc) == acc.done \o acc.current
NewHost(name) ==
    Input([Blank EXCEPT !.name = name, !.host = name, !.auth = "agent"], NoText, NoFolder)
SshField(row, l) ==
    CASE l.kw = "hostname" -> [row EXCEPT !.host = l.value]
      [] l.kw = "port" -> [row EXCEPT !.port = l.port]
      [] l.kw = "user" -> [row EXCEPT !.user = l.value]
      [] l.kw = "identityfile" -> [row EXCEPT !.auth = "key", !.keyPath = l.value]
      [] l.kw = "proxyjump" -> [row EXCEPT !.notes = Append(row.notes, Note("ProxyJump", l.value))]
      [] OTHER -> row
ReadSshLine(acc, l) ==
    IF l.kw = "host"
    THEN [done |-> Flushed(acc), current |-> IF l.value = "*" THEN <<>> ELSE <<NewHost(l.value)>>]
    ELSE IF acc.current = <<>> THEN acc
    ELSE [acc EXCEPT !.current[1] = SshField(acc.current[1], l)]
FromSshConfig(lines) == Flushed(FoldLeft(ReadSshLine, [done |-> <<>>, current |-> <<>>], lines))

EntryRow(e, protocol, port) ==
    [Blank EXCEPT !.name = e.name, !.protocol = protocol, !.host = e.host, !.port = port, !.user = e.user]

\* PuTTY knows three protocols and takes any other for SSH; WinSCP is always SSH.
FromPutty(entries) ==
    LET One(e) == KeyFields(EntryRow(e, IF e.protocol \in {"serial", "telnet"} THEN e.protocol ELSE "ssh",
                                     IF e.port # 0 THEN e.port ELSE IF e.protocol = "telnet" THEN 23 ELSE 22),
                            e.keyPath, "password", NoFolder)
    IN Each(entries, One)

FromWinScp(entries) ==
    Each(entries, LAMBDA e : KeyFields(EntryRow(e, "ssh", IF e.port = 0 THEN 22 ELSE e.port),
                                       e.keyPath, "password", NoFolder))

Named(e) == IF e.name = NoText THEN [e EXCEPT !.name = e.host] ELSE e

\* A CSV line without a name takes its host's, and one with neither is dropped.
CsvRow(e) ==
    Input([EntryRow(e, IF e.protocol \in Protocols THEN e.protocol ELSE "ssh",
                    IF e.port = 0 THEN 22 ELSE e.port) EXCEPT !.auth = NoText], NoText, NoFolder)
FromCsv(entries) == Sifted(Each(entries, Named), LAMBDA e : e.name # NoText, CsvRow)

\* A Ternix backup gives its session rows as they were, ids of other rows included.
FromTernix(rows) == Each(rows, LAMBDA r : Input(r, NoText, NoFolder))

\* MobaXterm: a section is a folder, the second number of an entry its protocol; an entry
\* of a type that is not mapped is guessed from its port, or skipped.
MobaPort(l) == IF l.port = 0 THEN 22 ELSE l.port
MobaProtocol(l) ==
    CASE l.type = 0 -> "ssh" [] l.type = 4 -> "rdp" [] l.type = 5 -> "vnc" [] l.type \in {6, 7, 11} -> NoText
      [] OTHER -> CASE MobaPort(l) = 23 -> "telnet" [] MobaPort(l) = 3389 -> "rdp" [] MobaPort(l) = 5900 -> "vnc"
                    [] MobaPort(l) = 22 -> "ssh" [] OTHER -> NoText

ReadMobaLine(acc, l) ==
    CASE l.kind = "section" -> [acc EXCEPT !.bookmarks = l.bookmarks, !.path = NoFolder]
      [] l.kind = "subrep" /\ acc.bookmarks -> [acc EXCEPT !.path = l.path]
      [] l.kind = "entry" /\ acc.bookmarks /\ MobaProtocol(l) # NoText ->
           [acc EXCEPT !.done = Append(@, KeyFields(EntryRow(l, MobaProtocol(l), MobaPort(l)),
                                                    l.keyPath, "password", acc.path))]
      [] OTHER -> acc
FromMobaXterm(lines) == FoldLeft(ReadMobaLine, [done |-> <<>>, bookmarks |-> FALSE, path |-> NoFolder], lines).done

\* Tabby: SSH, local, telnet and serial profiles, each with the fields of its kind.
TabbyRow(e) ==
    CASE e.protocol = "ssh" ->
           KeyFields(EntryRow(e, "ssh", IF e.port = 0 THEN 22 ELSE e.port), e.keyPath,
                     IF e.agent THEN "agent" ELSE "password", NoFolder)
      [] e.protocol = "local" ->
           Input([Blank EXCEPT !.name = e.name, !.protocol = "local", !.port = 0, !.auth = "none"], NoText, NoFolder)
      [] OTHER ->
           Input([EntryRow([e EXCEPT !.user = NoText], e.protocol,
                           IF e.port = 0 /\ e.protocol = "telnet" THEN 23 ELSE e.port)
                  EXCEPT !.auth = NoText], NoText, NoFolder)
FromTabby(entries) ==
    Sifted(Each(entries, Named), LAMBDA e : e.protocol \in {"ssh", "local", "telnet", "serial"}, TabbyRow)

ParseSessions(source, body) ==
    CASE source = "sshconfig" -> FromSshConfig(body) [] source = "putty" -> FromPutty(body)
      [] source = "winscp" -> FromWinScp(body)       [] source = "csv" -> FromCsv(body)
      [] source = "ternix" -> FromTernix(body)       [] source = "mobaxterm" -> FromMobaXterm(body)
      [] source = "tabby" -> FromTabby(body)

---------------------------------------------------------------------------
(* Key files *)

\* Where a key path of another machine may be found on this one.
NormalizeKeyPath(files, raw) ==
    IF raw \in DOMAIN files THEN raw
    ELSE IF HomeOf[BaseOf[raw]] \in DOMAIN files THEN HomeOf[BaseOf[raw]] ELSE raw

\* What the preview says of a key file: in the vault, on disk, or missing.
Match(d, fp, name) == IF fp # NoText THEN KeysByFingerprint(d, fp) ELSE KeysByName(d, name)
KeyStatus(d, seen, name) ==
    IF Match(d, seen.fp, name) # None THEN "vault" ELSE IF seen.read THEN "found" ELSE "missing"
InspectKeyRef(d, files, raw) ==
    KeyStatus(d, InspectKeyFile(files, NormalizeKeyPath(files, raw)), BaseOf[raw])

KeyRefsFor(d, files, inputs) ==
    [p \in {inputs[i].keyPath : i \in DOMAIN inputs} \ {NoText} |-> InspectKeyRef(d, files, p)]

OrByName(kept, d, name) == IF kept.id # None THEN kept ELSE [id |-> KeysByName(d, name), db |-> d]
ResolveKeyToVault(d, files, raw, located) ==
    LET path == IF located[raw] # NoText THEN located[raw] ELSE NormalizeKeyPath(files, raw)
    IN OrByName(EnsureKeyFromFile(d, files, path, BaseOf[raw]), d, BaseOf[raw])

---------------------------------------------------------------------------
(* Committing a batch *)

\* A folder path as nested groups, reusing those of the same name under the same parent.
ResolveGroupPath(d, path) ==
    LET InOr(r, name, there) ==
          IF there # None THEN [id |-> there, db |-> r.db] ELSE GroupsCreate(r.db, name, r.id)
        Enter(r, name) == InOr(r, name, Find(r.db.groups, LAMBDA g : g.name = name /\ g.parent = r.id))
    IN FoldLeft(Enter, [id |-> None, db |-> d], path)

SameSession(a, b) == a.name = b.name /\ a.protocol = b.protocol /\ a.host = b.host /\ a.user = b.user

\* No session is there twice.
Apart(rows) == \A s, t \in DOMAIN rows : s # t => ~SameSession(rows[s], rows[t])

\* Every key file once.
ResolveKeys(d, files, inputs, located) ==
    LET Noted(acc, raw, r) == [ids |-> Patched(acc.ids, Single(raw, r.id)), db |-> r.db]
        Resolve(acc, input) ==
          IF input.keyPath \in {NoText} \cup DOMAIN acc.ids THEN acc
          ELSE Noted(acc, input.keyPath, ResolveKeyToVault(acc.db, files, input.keyPath, located))
    IN FoldLeft(Resolve, [ids |-> <<>>, db |-> d], inputs)

WithKey(input, ids) ==
    IF input.keyPath = NoText THEN input
    ELSE IF ids[input.keyPath] # None THEN [input EXCEPT !.key = ids[input.keyPath]]
    ELSE [input EXCEPT !.notes = Append(@, Note("RequiresKey", input.keyPath))]

Place(d, keyed) ==
    IF keyed.groupPath = NoFolder THEN [id |-> keyed.group, db |-> d] ELSE ResolveGroupPath(d, keyed.groupPath)

Counted(acc, made) == [ok |-> made.ok, made |-> acc.made + (IF made.ok THEN 1 ELSE 0), db |-> made.db]
AddRow(acc, existing, d, row) ==
    IF \E e \in DOMAIN existing : SameSession(existing[e], row) THEN [acc EXCEPT !.db = d]
    ELSE Counted(acc, SessionsCreate(d, row))
AddPlaced(acc, existing, keyed, placed) ==
    AddRow(acc, existing, placed.db, [Row(keyed) EXCEPT !.group = placed.id, !.password = FALSE])
AddSession(acc, existing, keyed) ==
    IF acc.ok THEN AddPlaced(acc, existing, keyed, Place(acc.db, keyed)) ELSE acc

AddAll(existing, inputs, keys) ==
    FoldLeft(LAMBDA acc, input : AddSession(acc, existing, WithKey(input, keys.ids)),
             [ok |-> TRUE, made |-> 0, db |-> keys.db], inputs)

\* The keys first, then each session that is not in the list read before the first of them
\* was made. There is no transaction: a row the database refuses ends the commit, and what
\* was made before it stays.
Commit(d, files, inputs, located) == AddAll(d.sessions, inputs, ResolveKeys(d, files, inputs, located))

---------------------------------------------------------------------------
(* Writing *)

RowsOf(d) ==
    Sifted([i \in 1..(d.next["sessions"] - 1) |-> i], LAMBDA id : id \in DOMAIN d.sessions,
           LAMBDA id : d.sessions[id])

EntryOf(r) == [name |-> r.name, protocol |-> r.protocol, host |-> r.host, port |-> r.port,
               user |-> r.user, keyPath |-> NoText, agent |-> FALSE]

ToTernix(d) == Each(RowsOf(d), LAMBDA r : [r EXCEPT !.password = FALSE])
ToCsv(d) == Each(RowsOf(d), EntryOf)

SshLine(kw, value, port) == [kw |-> kw, value |-> value, port |-> port]
ToSshConfigShort(d) ==               \* mutant: the address is left to the name
    FoldLeft(LAMBDA acc, r : IF r.protocol = "ssh" THEN Append(acc, SshLine("host", Dashed(r.name), 0)) ELSE acc,
             <<>>, RowsOf(d))

ToSshConfig(d) ==
    LET Block(r) == <<SshLine("host", Dashed(r.name), 0)>>
                    \o (IF r.host # NoText THEN <<SshLine("hostname", r.host, 0)>> ELSE <<>>)
                    \o (IF r.port # 0 THEN <<SshLine("port", NoText, r.port)>> ELSE <<>>)
                    \o (IF r.user # NoText THEN <<SshLine("user", r.user, 0)>> ELSE <<>>)
    IN FoldLeft(LAMBDA acc, r : IF r.protocol = "ssh" THEN acc \o Block(r) ELSE acc, <<>>, RowsOf(d))

\* The icon tells the protocol and the type is 0 for every session.
ToMobaXterm(d) ==
    LET Line(r) == Patched(EntryOf(r), [kind |-> "entry", type |-> 0])
    IN <<[kind |-> "section", bookmarks |-> TRUE]>>
       \o Each(RowsOf(d), LAMBDA r : [Line(r) EXCEPT !.port = IF @ = 0 THEN 22 ELSE @])

ToTabby(d) ==
    LET One(r) == CASE r.protocol = "ssh" -> [EntryOf(r) EXCEPT !.port = IF @ = 0 THEN 22 ELSE @]
                    [] r.protocol \in {"serial", "telnet"} -> [EntryOf(r) EXCEPT !.user = NoText]
                    [] OTHER -> [EntryOf(r) EXCEPT !.host = NoText, !.port = 0, !.user = NoText]
    IN Each(RowsOf(d), One)

Export(target, d) ==
    CASE target = "ternix" -> ToTernix(d) [] target = "csv" -> ToCsv(d)
      [] target = "sshconfig" -> ToSshConfig(d) [] target = "mobaxterm" -> ToMobaXterm(d)
      [] target = "tabby" -> ToTabby(d)

\* Which rows a format gives back under the identity they had.
Carries(target, r) ==
    CASE target = "ternix" -> TRUE
      [] target = "csv" -> r.name # NoText
      [] target = "sshconfig" -> r.protocol = "ssh" => r.host # NoText /\ r.name = Dashed(r.name) /\ r.name # "*"
      [] target = "mobaxterm" -> r.protocol = "ssh"
      [] target = "tabby" -> /\ r.name # NoText
                             /\ r.protocol \in {"telnet", "serial"} => r.user = NoText
                             /\ r.protocol = "local" => r.host = NoText /\ r.user = NoText
=============================================================================
