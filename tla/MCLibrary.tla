------------------------------ MODULE MCLibrary -----------------------------
(* A library small enough for TLC. Each scene gives the user some of the     *)
(* gestures, the files and tables they need, and a bound on the ids.         *)
EXTENDS Library

MCDashed(name) == IF name = "a b" THEN "a-b" ELSE name

MCBaseOf == [p \in Paths |-> CASE p \in {"~/.ssh/id", "C:/id"} -> "id" [] p = "~/.ssh/id2" -> "id2"
                               [] p \in {"/tmp/key", "/old/key"} -> "key" [] OTHER -> ""]
MCHomeOf == [n \in Names |-> CASE n = "id" -> "~/.ssh/id" [] n = "id2" -> "~/.ssh/id2" [] OTHER -> ""]

File(plain, fp) == [key |-> TRUE, plain |-> plain, fp |-> fp]
NotAKey == [key |-> FALSE, plain |-> FALSE, fp |-> ""]

Session(name, host) == [Blank EXCEPT !.name = name, !.host = host]
Table(rows) == [i \in DOMAIN rows |-> rows[i]]

Start(groups, keys, sessions) ==
    [NoRows EXCEPT !.groups = groups, !.keys = keys, !.sessions = sessions,
                   !.next = [@ EXCEPT !["groups"] = Len(groups) + 1, !["keys"] = Len(keys) + 1,
                                      !["sessions"] = Len(sessions) + 1]]

Group(name, parent) == [name |-> name, parent |-> parent]
Key(name, fp) == [name |-> name, fp |-> fp]
Nested == <<Group("g", None), Group("h", 1)>>

NoFiles == [p \in {} |-> NotAKey]
Some(acts, d) ==
    [windows |-> {1}, db |-> d, files |-> NoFiles, docs |-> {}, acts |-> acts, names |-> {"a", "b"},
     fields |-> {"name", "group", "key", "jump", "password"}, protocols |-> {}, fresh |-> {},
     rows |-> 3, loads |-> 2, calm |-> TRUE]

Ssh(kw, value, port) == [kw |-> kw, value |-> value, port |-> port]
Entry(name, protocol, host, port, user, keyPath) ==
    [name |-> name, protocol |-> protocol, host |-> host, port |-> port, user |-> user, keyPath |-> keyPath, agent |-> FALSE]
Moba(e, type) == e @@ [kind |-> "entry", type |-> type]

SshDoc == [source |-> "sshconfig", body |-> <<
    Ssh("user", "u", 0), Ssh("host", "a", 0), Ssh("hostname", "h1", 0), Ssh("identityfile", "C:/id", 0),
    Ssh("host", "*", 0), Ssh("user", "u", 0), Ssh("host", "b", 0), Ssh("port", "", 23),
    Ssh("proxyjump", "a", 0), Ssh("identityfile", "/old/key", 0)>>]
MobaDoc == [source |-> "mobaxterm", body |-> <<
    Moba(Entry("a", "", "h1", 22, "", ""), 0), [kind |-> "section", bookmarks |-> TRUE],
    [kind |-> "subrep", path |-> <<"g", "h">>], Moba(Entry("a", "", "h1", 0, "", "~/.ssh/id"), 0),
    Moba(Entry("b", "", "h1", 23, "u", ""), 1), Moba(Entry("b", "", "h1", 1, "u", ""), 1),
    Moba(Entry("id", "", "h1", 3389, "", ""), 4), Moba(Entry("id", "", "h1", 22, "", ""), 6)>>]
PuttyDoc == [source |-> "putty", body |-> <<Entry("a", "telnet", "h1", 0, "", ""), Entry("b", "raw", "h1", 0, "", "/old/key")>>]
WinScpDoc == [source |-> "winscp", body |-> <<Entry("a", "", "h1", 0, "u", "~/.ssh/id2"), Entry("b", "", "h1", 23, "", "C:/id")>>]
CsvDoc == [source |-> "csv", body |-> <<Entry("", "vnc", "h1", 5900, "", ""), Entry("", "ssh", "", 0, "", ""), Entry("b", "x", "", 0, "u", "")>>]
TabbyDoc == [source |-> "tabby", body |-> <<Entry("a", "local", "", 0, "", ""), Entry("b", "telnet", "h1", 0, "", ""),
    Entry("id", "ssh", "h1", 0, "u", "/old/key"), Entry("key", "rdp", "h1", 0, "", ""),
    [Entry("id2", "ssh", "h1", 0, "", "") EXCEPT !.agent = TRUE]>>]

Disk == ("~/.ssh/id" :> File(TRUE, "f1")) @@ ("~/.ssh/id2" :> File(TRUE, "f1")) @@ ("/tmp/key" :> File(FALSE, ""))
AnyFile == Disk @@ ("C:/id" :> NotAKey)

Two == Start(<<Group("g", None)>>, <<Key("id", "f1")>>, <<Session("a", "h1"), [Session("b", "h1") EXCEPT !.group = 1, !.key = 1, !.auth = "key"]>>)

Importing(docs, fs) == [Some({"import", "delete"}, Two) EXCEPT !.docs = docs, !.files = fs]

One == Start(<<>>, <<Key("id", "f1")>>, <<[Session("a", "h1") EXCEPT !.password = TRUE]>>)
Form(acts, fields) == [Some(acts, One) EXCEPT !.fields = fields]

SceneList == <<
    Some({"move", "groups", "delete"}, Start(Nested, <<>>, <<Session("a", "h1")>>)),
    Form({"new", "edit"}, {"name", "password", "key"}),
    [Form({"copy", "edit", "delete"}, {"jump", "name"}) EXCEPT !.rows = 2],
    [Form({"new", "edit"}, {"protocol"}) EXCEPT !.protocols = {"telnet", "local"}, !.rows = 2],
    [Some({"vault", "scan", "assign", "delete"}, Two) EXCEPT !.files = Disk],
    [Form({"vault", "byhand", "edit", "delete"}, {"key"}) EXCEPT !.files = AnyFile, !.fresh = {"f2"}, !.names = {"key"}, !.rows = 2],
    [Some({"vault", "scan", "import", "disk"}, Start(<<>>, <<>>, <<>>)) EXCEPT !.files = AnyFile, !.docs = {SshDoc}],
    Importing({SshDoc, MobaDoc}, Disk),
    Importing({PuttyDoc, WinScpDoc, CsvDoc, TabbyDoc}, Disk),
    [Form({"import", "backup", "edit", "delete"}, {"protocol", "key"}) EXCEPT !.protocols = {"telnet"}],
    [Some({"snippets", "tunnels", "delete"}, One) EXCEPT !.rows = 2],
    [Some({"asks", "vault", "edit", "delete", "import"}, Two) EXCEPT !.fields = {"name"}],
    [Some({"remember", "assign", "vault"}, Two) EXCEPT !.calm = FALSE, !.loads = 1],
    [Some({"shortcuts", "asks", "new", "vault", "delete"}, Start(<<>>, <<>>, <<Session("a", "h1")>>)) EXCEPT !.calm = FALSE, !.fields = {"name"}],
    [Some({"move", "edit", "delete"}, Start(<<Group("g", None)>>, <<>>, <<Session("a", "h1")>>))
        EXCEPT !.calm = FALSE, !.windows = {1, 2}, !.loads = 1, !.fields = {"name"}]>>

MCScenes == Range(SceneList)
=============================================================================
