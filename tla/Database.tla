------------------------------ MODULE Database ------------------------------
(***************************************************************************)
(* The saved sessions, groups, keys, snippets and tunnels as one value,    *)
(* and the repository operations (electron/db/repo.ts) as operators on it, *)
(* with the foreign keys and cascades of electron/db/schema.ts. An         *)
(* operation either fails and leaves the tables alone, or gives the next   *)
(* tables and the id of the row it made. Ids are never used twice          *)
(* (AUTOINCREMENT). None stands for NULL, and NoText for a text that is    *)
(* NULL or empty. Columns no operation reads to decide anything (keepalive,*)
(* serial, RDP and terminal settings, colours) are left out.               *)
(***************************************************************************)
EXTENDS SequencesExt

CONSTANTS Names,          \* of groups, sessions and keys
          Hosts,          \* host and user names
          Ports,          \* 0 is NULL
          Fingerprints    \* of keys; NoText for a key that cannot be parsed

None == 0
NoText == ""

Protocols == {"ssh", "telnet", "serial", "rdp", "vnc", "local"}
AuthTypes == {"password", "key", "agent", "keyboard-interactive", "none", NoText}

\* What imports write into the notes of a session.
Notes == [what : {"ProxyJump", "RequiresKey"}, of : STRING]
Note(what, of) == [what |-> what, of |-> of]

GroupRows == [name : Names, parent : Nat]
KeyRows == [name : Names, fp : Fingerprints]
SessionRows ==
    [group : Nat, name : Names, protocol : Protocols, host : Hosts, port : Ports, user : Hosts,
     auth : AuthTypes, key : Nat, jump : Nat, password : BOOLEAN, notes : Seq(Notes)]
SnippetRows == [global : BOOLEAN, session : Nat]
TunnelRows == [session : Nat, auto : BOOLEAN]

\* What a new session holds before its maker says anything of it.
Blank == [group |-> None, name |-> NoText, protocol |-> "ssh", host |-> NoText, port |-> 22, user |-> NoText,
          auth |-> "password", key |-> None, jump |-> None, password |-> FALSE, notes |-> <<>>]

ASSUME ColumnsAssumption ==
    Blank \in SessionRows /\ {0, 22, 23, 3389, 5900} \subseteq Ports /\ NoText \in Fingerprints

Tables == {"groups", "keys", "sessions", "snippets", "tunnels"}

NoRows == [groups |-> <<>>, keys |-> <<>>, sessions |-> <<>>, snippets |-> <<>>, tunnels |-> <<>>,
           next |-> [t \in Tables |-> 1]]

TablesTyped(d) ==
    /\ DOMAIN d = Tables \cup {"next"} /\ d.next \in [Tables -> Nat \ {0}]
    /\ \A t \in Tables : DOMAIN d[t] \subseteq 1..(d.next[t] - 1)
    /\ \A g \in DOMAIN d.groups : d.groups[g] \in GroupRows
    /\ \A k \in DOMAIN d.keys : d.keys[k] \in KeyRows
    /\ \A s \in DOMAIN d.sessions : d.sessions[s] \in SessionRows
    /\ \A i \in DOMAIN d.snippets : d.snippets[i] \in SnippetRows
    /\ \A t \in DOMAIN d.tunnels : d.tunnels[t] \in TunnelRows

---------------------------------------------------------------------------
\* f, and g where f says nothing.
Patched(f, g) == [x \in DOMAIN f \cup DOMAIN g |-> IF x \in DOMAIN f THEN f[x] ELSE g[x]]
Single(x, y) == [z \in {x} |-> y]

Refused(d) == [ok |-> FALSE, id |-> None, db |-> d]
Done(d) == [ok |-> TRUE, id |-> None, db |-> d]
Inserted(d, table, row) ==
    [ok |-> TRUE, id |-> d.next[table],
     db |-> [d EXCEPT ![table] = Patched(@, Single(d.next[table], row)), !.next[table] = @ + 1]]

Without(rows, ids) == [i \in DOMAIN rows \ ids |-> rows[i]]
Names_(rows, ref) == ref = None \/ ref \in DOMAIN rows

\* The row a lookup by a column finds: the first one made.
Find(rows, Test(_)) ==
    LET found == {i \in DOMAIN rows : Test(rows[i])} IN IF found = {} THEN None ELSE Min(found)

---------------------------------------------------------------------------
\* groupsRepo. Deleting a group deletes the groups under it, and sets its sessions free.
GroupsCreate(d, name, parent) ==
    IF Names_(d.groups, parent) THEN Inserted(d, "groups", [name |-> name, parent |-> parent]) ELSE Refused(d)

GroupsRename(d, id, name) ==
    IF id \in DOMAIN d.groups THEN Done([d EXCEPT !.groups[id].name = name]) ELSE Refused(d)

Under(d, id) ==
    LET inside[g \in DOMAIN d.groups] ==
            g = id \/ (d.groups[g].parent # None /\ inside[d.groups[g].parent])
    IN {g \in DOMAIN d.groups : inside[g]}

\* Mutant: the groups inside stay.
GroupsDeleteOne(d, id) ==
    Done([d EXCEPT !.groups = Without(@, {id}),
                   !.sessions = [s \in DOMAIN @ |-> IF @[s].group = id THEN [@[s] EXCEPT !.group = None] ELSE @[s]]])

\* Mutant: the sessions inside go with it.
GroupsDeleteAll(d, id) ==
    LET gone == Under(d, id) IN
    Done([d EXCEPT !.groups = Without(@, gone),
                   !.sessions = Without(@, {s \in DOMAIN @ : @[s].group \in gone})])

GroupsDelete(d, id) ==
    LET gone == Under(d, id) IN
    Done([d EXCEPT !.groups = Without(@, gone),
                   !.sessions = [s \in DOMAIN @ |-> IF @[s].group \in gone
                                                    THEN [@[s] EXCEPT !.group = None] ELSE @[s]]])

---------------------------------------------------------------------------
\* sessionsRepo. A row must name groups, keys and sessions that exist, and a known protocol.
Fits(d, row) ==
    /\ Names_(d.groups, row.group) /\ Names_(d.keys, row.key) /\ Names_(d.sessions, row.jump)
    /\ row.protocol \in Protocols

SessionsCreate(d, row) == IF Fits(d, row) THEN Inserted(d, "sessions", row) ELSE Refused(d)

\* A column the caller does not give keeps its value, and so does a stored password when none is typed.
SessionsUpdate(d, id, patch) ==
    IF id \notin DOMAIN d.sessions THEN Refused(d)
    ELSE LET cur == d.sessions[id]
             given == Patched(patch, cur)
             row == [given EXCEPT !.password = cur.password \/ given.password]
         IN IF Fits(d, row) THEN Done([d EXCEPT !.sessions[id] = row]) ELSE Refused(d)

\* A session another one jumps through cannot go: its reference has no ON DELETE.
SessionsDelete(d, id) ==
    IF \E s \in DOMAIN d.sessions \ {id} : d.sessions[s].jump = id THEN Refused(d)
    ELSE Done([d EXCEPT !.sessions = Without(@, {id}),
                        !.snippets = Without(@, {i \in DOMAIN @ : @[i].session = id}),
                        !.tunnels = Without(@, {i \in DOMAIN @ : @[i].session = id})])

---------------------------------------------------------------------------
\* keysRepo. A deleted key is taken out of the sessions that used it.
KeysInsert(d, name, fp) == Inserted(d, "keys", [name |-> name, fp |-> fp])
KeysByFingerprint(d, fp) == Find(d.keys, LAMBDA k : k.fp = fp)
KeysByName(d, name) == Find(d.keys, LAMBDA k : k.name = name)
KeysDelete(d, id) ==
    Done([d EXCEPT !.keys = Without(@, {id}),
                   !.sessions = [s \in DOMAIN @ |-> IF @[s].key = id /\ id # None
                                                    THEN [@[s] EXCEPT !.key = None] ELSE @[s]]])

---------------------------------------------------------------------------
\* snippetsRepo. A snippet is global and belongs to no session, or names the session that owns it.
ScopeSnippet(global, session) ==
    IF global THEN [ok |-> TRUE, row |-> [global |-> TRUE, session |-> None]]
    ELSE [ok |-> session # None, row |-> [global |-> FALSE, session |-> session]]

SnippetsCreate(d, global, session) ==
    LET scoped == ScopeSnippet(global, session) IN
    IF scoped.ok /\ Names_(d.sessions, scoped.row.session) THEN Inserted(d, "snippets", scoped.row) ELSE Refused(d)

SnippetsUpdate(d, id, global, session) ==
    LET scoped == ScopeSnippet(global, session) IN
    IF id \in DOMAIN d.snippets /\ scoped.ok /\ Names_(d.sessions, scoped.row.session)
    THEN Done([d EXCEPT !.snippets[id] = scoped.row]) ELSE Refused(d)

SnippetsDelete(d, id) == Done([d EXCEPT !.snippets = Without(@, {id})])

\* snippets:import: whatever they were, imported snippets are global.
SnippetsImport(d, count) ==
    FoldLeft(LAMBDA r, i : SnippetsCreate(r.db, TRUE, None), Done(d), [i \in 1..count |-> i])

---------------------------------------------------------------------------
\* tunnelsRepo.
TunnelsCreate(d, session, auto) ==
    IF session \in DOMAIN d.sessions
    THEN Inserted(d, "tunnels", [session |-> session, auto |-> auto]) ELSE Refused(d)
TunnelsSetAuto(d, id, auto) ==
    IF id \in DOMAIN d.tunnels THEN Done([d EXCEPT !.tunnels[id].auto = auto]) ELSE Refused(d)
TunnelsDelete(d, id) == Done([d EXCEPT !.tunnels = Without(@, {id})])
---------------------------------------------------------------------------
(* Sound tables *)

\* Every reference leads to a row, a group lies under an older one (so the tree has no
\* cycle), and a snippet is either global or owned.
RowsResolve(d) ==
    /\ \A s \in DOMAIN d.sessions : Fits(d, d.sessions[s]) /\ d.sessions[s].jump # s
    /\ \A g \in DOMAIN d.groups : Names_(d.groups, d.groups[g].parent) /\ d.groups[g].parent < g
    /\ \A i \in DOMAIN d.snippets :
          /\ d.snippets[i].global <=> d.snippets[i].session = None
          /\ Names_(d.sessions, d.snippets[i].session)
    /\ \A t \in DOMAIN d.tunnels : d.tunnels[t].session \in DOMAIN d.sessions

\* No two keys that can be parsed are the same.
KeysApart(d) ==
    \A k, l \in DOMAIN d.keys : k # l => d.keys[k].fp = NoText \/ d.keys[k].fp # d.keys[l].fp
=============================================================================
