--------------------------- MODULE MCTransferGate ---------------------------
(* The gate under four free files; a drop of a file and a folder under each *)
(* conflict setting; requests that meet: two drops, a drop and a deletion.  *)
EXTENDS FileTransfers

CONSTANTS f1, f2, f3, f4, b1, b2

TwoLimits == {1, 2}
FourFiles == {f1, f2, f3, f4}
MCBase == (f1 :> "a") @@ (f2 :> "a") @@ (f3 :> "b") @@ (f4 :> "b")
MCNumbered == [n \in Names |-> CASE n = "a" -> <<"c", "d">> [] n = "b" -> <<"d", "c">>
                                 [] OTHER -> <<"a", "b">>]

File(f) == [name |-> MCBase[f], dir |-> FALSE, files |-> <<f>>]
Folder(n, fs) == [name |-> n, dir |-> TRUE, files |-> fs]
Request(kind, up, entries) == [kind |-> kind, up |-> up, entries |-> entries]

Nobody == [b \in {} |-> Request("copy", TRUE, <<>>)]
Free == [plans |-> Nobody, policy |-> "prompt", old |-> [p \in {} |-> "old"],
         loose |-> FourFiles, calm |-> TRUE, readable |-> TRUE]
Full == (<<"a">> :> "old") @@ (<<"b">> :> "dir") @@ (<<"b", "a">> :> "old")

Calmly(plans, policy) == [plans |-> plans, policy |-> policy, old |-> Full, loose |-> {}, calm |-> TRUE, readable |-> TRUE]
Hastily(plans, policy, old) == [Calmly(plans, policy) EXCEPT !.calm = FALSE, !.old = old]

Mixed(up) == Request("copy", up, <<File(f1), Folder("b", <<f2, f3>>)>>)
Twins(up) == Request("copy", up, <<[File(f1) EXCEPT !.name = "c"], File(f2), Folder("c", <<f3>>)>>)
Again(up) == Request("delete", up, <<Folder("b", <<>>), [File(f4) EXCEPT !.name = "a"]>>)

Pair == <<Folder("b", <<f2, f3>>)>>

MCScenes ==
  {Free}
  \cup { Calmly(b1 :> Mixed(TRUE) @@ b2 :> Again(TRUE), pol) : pol \in {"overwrite", "skip", "prompt"} }
  \cup { [Calmly(b1 :> Twins(up), pol) EXCEPT !.old = <<"a">> :> "old"] :
           up \in BOOLEAN, pol \in {"rename", "prompt"} }
  \cup { [Calmly(b1 :> Request("copy", FALSE, <<File(f1)>>), "prompt") EXCEPT !.readable = FALSE] }
  \cup { Calmly(b1 :> Request("open", FALSE, <<File(f1)>>) @@ b2 :> Again(FALSE), "prompt") }
  \cup { Hastily(b1 :> Request("copy", TRUE, Pair) @@ b2 :> Again(TRUE), "overwrite", Full) }
  \cup { Hastily(b1 :> Request("copy", FALSE, Pair) @@ b2 :> Request("copy", FALSE, <<File(f4)>>),
                  "rename", [p \in {} |-> "old"]) }
=============================================================================
