--------------------------- MODULE MCRemoteFiles ---------------------------
(* Small lists for model-checking RemoteFiles: two lists with files of one, two *)
(* and three ranges, the last of them past PosMax, an entry whose name is     *)
(* refused and files in directories; or a list with a file followed by an     *)
(* empty list and one of directories only.                                    *)
EXTENDS RemoteFiles

File(top, size) == [kind |-> "file", size |-> size, top |-> top, nested |-> FALSE]
Nested(top, size) == [File(top, size) EXCEPT !.nested = TRUE]
Dir(top) == [kind |-> "dir", size |-> 0, top |-> top, nested |-> FALSE]
Unsafe(size) == [kind |-> "unsafe", size |-> size, top |-> "..", nested |-> FALSE]

TwoCopies == << <<File("a", 8), Unsafe(1), Nested("d", 10)>>, <<Nested("b", 2)>> >>

DirOvertakes == << <<File("a", 1)>>, <<>>, <<Dir("e"), Unsafe(1)>> >>
=============================================================================
