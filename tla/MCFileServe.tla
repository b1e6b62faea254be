---------------------------- MODULE MCFileServe ----------------------------
(* A small disk and what may be copied from it, for FileServe.               *)
EXTENDS FileServe

MCFiles == {"report", "empty"}
MCDirs == {"folder"}
MCInside == [d \in MCDirs |-> <<"report", "empty">>]
MCLengths == [f \in MCFiles |-> IF f = "report" THEN 2 ELSE 0]

MCClips == {[kind |-> "files", urls |-> <<"report">>],
            [kind |-> "files", urls |-> <<"report", "folder">>],
            [kind |-> "files", urls |-> <<"folder">>],
            [kind |-> "links", urls |-> <<>>],
            [kind |-> "text", urls |-> <<>>]}
=============================================================================
