---------------------------- MODULE FileBatches ----------------------------
(***************************************************************************)
(* What the download half of qf::clipboard_entry promises its user.  Each  *)
(* list the server copies is a batch.  Accepting a batch settles at once   *)
(* which of its files can be fetched at all; those are fetched one at a    *)
(* time, in the order of the lists, and each of them is settled once, as   *)
(* saved or as failed.  A batch is published when its last file is settled *)
(* and never again.  Threads, stream ids, requests and the responses the   *)
(* server sends, late or twice, have disappeared.                          *)
(***************************************************************************)
EXTENDS Integers

CONSTANTS
    Batches,  \* numbers of the lists the server copies, in that order
    Files     \* pairs <<g, i>>: entry i of list g is a file with a safe name

VARIABLES
    status,   \* status[g] \in {"none", "open", "published"}
    outcome   \* outcome[f] \in {"pending", "saved", "failed"}

vars == <<status, outcome>>

FilesOf(g) == {f \in Files : f[1] = g}

\* The order in which the files of all batches are listed.
Before(e, f) == e[1] < f[1] \/ (e[1] = f[1] /\ e[2] < f[2])

Init ==
    /\ status = [g \in Batches |-> "none"]
    /\ outcome = [f \in Files |-> "failed"]

\* Batch g is taken up and the files S of it are going to be fetched.  When
\* there are none, and the batch names anything at all, it is published.
Accept(g, S) ==
    /\ status[g] = "none"
    /\ \A h \in Batches : h > g => status[h] = "none"
    /\ status' \in {[status EXCEPT ![g] = s] :
                       s \in IF S = {} THEN {"open", "published"} ELSE {"open"}}
    /\ outcome' = [f \in Files |-> IF f \in S THEN "pending" ELSE outcome[f]]

\* The oldest file still to be fetched is settled.
Settle(f) ==
    /\ outcome[f] = "pending"
    /\ \A e \in Files : Before(e, f) => outcome[e] # "pending"
    /\ outcome' \in {[outcome EXCEPT ![f] = o] : o \in {"saved", "failed"}}
    /\ UNCHANGED status

Publish(g) ==
    /\ status[g] = "open"
    /\ \A f \in FilesOf(g) : outcome[f] # "pending"
    /\ status' = [status EXCEPT ![g] = "published"]
    /\ UNCHANGED outcome

Next ==
    \/ \E g \in Batches : \E S \in SUBSET FilesOf(g) : Accept(g, S)
    \/ \E f \in Files : Settle(f)
    \/ \E g \in Batches : Publish(g)

Spec == Init /\ [][Next]_vars

=============================================================================
