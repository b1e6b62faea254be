----------------------------- MODULE MCCliprdr -----------------------------
(* Servers with and without the optional features, for Cliprdr.               *)
EXTENDS Cliprdr

\* A current server, and one that knows short format names only.
Servers == {Features, {"streamFiles", "noPaths"}}
AllKinds == {"text", "image", "files", "links", "other"}
=============================================================================
