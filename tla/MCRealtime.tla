----------------------------- MODULE MCRealtime -----------------------------
(* One folder with a file, a buffer of one change, and one image.           *)
EXTENDS Realtime

MCFolderOf == [p \in Path |-> "downloads"]
=============================================================================
