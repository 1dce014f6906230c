----------------------------- MODULE MCLogFiles -----------------------------
(* A root with a log and a folder that holds another.                      *)
EXTENDS LogFiles, TLC

MCFiles == {"f", "g"}
MCFolders == {"root", "d"}
MCIn == ("f" :> "root") @@ ("g" :> "d")
=============================================================================
