----------------------------- MODULE MCJournal ------------------------------
(* Instances of Journal for TLC. *)
EXTENDS Journal

MCConfigs == {{"agents", "once"}, {"scan", "once"}, {"herdr", "once"},
              {"agents", "cursor", "herdr"}, {"cursor", "once"}}
MCFiles   == {Absent, Torn, Listing({"a"})}
MCPanes   == {{}, {"a"}}
MCFolders == {{}, {"w"}}
MCScans   == {0, 1}
=============================================================================
