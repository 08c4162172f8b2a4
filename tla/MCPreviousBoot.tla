---------------------------- MODULE MCPreviousBoot ----------------------------
(* A small instance of PreviousBoot: two Linux entries that share their name, *)
(* an OpenCore entry with the title ReconcileHackintoshMacOS gives it, a       *)
(* firmware entry, a tool and a submenu option; the scan finds all of them, or *)
(* loses the first Linux and puts the firmware entry in front.                 *)
EXTENDS PreviousBoot

linuxA == [tag |-> "loader", name |-> "Linux", title |-> "Load Linux from A", id |-> "A"]
linuxB == [tag |-> "loader", name |-> "Linux", title |-> "Load Linux from B", id |-> "B"]
openCore == [tag |-> "loader", name |-> "Instance: OpenCore", title |-> "macOS (via OpenCore)", id |-> "C"]
firmware == [tag |-> "firmware", name |-> "Linux", title |-> "Reboot to Linux", id |-> Absent]
shell == [tag |-> "tool", name |-> Absent, title |-> "Shell", id |-> "A"]
single == [tag |-> "option", name |-> Absent, title |-> "Single", id |-> "A"]

MCNames == {"Linux", "Instance: OpenCore", "macOS (via OpenCore)",
            "Load Linux from A", "Load Linux from B", "Reboot to Linux", "Shell", "Single"}
MCIds == {"A", "B", "C"}
MCIncluded == {<<n, n>> : n \in MCNames}
    \cup {<<t, "Linux">> : t \in {"Load Linux from A", "Load Linux from B", "Reboot to Linux"}}
MCMenus == {<<linuxA, linuxB, openCore, firmware, shell>>,
            <<firmware, linuxB, openCore, shell>>}
MCSubOptions == {single}
MCSelections == {<<"+">>, <<"+", "macOS (via OpenCore)">>}
=============================================================================
