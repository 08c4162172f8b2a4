---------------------------- MODULE MCMenuCache ----------------------------
(* A small instance of MenuCache: an internal GPT disk with two loaders, one  *)
(* of them OpenCore, two MBR sticks that carry the same loader, and a stick   *)
(* that is one file system, without partitions.                               *)
EXTENDS MenuCache

MCVolumes == {"disk", "stickA", "stickB", "plain"}
MCKind == [v \in MCVolumes |-> CASE v = "disk" -> "gpt" [] v = "plain" -> "raw" [] OTHER -> "mbr"]
MCPathOrder == <<"bootx64", "opencore">>
MCInitFiles == [v \in MCVolumes |-> [p \in {"bootx64", "opencore"} |->
                   IF p = "bootx64" \/ v = "disk" THEN 1 ELSE 0]]
MCInitOrder == <<"disk">>
MCOrders == {<<"disk">>, <<"disk", "stickA">>, <<"disk", "stickB">>,
             <<"stickB", "stickA", "disk">>, <<"disk", "plain">>,
             <<"stickA">>}
=============================================================================
