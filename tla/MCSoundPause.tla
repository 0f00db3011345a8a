---------------------------- MODULE MCSoundPause ----------------------------
(***************************************************************************)
(* SoundPause for TLC: which menu items are chosen, while the machine runs *)
(* and while it is paused.                                                 *)
(***************************************************************************)
EXTENDS SoundPause

AllItems == Items
NoEvent == Items \ {"event"}
NoEventWarp == Items \ {"event", "warp"}
OnlyMenu == {"open menu"}
OnlyPause == {"pause"}
PauseAndWarp == {"pause", "warp"}
PauseAndEvent == {"pause", "event"}
NoItem == {}
=============================================================================
