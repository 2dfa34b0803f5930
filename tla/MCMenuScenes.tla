---------------------------- MODULE MCMenuScenes ----------------------------
(***************************************************************************)
(* The menu scenes, from the initial scenes that RootScene::proc_boot_scene *)
(* can choose.                                                             *)
(***************************************************************************)
EXTENDS MenuScenes

\* Safe mode is a combination of buttons held on the health screen.
BootScenes == ({"HEALTH"} \X {"normal", "safe", "full"})
                  \union ({"LIMIT_OVER", "REBOOT"} \X {"normal", "full"})
=============================================================================
