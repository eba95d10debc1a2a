------------------------------ MODULE MCBLEClient ------------------------------
(* Two of the registered services: ANCS with a characteristic that notifies *)
(* and one that is written, and Current Time with one that notifies.        *)
EXTENDS BLEClient

MCServices  == {"ancs", "time"}
MCChars     == {"notif", "ctrl", "clock"}
MCServiceOf == [c \in MCChars |-> IF c = "clock" THEN "time" ELSE "ancs"]
MCNotifying == {"notif", "clock"}
================================================================================
