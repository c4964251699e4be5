--------------------------- MODULE HandlerLifecycle ---------------------------
(***************************************************************************)
(* What an ApplicationHandler promises the app-manager about the process   *)
(* of its application: it is handed back as not running only after it has  *)
(* exited.  "Lost" is a process whose output could not be read: nobody     *)
(* watches it any more, and only a new start gets the handler out of it.   *)
(***************************************************************************)
VARIABLE handler    \* "Idle", "Up", "Exited" or "Lost"

Init == handler = "Idle"

Start == handler' = "Up"
Exit == handler = "Up" /\ handler' = "Exited"
Lose == handler \in {"Up", "Exited"} /\ handler' = "Lost"
Collect == handler = "Exited" /\ handler' = "Idle"

Next == Start \/ Exit \/ Lose \/ Collect

Spec == Init /\ [][Next]_handler
===============================================================================
