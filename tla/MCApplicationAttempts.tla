------------------------ MODULE MCApplicationAttempts ------------------------
(* Instances of ApplicationAttempts for TLC.                                 *)
EXTENDS ApplicationAttempts, TLC

CONSTANTS agent, operator

\* the tools of app/mcp/server.py while the operator uses the commands of app/cli.py
AgentAndOperator == agent :> Tools \ {"reset"} @@ operator :> {"queue", "status", "reset"}

\* how often the application may be started
Thrice == 1 :> 3
Once == 1 :> 1
=============================================================================
