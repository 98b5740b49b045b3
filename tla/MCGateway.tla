---- MODULE MCGateway ----
(***************************************************************************)
(* The coordinator and its legacy aliases, one module of the repository    *)
(* without tools (Pulse) and one plug-in whose tools collide with both.    *)
(***************************************************************************)
EXTENDS Gateway

MCModules == {"plugin", "pulse"}
MCOwners == <<"coordinator", "legacy", "plugin", "pulse">>
MCToolsOf == [o \in Range(MCOwners) |->
    CASE o = "coordinator" -> <<"status", "logs">>
      [] o = "legacy"      -> <<"query">>
      [] o = "plugin"      -> <<"logs", "query", "work">>
      [] o = "pulse"       -> << >>]
MCTools == UNION {{o} \X Range(MCToolsOf[o]) : o \in Range(MCOwners)}
MCNames == {q[2] : q \in MCTools} \cup {q[1] \o "_" \o q[2] : q \in MCTools}
MCPrefixed == [q \in Range(MCOwners) \X MCNames |->
    IF q \in MCTools THEN q[1] \o "_" \o q[2] ELSE "work"]
====
