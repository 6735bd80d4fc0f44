----------------------------- MODULE McpServers -----------------------------
(***************************************************************************)
(* mcp.go: the MCP servers of session/new become one JSON file, in which   *)
(* servers are keyed by name.  A name is trimmed; the one that is then     *)
(* empty becomes "server-<i>".                                             *)
(***************************************************************************)
EXTENDS Naturals, SequencesExt

CONSTANT ServerName    \* "server-<i>" of the i-th server

ASSUME ServerNameAssumption ==
    \A i, j \in DOMAIN ServerName : ServerName[i] = ServerName[j] => i = j

NoServers == [n \in {} |-> 0]

\* Mutant: the server keeps the name it came with.
NameGiven(servers, i) == servers[i].name

NameOf(servers, i) == IF servers[i].name = "" THEN ServerName[i] ELSE servers[i].name
Usable(server) == server.type \in {"", "stdio"} /\ server.command

\* One server that cannot be used refuses the request, and no file is made.
Refused(servers) == \E i \in DOMAIN servers : ~Usable(servers[i])

AddServer(servers, file, i) ==
    [n \in DOMAIN file \cup {NameOf(servers, i)} |->
        IF n = NameOf(servers, i) THEN i ELSE file[n]]

\* buildMCPConfig: which server of the request each name of the file means.
BuildMCPConfig(servers) ==
    FoldLeft(LAMBDA file, i : AddServer(servers, file, i), NoServers,
             [i \in DOMAIN servers |-> i])
=============================================================================
