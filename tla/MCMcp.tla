-------------------------------- MODULE MCMcp --------------------------------
(***************************************************************************)
(* Two tenants and two threads; two clients of the tools; flows of up to   *)
(* three steps with two names.                                             *)
(***************************************************************************)
EXTENDS McpServer

R(tool, args) == [tool |-> tool, args |-> args]

MCRequests ==
    {R(t, "good") : t \in {"file_read", "file_write", "file_append", "file_stat", "dir_list",
                           "path_exists", "http", "exec"}}
    \cup {R("file_write", "bad_path"), R("http", "blocked_host"), R("http", "bad_header")}
    \cup {R("exec", "futile"), R("exec", "slow"), R("port_check", "futile")}

\* What the unit test of append does.
AppendRequests == {R("file_append", "good"), R("file_read", "good")}
=============================================================================
