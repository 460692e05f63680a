------------------------------ MODULE McpTools ------------------------------
(***************************************************************************)
(* The tools of the MCP server (gateway/mcptools.go and                    *)
(* gateway/read_query_tools.go) and the methods of the wire protocol       *)
(* (internal/proto/message.go): which method a tool calls, which tools are *)
(* announced as read-only, and which methods change the Agent's state.     *)
(* devices_list is left out: it calls no device.                           *)
(***************************************************************************)

\* What a tool is registered with: the method its handler calls, and whether it has ReadOnlyHint.
reads(m) == [method |-> m, readOnlyHint |-> TRUE]
changes(m) == [method |-> m, readOnlyHint |-> FALSE]

deviceTools == [device_ping |-> reads("device.ping")]

commandTools == [command_exec |-> changes("command.exec"), command_read |-> reads("command.read")]

processTools ==
    [process_start |-> changes("process.start"), process_read |-> reads("process.read"),
     process_write |-> changes("process.write"), process_wait |-> reads("process.wait"),
     process_terminate |-> changes("process.terminate"), process_list |-> reads("process.list")]

executionTools ==
    [execution_list |-> reads("execution.list"), execution_get |-> reads("execution.get")]

filesystemTools ==
    [file_read |-> reads("file.read"), file_stat |-> reads("file.stat"), file_list |-> reads("file.list"),
     file_write |-> changes("file.write"), file_move |-> changes("file.move"),
     file_delete |-> changes("file.delete"), directory_create |-> changes("directory.create")]

\* addReadQueryTool registers them all in the same way.
readQueryTools ==
    [t \in {"git_status", "git_diff", "git_log", "github_repo", "github_issue", "github_pull_request",
            "docker_ps", "docker_inspect", "docker_logs", "systemd_status", "systemd_units",
            "journal_query", "tmux_sessions", "tmux_panes", "tmux_capture"} |-> reads("read.query")]

toolGroups ==
    {deviceTools, commandTools, processTools, executionTools, filesystemTools, readQueryTools}

Tools == UNION {DOMAIN g : g \in toolGroups}

tool(t) ==
    CASE t \in DOMAIN deviceTools -> deviceTools[t]
      [] t \in DOMAIN commandTools -> commandTools[t]
      [] t \in DOMAIN processTools -> processTools[t]
      [] t \in DOMAIN executionTools -> executionTools[t]
      [] t \in DOMAIN filesystemTools -> filesystemTools[t]
      [] OTHER -> readQueryTools[t]

methodOf(t) == tool(t).method

readOnlyTools == {t \in Tools : tool(t).readOnlyHint}

mutatingMethods ==
    {"command.exec", "process.start", "process.write", "process.terminate",
     "file.write", "file.move", "file.delete", "directory.create"}

\* Mutant of IsMutatingMethod: a method is missing from the table.
IsMutatingWithoutWrite(m) == m \in mutatingMethods \ {"file.write"}

IsMutatingMethod(m) == m \in mutatingMethods
=============================================================================
