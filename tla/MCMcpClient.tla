----------------------------- MODULE MCMcpClient -----------------------------
\* Instances of McpClient for TLC: one call beside the connection tests and
\* their tools/list, two attempts for each request, one replaced server.
EXTENDS McpClient
=============================================================================
