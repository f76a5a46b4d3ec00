---------------------------- MODULE MCMcpServer ----------------------------
EXTENDS McpServer
=============================================================================
