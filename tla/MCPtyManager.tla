---------------------------- MODULE MCPtyManager ----------------------------
EXTENDS PtyManager
=============================================================================
