------------------------------ MODULE MCPlatform -------------------------------
EXTENDS Platform, TLC
CONSTANTS c1, c2
=============================================================================
