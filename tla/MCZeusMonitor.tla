---------------------------- MODULE MCZeusMonitor ----------------------------
EXTENDS ZeusMonitor
=============================================================================
