----------------------------- MODULE MCChatPanel -----------------------------
\* Instances of ChatPanel for TLC.
EXTENDS ChatPanel
=============================================================================
