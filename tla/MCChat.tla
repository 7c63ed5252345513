------------------------------- MODULE MCChat -------------------------------
EXTENDS Chat
OneTwo == <<1, 2, 2>>
=============================================================================
