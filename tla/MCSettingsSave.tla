--------------------------- MODULE MCSettingsSave ---------------------------
EXTENDS SettingsSave
CONSTANTS h1, h2

\* One kind of ghost task: this module does not tell them apart.
MCOtherTasks == {"ReadGhosts"}
=============================================================================
