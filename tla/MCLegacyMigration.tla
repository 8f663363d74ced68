-------------------------- MODULE MCLegacyMigration --------------------------
EXTENDS LegacyMigration

CONSTANTS r1, t1

RouterAndTool == {r1, t1}
Router == {r1}
OneTool == {t1}
=============================================================================
