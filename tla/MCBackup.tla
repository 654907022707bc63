------------------------------ MODULE MCBackup ------------------------------
\* One command, the scheduler and the exit.
EXTENDS Backup
CONSTANT desk
MCCallers == {desk}
=============================================================================
