---------------------------- MODULE MCAdminPages ----------------------------
EXTENDS AdminPages

\* Every answer that a page of the dashboard asks for.
MCKeys == Answers
=============================================================================
