-------------------------- MODULE MCBulkProcessing --------------------------
EXTENDS BulkProcessing

\* Five equal operations fill the buffer; a large one is cut off from small
\* ones; one is larger than the buffer.
MCLayouts == {<<1, 1, 1, 1, 1>>, <<1, 3, 1, 1>>, <<6, 2>>}

MCEnvironments == {{"busy", "rejected"}, {"busy", "delete"}, {"skipped"}}
=============================================================================
