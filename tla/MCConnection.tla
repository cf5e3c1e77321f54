---- MODULE MCConnection ----
EXTENDS Connection
=============================
