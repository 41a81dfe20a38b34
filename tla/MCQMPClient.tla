---- MODULE MCQMPClient ----
EXTENDS QMPClient
====
