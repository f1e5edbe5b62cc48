----------------------------- MODULE MCWebClient -----------------------------
\* A small instance of the web client for TLC.
EXTENDS WebClient

CONSTANTS a1, a2
=============================================================================
