-------------------------- MODULE MCIssuerCredentials --------------------------
EXTENDS IssuerCredentials

CONSTANTS alice, bob, c1, c2

MCAccount == {alice, bob}
MCGiven == {alice}
MCClient == {c1, c2}
================================================================================
