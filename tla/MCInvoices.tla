---------------------------- MODULE MCInvoices ----------------------------
EXTENDS Invoices, TLC

CONSTANTS p1, p2, r1, l1, l2, l3, l4

\* One decision per line, as the frontend must send.
OneEach == {<<"confirm">>, <<"reject">>}
=============================================================================
