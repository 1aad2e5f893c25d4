-------------------------- MODULE MCPurchaseLists --------------------------
EXTENDS PurchaseLists, TLC

CONSTANTS ed, r1, r2, oil, salt, rice
=============================================================================
