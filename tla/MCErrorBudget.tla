---------------------------- MODULE MCErrorBudget ----------------------------
EXTENDS ErrorBudget
===============================================================================
