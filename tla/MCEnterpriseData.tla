--------------------------- MODULE MCEnterpriseData ---------------------------
EXTENDS RuntimePreflight
===============================================================================
