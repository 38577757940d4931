-------------------------- MODULE MCCreatedResources --------------------------
EXTENDS CreatedResources

CONSTANTS secret, configMap, a, c1, c2
=============================================================================
