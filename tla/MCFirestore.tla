---------------------------- MODULE MCFirestore ----------------------------
EXTENDS FirestoreClient
=============================================================================
