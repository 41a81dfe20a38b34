----------------------------- MODULE MCAdoption -----------------------------
EXTENDS Adoption
=============================================================================
