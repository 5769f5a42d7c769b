--------------------------- MODULE MCAdminProducts --------------------------
EXTENDS AdminProducts
MCPatient == {"waits", "waitsToOpen"}
MCHurried == {"hurries"}
=============================================================================
