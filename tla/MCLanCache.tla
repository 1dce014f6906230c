----------------------------- MODULE MCLanCache -----------------------------
EXTENDS LanCache

MCIds == {"a"}
MCValues == {1, 2}
=============================================================================
