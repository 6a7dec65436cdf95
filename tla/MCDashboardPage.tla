--------------------------- MODULE MCDashboardPage ---------------------------
EXTENDS DashboardPage
MCRoutes == {"projects", "servers", "volumes"}
=============================================================================
