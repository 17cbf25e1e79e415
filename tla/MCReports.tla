------------------------------ MODULE MCReports ------------------------------
EXTENDS Reports

MCPartitions == {"panel"}
MCDetectors == {"smoke"}
MCOutages == {"NETWORK_ERROR"}
MCRejections == {"TWO_FACTOR_REQUIRED", "LOGIN_FORM_ERROR"}
=============================================================================
