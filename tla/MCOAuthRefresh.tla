--------------------------- MODULE MCOAuthRefresh ---------------------------
EXTENDS OAuthRefresh
=============================================================================
