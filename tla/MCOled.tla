------------------------------- MODULE MCOled -------------------------------
EXTENDS OLED
=============================================================================
