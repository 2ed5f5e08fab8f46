----------------------------- MODULE MCSettings -----------------------------
EXTENDS Settings, TLC
CONSTANTS phone, web, order, theme

MCDevices == {phone, web}
MCKeys == {order, theme}
=============================================================================
