-------------------------------- MODULE MCFan --------------------------------
EXTENDS Fan
MCLimits == {<<0, 2>>, <<1, 2>>}
MCDrop == -2
=============================================================================
