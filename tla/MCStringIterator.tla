-------------------------- MODULE MCStringIterator --------------------------
EXTENDS StringIterator

\* The first and last code points of each length of encoding.
BoundaryCodes == {1, 127, 128, 2047, 2048, 65535, 65536, MaxCode}
===============================================================================
