----------------------------- MODULE MCAssembler -----------------------------
EXTENDS AssemblerProperties

CONSTANTS a, b, h

MCLabels    == {a, b}
MCWordLines == {<<a>>, <<b, Number>>, <<b, a>>}
HexWordLines == {<<a>>, <<h>>}
=============================================================================
