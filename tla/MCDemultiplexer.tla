-------------------------- MODULE MCDemultiplexer --------------------------
EXTENDS Demultiplexer

CONSTANTS web, dead
============================================================================
