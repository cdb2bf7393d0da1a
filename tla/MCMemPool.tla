----------------------------- MODULE MCMemPool ------------------------------
\* Two buffers that touch and one apart.
EXTENDS MemPool

MCBuffers == {[addr |-> 0, size |-> 9], [addr |-> 9, size |-> 7], [addr |-> 18, size |-> 8]}
=============================================================================
