------------------------------ MODULE MCReadBuf ------------------------------
\* The instance of ReadBuf for TLC: see ReadBuf.cfg.
EXTENDS ReadBuf

LOCAL INSTANCE Bitwise

\* Masked is the & of the macros in circ_buf.h, here for every value they meet.
ASSUME \A x \in 0 .. 4 * Size : Masked(x) = x & (Size - 1)
=============================================================================
