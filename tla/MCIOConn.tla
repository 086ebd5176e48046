------------------------------ MODULE MCIOConn ------------------------------
EXTENDS IOConn
CONSTANTS w1, w2, k1, k2

\* A pipe with a bad line, and standard streams with an unterminated one.
PipeAndStdio ==
    {[lines |-> <<1, Bad, 2>>, unterminated |-> FALSE, std |-> FALSE],
     [lines |-> <<1, 2>>, unterminated |-> TRUE, std |-> TRUE]}
=============================================================================
