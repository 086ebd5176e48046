----------------------------- MODULE MCDispatch -----------------------------
EXTENDS Dispatch
CONSTANTS r1, r2, g1, g2

NoCancel == {<<"notify", "session/cancel">>, <<"call", "terminal/kill">>}

\* Integers, a fraction, numbers beyond MaxExact, a string, and what is no ID.
IDs == {Number(0), Number(3), Number(18), Number(-18), Text("a"), Other}

\* Errors with no code, with a code of their own and data, with a standard code
\* that is wrapped, and two in one.
Errors ==
    {Plain, Error(<<-32000>>, TRUE, TRUE), Wrap(<<ErrInternal>>), Wrap(<<ErrServerClosing>>),
     Wrap(<<ErrInvalidParams, ErrServerClosing>>)}
=============================================================================
